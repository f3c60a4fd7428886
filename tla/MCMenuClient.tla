---------------------------- MODULE MCMenuClient ----------------------------
(* Small instances of MenuClient. *)
EXTENDS MenuClient

R == {"r1"}

Row(comment) == [comment |-> comment]
Dynamic == [comment |-> "dyn", dynamic |-> "true"]
MCDefaults  == [dynamic |-> "false"]
CountedDefaults == [dynamic |-> "false", packets |-> "0"]
MCCounters  == {"packets"}
MCCanonical == [v \in {"x/32"} |-> "x"]

Selectors == {[dynamic |-> "true"], [dynamic |-> "yes"]}
MenuSpec(unlisted, ordered, key) ==
  [unlisted |-> unlisted, ordered |-> ordered, key |-> key, ignore |-> Selectors]
FirewallSpecs == {MenuSpec(u, TRUE, NoKey) : u \in {"tolerate", "prune"}}
KeyedSpecs    == {MenuSpec(u, o, "comment") : u \in {"tolerate", "prune"}, o \in BOOLEAN}
ListSpecs     == {MenuSpec(u, FALSE, NoKey) : u \in {"tolerate", "prune"}}

OnRouter(comment) == Stored(Row(comment))

\* Every order of up to three static rows, with a dynamic row or a second hand-added
\* row among them.
Starts == {<<>>, <<Dynamic>>, <<OnRouter("h")>>}
  \cup {<<OnRouter("b"), Dynamic, OnRouter("a")>>,
        <<OnRouter("h"), OnRouter("b"), OnRouter("a")>>,
        <<OnRouter("b"), OnRouter("h"), OnRouter("c"), OnRouter("a")>>,
        <<OnRouter("c"), OnRouter("b"), OnRouter("a")>>,
        <<OnRouter("a"), OnRouter("a"), Dynamic, OnRouter("b")>>}

Wants == {<<Row("a"), Row("b")>>, <<Row("a"), Row("b"), Row("c")>>,
          <<Row("a"), Row("a")>>}

\* Keyed rows: two fields, matched by comment, the other updated in place.
KeyedRow(comment, chain) == [comment |-> comment, chain |-> chain]
KeyedStarts == {<<>>, <<Stored(KeyedRow("b", "in")), Stored(KeyedRow("a", "out"))>>,
                <<Dynamic, Stored(KeyedRow("h", "in")), Stored(KeyedRow("b", "out"))>>}
KeyedWants == {<<KeyedRow("a", "in"), KeyedRow("b", "in")>>}

\* Rows the router respells, and rows one of which fits the other.
RespelledWants == {<<Row("x/32"), Row("b")>>}
NestedWants    == {<<Row("a"), KeyedRow("a", "in")>>, <<KeyedRow("a", "in"), Row("a")>>}

GoalsOf(specs, wants) == {[spec |-> s, want |-> w] : s \in specs, w \in wants}

RetryGoals == GoalsOf(FirewallSpecs \cup ListSpecs, Wants) \cup GoalsOf(KeyedSpecs, KeyedWants)
RetryStarts == Starts \cup KeyedStarts
EditGoals  == GoalsOf(FirewallSpecs, {<<Row("a"), Row("b")>>, <<Row("a"), KeyedRow("a", "in")>>})
                \cup GoalsOf(FirewallSpecs, RespelledWants)
EditStarts == {<<OnRouter("h"), OnRouter("b")>>, <<OnRouter("b"), Dynamic, OnRouter("a")>>}
EditRows   == {Row("h"), Row("a")}
NestedGoals == GoalsOf(FirewallSpecs, NestedWants)

\* Two rows alike of which one is asked for, and not in the place it belongs.
TwinGoals  == GoalsOf({MenuSpec("tolerate", TRUE, NoKey)}, {<<Row("x"), Row("a"), Row("b")>>})
TwinStarts == {<<OnRouter("a"), OnRouter("a"), OnRouter("b"), OnRouter("x")>>}
None == {}
=============================================================================
