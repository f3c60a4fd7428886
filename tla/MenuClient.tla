----------------------------- MODULE MenuClient -----------------------------
(***************************************************************************)
(* A caller that asks rest.Client.Apply for one goal over and over, as a   *)
(* reconcile loop does, and what it can rely on.                           *)
(***************************************************************************)
EXTENDS MenuApply

CONSTANTS Goals,   \* what a caller may ask for: records [spec, want]
          MaxID    \* bound on the ids a router hands out before the caller stops

ASSUME MaxIDAssumption == MaxID \in Nat
ASSUME GoalsAssumption ==
  \A g \in Goals : g = [spec |-> g.spec, want |-> g.want] /\ g.want \in Seq(Range(g.want))

\* The Ignore selectors are on flags only the router sets, such as dynamic: they are
\* on no field anybody writes or traffic changes, and a row is not born with them.
ASSUME SelectorsAssumption ==
  \A g \in Goals : \A sel \in g.spec.ignore :
    /\ ~Subset(sel, Defaults)
    /\ \A row \in Range(g.want) \cup HandRows : DOMAIN sel \cap DOMAIN row = {}
    /\ DOMAIN sel \cap Counters = {}

\* Counters are read-only: no desired row sets one.
ASSUME CountersAssumption == \A g \in Goals : \A row \in Range(g.want) : Counters \cap DOMAIN row = {}

Init == MenuInit /\ \E g \in Goals : spec = g.spec /\ want = g.want

\* Mutant: a retry after a failure runs the plan of the failed call again.
ApplyStale ==
  /\ dev[at].next <= MaxID
  /\ \E p \in {IF phase = "failed" THEN [err |-> "none", steps |-> steps]
               ELSE Fresh(at, spec, want)} : Begin(at, spec, want, p)
  /\ UNCHANGED envVars

\* Apply: plan from a fresh reading, then run it.
Apply ==
  /\ dev[at].next <= MaxID
  /\ \E p \in {Fresh(at, spec, want)} : Begin(at, spec, want, p)
  /\ UNCHANGED envVars

\* The first reading fails.
ApplyLost ==
  /\ Returned /\ faults < MaxFaults
  /\ faults' = faults + 1
  /\ Fail
  /\ UNCHANGED <<dev, edits>>

Client == Apply \/ CallStep
Next == Client \/ ApplyLost \/ HandStep \/ \E t \in Targets : Traffic(t)

Spec     == Init /\ [][Next]_menuVars
FairSpec == Spec /\ WF_menuVars(Client)

-----------------------------------------------------------------------------
(***************************************************************************)
(* Properties                                                              *)
(***************************************************************************)

\* Types of the call in progress and of the bounds on its environment.
TypeOK == CallTypeOK /\ [spec |-> spec, want |-> want] \in Goals

\* The router stores what the caller asks for, and a row has a value for the key if
\* there is one, so a created row is found again.
Storable(d) == \A i \in DOMAIN d : /\ Subset(d[i], Stored(d[i]))
                                   /\ spec.key # NoKey => spec.key \in DOMAIN d[i]

\* Where rows are matched by content, a row that is stored for one desired row fits
\* another only if the two are stored alike.  (Of two rows one of which fits the other,
\* the lesser may claim the row that was created for the greater.)
Separable(d) == spec.key = NoKey =>
  \A i, j \in DOMAIN d : Subset(d[j], Stored(d[i])) => Stored(d[j]) = Stored(d[i])

\* No more rows of the reading could be desired rows than are asked for, so none is
\* left for a later reading to claim in place of one that was moved past it.
Uncontested ==
  LET c == List(dev[at])
  IN  Cardinality({k \in DOMAIN c : \E i \in DOMAIN want : Fits(spec, want[i], c[k])}) <= Len(want)

\* An Apply to an ordered menu that returned nil, with nobody else at the router
\* since its last reading, leaves nothing to do: the next plan is empty, so every
\* desired row is there, in order, and a prune has left no other static row.  What
\* the router stores for a row it is sent does not matter, because a second reading
\* comes after the creates.  Under Tolerate no unmanaged row may pass for a desired
\* one (TwinsPairOff shows why).
Converged ==
  (/\ phase = "ok" /\ ~disturbed
   /\ spec.ordered /\ spec.key = NoKey
   /\ spec.unlisted = "prune" \/ Uncontested)
    => LET p == Fresh(at, spec, want) IN p.err = "none" /\ p.steps = <<>>

\* The same of menus with a key or without order.  There is no second reading after
\* an update, nor at all where there is no order, so the claim is weaker: it needs
\* rows the router stores as asked, and without order the next plan may be ambiguous.
ListConverged ==
  (/\ phase = "ok" /\ ~disturbed
   /\ ~spec.ordered \/ (spec.key # NoKey /\ Uncontested)
   /\ Storable(want))
    => LET p == Fresh(at, spec, want)
       IN  p.steps = <<>> /\ (spec.ordered => p.err = "none")

\* Retrying after a lost request or a lost reply never creates a row twice: a
\* create never brings the rows of one content above the number asked for.
NoDuplicateCreate ==
  [][(edits' = 0 /\ Storable(want) /\ Separable(want) /\ dev'[at].next # dev[at].next) =>
       LET row == dev'[at].rows[dev[at].next]
       IN  Cardinality({id \in DOMAIN dev'[at].rows : dev'[at].rows[id] = row})
             <= Cardinality({i \in DOMAIN want : Stored(want[i]) = row})]_menuVars

\* No request of a call touches a row the Ignore selectors cover, nor another
\* router; and under Tolerate no request of a call removes any row, whatever
\* people do to the menu between the reading and the request.
OthersKept ==
  [][todo' # todo =>
       \A t \in Targets :
         LET Theirs(m) == {id \in DOMAIN m.rows : t # at \/ IsDynamic(m.rows[id])}
         IN  /\ Theirs(dev'[t]) = Theirs(dev[t])
             /\ \A id \in Theirs(dev[t]) : dev'[t].rows[id] = dev[t].rows[id]
             /\ Only(dev'[t].order, Theirs(dev[t])) = Only(dev[t].order, Theirs(dev[t]))
             /\ spec.unlisted = "tolerate" => DOMAIN dev[t].rows \subseteq DOMAIN dev'[t].rows]_menuVars

\* The menu matches, or a desired row is ambiguous and nothing will be written.
Settled ==
  LET p == Fresh(at, spec, want)
  IN  p.err = "AmbiguousError" \/ (p.err = "none" /\ p.steps = <<>>)

\* Retried often enough, Apply gets there: once people and the network leave it
\* alone, either the menu matches, or a desired row is ambiguous and every call
\* says so without touching the menu.  (An unmanaged twin of a managed row that is out
\* of order can prevent it: TwinsPairOff.)
Settles == <>[]Settled

\* menu.go: rows that are identical apart from their id "can be paired off in listed
\* order: whichever is picked, the result is the same", and live_test.go: "a second
\* apply of the same spec must do nothing at all": a call made after one that returned
\* nil, with nobody else at the router since its last reading, plans no step.
TwinsPairOff ==
  [][(phase = "ok" /\ ~disturbed /\ phase' \in {"steps", "mutations"}) => steps' = <<>>]_menuVars

\* menu.go: "so an ambiguity fails the whole plan rather than after some of it
\* has been applied": with nobody else at the router, a call that has begun to
\* write never ends on an ambiguity.
AmbiguityBeforeWrites ==
  [][(phase = "mutations" /\ phase' = "failed" /\ edits' = 0)
       => Fresh(at, spec, want).err # "AmbiguousError"]_menuVars
=============================================================================
