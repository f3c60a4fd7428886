---------------------------- MODULE MenuPlanner ----------------------------
(***************************************************************************)
(* rest/menu.go without the I/O: what `plan` computes from one reading of  *)
(* a RouterOS menu, a MenuSpec and the desired rows.                       *)
(*                                                                         *)
(* A rest.Record is a function from field names to values.  A row of a     *)
(* reading pairs one with the `.id` the router gave it, or with NoID where *)
(* the menu prints none.  A MenuSpec is a record                           *)
(*   [unlisted, ordered, key, ignore];                                     *)
(* Path only names the menu and is left out, and Step.Why is wording.      *)
(***************************************************************************)
EXTENDS Integers, Sequences, SequencesExt

NoID      == 0       \* Row.ID() = "", and Step.Before = "" (end of the menu)
NoKey     == ""      \* MenuSpec.Key = ""
Ambiguous == -1      \* marks a desired row for which plan returns AmbiguousError
EmptyRecord == [k \in {} |-> ""]

\* subset: every field of want holds that value in the other record.
Subset(want, fields) ==
  \A k \in DOMAIN want : k \in DOMAIN fields /\ fields[k] = want[k]

Ignored(spec, row) == \E selector \in spec.ignore : Subset(selector, row.fields)

\* The elements of a sequence that are in a set, in order.  (What SelectSeq gives,
\* written so that a proof can take it apart.)
Taking(kept, x, set) == IF x \in set THEN Append(kept, x) ELSE kept
Only(s, set) ==
  LET kept[i \in 0 .. Len(s)] == IF i = 0 THEN <<>> ELSE Taking(kept[i - 1], s[i], set)
  IN  kept[Len(s)]

ById(current, id) == current[SelectInSeq(current, LAMBDA row : row.id = id)]

\* Mutant: a matched row is patched whether or not it differs.
ChangesAll(want, row) == want

\* changes: the fields of want that the device row disagrees with.
Changes(want, row) ==
  [k \in {f \in DOMAIN want :
            f \notin DOMAIN row.fields \/ row.fields[f] # want[f]} |-> want[k]]

\* The rows of a reading a desired row could be, claimed or not.
Fits(spec, want, row) ==
  /\ row.id # NoID
  /\ ~Ignored(spec, row)
  /\ IF spec.key = NoKey
     THEN Subset(want, row.fields)
     ELSE /\ spec.key \in DOMAIN want \cap DOMAIN row.fields
          /\ row.fields[spec.key] = want[spec.key]

\* candidates, as indices into the reading; only the first one under a key.
Candidates(spec, want, current, claimed) ==
  LET fit  == {k \in DOMAIN current : Fits(spec, want, current[k])}
      open == fit \ {k \in fit : current[k].id \in claimed}
  IN  IF spec.key = NoKey THEN open
      ELSE {k \in open : \A j \in open : k <= j}

Indistinguishable(current, rows) ==
  \A j, k \in rows : current[j].fields = current[k].fields

\* The row a desired row claims: NoID when none matches, Ambiguous when the choice
\* between candidates is observable.
Claim(spec, want, current, claimed) ==
  LET rows == Candidates(spec, want, current, claimed)
  IN  IF rows = {} THEN NoID
      ELSE IF Indistinguishable(current, rows) THEN current[Min(rows)].id
      ELSE Ambiguous
\* What the desired rows before it have claimed, and its own claim.  (Here and in
\* Plan, [m \in {x} |-> F(m)][x] is F(x), with x worked out before F.)
Claiming(spec, want, current, matched) ==
  [m \in {matched} |-> Append(m, Claim(spec, want, current, Range(m)))][matched]

\* Plan.Matched: what every desired row claims, in order.
Matched(spec, desired, current) ==
  LET match[i \in 0 .. Len(desired)] ==
        IF i = 0 THEN <<>> ELSE Claiming(spec, desired[i], current, match[i - 1])
  IN  match[Len(desired)]

\* rest.Step
Step(op, id, row, order, before) ==
  [op |-> op, id |-> id, row |-> row, order |-> order, before |-> before]
CreateStep(want)        == Step("create", NoID, want, <<>>, NoID)
UpdateStep(id, diff)    == Step("update", id, diff, <<>>, NoID)
DeleteStep(row)         == Step("delete", row.id, row.fields, <<>>, NoID)
MoveStep(order, before) == Step("move", NoID, EmptyRecord, order, before)

\* Creates and updates, in desired order.
Writes(spec, desired, current, matched) ==
  LET Diff(i)  == Changes(desired[i], ById(current, matched[i]))
      Write(i) == IF matched[i] = NoID THEN CreateStep(desired[i]) ELSE UpdateStep(matched[i], Diff(i))
      open     == {i \in DOMAIN desired :
                     matched[i] = NoID \/ (spec.key # NoKey /\ DOMAIN Diff(i) # {})}
      written  == Only([i \in DOMAIN desired |-> i], open)
  IN  [k \in DOMAIN written |-> Write(written[k])]

\* Mutant: the Ignore selectors are not consulted when pruning.
DeletesIgnored(spec, current, matched) ==
  LET unlisted == Only(current, {row \in Range(current) :
                    /\ spec.unlisted = "prune"
                    /\ row.id # NoID
                    /\ row.id \notin Range(matched)})
  IN  [i \in DOMAIN unlisted |-> DeleteStep(unlisted[i])]

\* Under Prune, every row of the reading that nothing claims and no selector hides.
Deletes(spec, current, matched) ==
  LET unlisted == Only(current, {row \in Range(current) :
                    /\ spec.unlisted = "prune"
                    /\ row.id # NoID
                    /\ row.id \notin Range(matched)
                    /\ ~Ignored(spec, row)})
  IN  [i \in DOMAIN unlisted |-> DeleteStep(unlisted[i])]

\* Mutant: the loop over anchored moves stops one pair short.
ReorderShort(spec, current, matched) ==
  LET ids  == Range(matched) \ {NoID}
      want == Only(matched, ids)
      have == Only([k \in DOMAIN current |-> current[k].id], ids)
      n    == Len(want)
  IN  IF ~spec.ordered \/ n < 2 \/ want = have THEN <<>>
      ELSE IF Len(have) = Len(current) THEN <<MoveStep(want, NoID)>>
      ELSE [i \in 1 .. n - 2 |-> MoveStep(<<want[n - i]>>, want[n - i + 1])]

\* reorder: one block move when every row of the reading is managed, otherwise
\* each managed row right before its successor, last pair first.
Reorder(spec, current, matched) ==
  LET ids  == Range(matched) \ {NoID}
      want == Only(matched, ids)
      have == Only([k \in DOMAIN current |-> current[k].id], ids)
      n    == Len(want)
  IN  IF ~spec.ordered \/ n < 2 \/ want = have THEN <<>>
      ELSE IF Len(have) = Len(current) THEN <<MoveStep(want, NoID)>>
      ELSE [i \in 1 .. n - 1 |-> MoveStep(<<want[n - i]>>, want[n - i + 1])]

\* plan: [err, matched, steps]; an error carries no steps at all.
Refuse(why) == [err |-> why, matched |-> <<>>, steps |-> <<>>]
Steps(spec, desired, current, matched) ==
  IF Ambiguous \in Range(matched) THEN Refuse("AmbiguousError")
  ELSE [err     |-> "none",
        matched |-> matched,
        steps   |-> Writes(spec, desired, current, matched)
                    \o Deletes(spec, current, matched)
                    \o Reorder(spec, current, matched)]
Plan(spec, desired, current) ==
  CASE spec.unlisted \notin {"tolerate", "prune"} -> Refuse("ErrNoUnlistedPolicy")
    [] EmptyRecord \in spec.ignore -> Refuse("ErrEmptyIgnoreSelector")
    [] OTHER -> LET matched == Matched(spec, desired, current)
                IN  [m \in {matched} |-> Steps(spec, desired, current, m)][matched]

\* Plan.Counts, as far as it is acted on: whether a plan deletes anything.
HasDelete(steps) == \E i \in DOMAIN steps : steps[i].op = "delete"
=============================================================================
