---------------------------- MODULE MoveSequence ----------------------------
(***************************************************************************)
(* config/move_sequence.go beside the resources whose rows it orders: one  *)
(* routeros_move_items resource of a comment-identity menu, addressed by   *)
(* comments.  Its callbacks take operationMu like those of RowIdentity.    *)
(* Upstream's own callbacks are external: its write is one /move of all    *)
(* rows but the last in front of the last, its read reports the rows it is *)
(* given in device order.                                                  *)
(***************************************************************************)
EXTENDS RowIdentity

CONSTANTS Sequences,   \* what spec.forProvider.sequence may be
          RawID        \* entries that begin with '*', with the .id each spells

ASSUME SequencesAssumption == \A s \in Sequences : s \in Seq(Range(s))

VARIABLES sequence,    \* the spec; the first one is there when the model starts
          placed,      \* whether the sequencer has been created
          kept,        \* the sequence in its Terraform state
          seqDue,      \* the callback its worker calls next, and the spec it read
          seqCall      \* its callback inside operationMu

seqVars == <<sequence, placed, kept, seqDue, seqCall>>
allVars == <<vars, seqVars>>

SeqIdle   == [op |-> "none", entries |-> <<>>]
NoSeqCall == [stage |-> "none", op |-> "none", entries |-> <<>>,
              ids |-> <<>>, back |-> <<>>, since |-> 0]

SeqInit ==
  /\ Init
  /\ sequence \in Sequences
  /\ placed = FALSE /\ kept = <<>> /\ seqDue = SeqIdle /\ seqCall = NoSeqCall

\* sequenceEntries: a write is given the spec's, a read the state's.
Entries(d) == IF d.op = "read" THEN kept ELSE d.entries

\* The two kinds of callback share operationMu, and each entry of a call in its
\* second stage stands for one row, but for those a lenient read has dropped.
SeqTypeOK ==
  /\ TypeOK
  /\ sequence \in Sequences
  /\ call = NoCall \/ seqCall = NoSeqCall
  /\ seqCall # NoSeqCall =>
       /\ seqDue.op = seqCall.op
       /\ seqCall.entries = Entries(seqDue)
       /\ seqCall.stage = "move"
            => Len(seqCall.ids) = Len(seqCall.entries) /\ Len(seqCall.ids) > 1

-----------------------------------------------------------------------------
Matches(m, e) == IF e \in DOMAIN RawID THEN {RawID[e]} ELSE ItemsByField(m, e) \ ItemsByField(m, NoIdent)

\* Mutant: of several rows with the comment one is taken.
ResolveErrorFirst(m, entries, lenient) ==
  \/ ~IsInjective(entries)
  \/ \E i \in DOMAIN entries : Matches(m, entries[i]) = {} /\ ~lenient

\* resolveSequence: an entry listed twice or matching several rows is an error in
\* either mode, one that matches none in strict mode.
ResolveError(m, entries, lenient) ==
  \/ ~IsInjective(entries)
  \/ \E i \in DOMAIN entries :
       LET n == Cardinality(Matches(m, entries[i])) IN n > 1 \/ (n = 0 /\ ~lenient)

\* The entries that match a row, in the order listed; each one's id; and the way
\* back from an id to the last entry that gave it.
Found(m, entries) == Only(entries, {e \in Range(entries) : Matches(m, e) # {}})
Resolved(m, found) == [i \in DOMAIN found |-> CHOOSE id \in Matches(m, found[i]) : TRUE]
Back(m, found) ==
  [id \in Range(Resolved(m, found)) |-> found[SelectLastInSeq(found, LAMBDA e : id \in Matches(m, e))]]

-----------------------------------------------------------------------------
UserResequence(s) ==
  /\ Act /\ sequence # s
  /\ sequence' = s
  /\ UNCHANGED <<life, want, placed, kept, seqDue, seqCall>>

SeqReconcile ==
  /\ seqDue = SeqIdle
  /\ seqDue' = [op |-> IF placed THEN "read" ELSE "write", entries |-> sequence]
  /\ UNCHANGED <<vars, sequence, placed, kept, seqCall>>

SeqFail == seqCall' = NoSeqCall /\ seqDue' = SeqIdle /\ UNCHANGED <<placed, kept>>

\* Mutant: the sequencer's callbacks are not wrapped.
SeqEnterUnguarded ==
  /\ seqCall = NoSeqCall /\ seqDue # SeqIdle /\ Len(seqDue.entries) > 1
  /\ seqCall' = [stage |-> "resolve", op |-> seqDue.op, entries |-> Entries(seqDue),
                 ids |-> <<>>, back |-> <<>>, since |-> edits]
  /\ UNCHANGED <<vars, sequence, placed, kept, seqDue>>

\* The worker enters its callback.  A write first counts its entries.  (`since` is
\* history: what people had done by then.)
SeqEnter ==
  /\ call = NoCall /\ seqCall = NoSeqCall /\ seqDue # SeqIdle
  /\ IF seqDue.op = "write" /\ Len(seqDue.entries) < 2
     THEN SeqFail
     ELSE /\ seqCall' = [stage |-> "resolve", op |-> seqDue.op, entries |-> Entries(seqDue),
                         ids |-> <<>>, back |-> <<>>, since |-> edits]
          /\ UNCHANGED <<placed, kept, seqDue>>
  /\ UNCHANGED <<vars, sequence>>

\* One reading of the menu, on which all entries are resolved.
SeqResolve ==
  /\ seqCall.stage = "resolve"
  /\ IF ResolveError(menu, seqCall.entries, seqCall.op = "read")
     THEN SeqFail
     ELSE /\ LET found == Found(menu, seqCall.entries)
             IN  seqCall' = [seqCall EXCEPT !.stage = IF seqCall.op = "read" THEN "fetch" ELSE "move",
                                            !.ids   = Resolved(menu, found),
                                            !.back  = Back(menu, found)]
          /\ UNCHANGED <<placed, kept, seqDue>>
  /\ UNCHANGED <<vars, sequence>>

MoveOf(ids) == [op |-> "move", order |-> Front(ids), before |-> Last(ids)]

\* The router refuses an id it does not know, and to move a row in front of itself.
\* (A comment and a raw id can name one row: resolveSequence compares entries only.)
Movable(m, ids) == Range(ids) \subseteq DOMAIN m.rows /\ IsInjective(ids)

\* Upstream's read: the rows it was given, in device order.
Shown(m, ids) == Only(m.order, Range(ids))

\* Mutant: the entries are put back in the order they were listed in.
RestoredListed(m, c) ==
  LET shown == Only(c.ids, DOMAIN m.rows)
  IN  [i \in DOMAIN shown |-> c.back[shown[i]]]

\* restoreSequence: what upstream reports, as the entries it came from.
Restored(m, c) ==
  LET shown == Shown(m, c.ids) IN [i \in DOMAIN shown |-> c.back[shown[i]]]

\* commentSequenceWrite: one /move, and upstream's read of what it did.
SeqMove ==
  /\ seqCall.stage = "move"
  /\ IF Movable(menu, seqCall.ids)
     THEN /\ menu' = Perform(menu, MoveOf(seqCall.ids))
          /\ placed' = TRUE
          /\ kept' = Restored(menu', seqCall)
     ELSE UNCHANGED <<menu, placed, kept>>
  /\ seqCall' = NoSeqCall /\ seqDue' = SeqIdle
  /\ UNCHANGED <<resVars, tfid, last, due, call, edits, faults, sequence>>

\* commentSequenceRead: the state keeps what is there, and the worker updates the
\* resource if that is not what the spec lists.  Where upstream finds none of the
\* rows it may clear the id; nothing is restored then, and the worker creates the
\* resource again.
SeqFetch ==
  /\ seqCall.stage = "fetch"
  /\ \/ placed' = TRUE /\ kept' = Restored(menu, seqCall)
     \/ Shown(menu, seqCall.ids) = <<>> /\ placed' = FALSE /\ kept' = <<>>
  /\ seqDue' = IF placed' /\ kept' = seqDue.entries THEN SeqIdle ELSE [seqDue EXCEPT !.op = "write"]
  /\ seqCall' = NoSeqCall
  /\ UNCHANGED <<vars, sequence>>

\* A request or a reply of the sequencer is lost, or the process stops.
SeqLost ==
  /\ faults < MaxFaults /\ seqCall # NoSeqCall
  /\ faults' = faults + 1
  /\ SeqFail
  /\ menu' \in {menu} \cup
       (IF seqCall.stage = "move" /\ Movable(menu, seqCall.ids)
        THEN {Perform(menu, MoveOf(seqCall.ids))} ELSE {})
  /\ UNCHANGED <<resVars, tfid, last, due, call, edits, sequence>>

SeqCallStep == SeqResolve \/ SeqMove \/ SeqFetch

\* People move a row by hand.
HandMove(id, before) ==
  /\ Edit
  /\ menu' = Move(menu, <<id>>, before)

Rest ==
  \/ UserStep \/ HandStep \/ RequestLost \/ CallStep
  \/ \E id \in DOMAIN menu.rows, before \in DOMAIN menu.rows \cup {NoID} :
       id # before /\ HandMove(id, before)
  \/ \E r \in Resources : Reconcile(r) \/ (seqCall = NoSeqCall /\ Enter(r))

SeqNext ==
  \/ Rest /\ UNCHANGED seqVars
  \/ \E s \in Sequences : UserResequence(s)
  \/ SeqReconcile \/ SeqEnter \/ SeqCallStep \/ SeqLost

SeqSpec == SeqInit /\ [][SeqNext]_allVars

\* Callbacks end; workers come back, and get operationMu when they wait for it.
SeqFairSpec ==
  /\ SeqSpec
  /\ WF_allVars(CallStep /\ UNCHANGED seqVars)
  /\ WF_allVars(SeqCallStep)
  /\ \A r \in Resources :
       /\ WF_allVars(Reconcile(r) /\ UNCHANGED seqVars)
       /\ SF_allVars(seqCall = NoSeqCall /\ Enter(r) /\ UNCHANGED seqVars)
  /\ WF_allVars(SeqReconcile)
  /\ SF_allVars(SeqEnter)

-----------------------------------------------------------------------------
(***************************************************************************)
(* Properties                                                              *)
(***************************************************************************)

\* Every entry is one row of the menu, and the rows are in the order listed.
InOrder(m, entries) ==
  /\ \A i \in DOMAIN entries : \E id \in DOMAIN m.rows : Matches(m, entries[i]) = {id}
  /\ LET ids == Resolved(m, entries)
     IN  Only(m.order, Range(ids)) = ids

\* ADR 0002: "Writes are strict [...] so a partial sequence is never applied", and
\* "rows not listed are left where they are": whatever people have done at the
\* router, also between its two requests, a write of the sequencer puts one row for
\* each entry in order at once, and leaves the other rows and the anchor in the order
\* they had; and if people did nothing since it began, each of these rows is the only
\* one its entry names.
AppliedWhole ==
  [][(seqCall # NoSeqCall /\ menu' # menu /\ edits' = edits) =>
       LET ids == seqCall.ids
           Unmoved(m) == Only(m.order, DOMAIN m.rows \ Range(Front(ids)))
       IN  /\ Len(ids) = Len(seqCall.entries) /\ Only(menu'.order, Range(ids)) = ids
           /\ Unmoved(menu') = Unmoved(menu)
           /\ edits = seqCall.since => InOrder(menu', seqCall.entries)]_allVars

\* The sequence cannot be applied: too short, an entry that is not one row, or a
\* row listed twice; or a read fails because an entry of the state is several rows.
\* It is then an error, and the menu is left as it is.
CannotApply ==
  \/ Len(sequence) < 2
  \/ \E i \in DOMAIN sequence : Cardinality(Matches(menu, sequence[i]) \cap DOMAIN menu.rows) # 1
  \/ ~IsInjective(Resolved(menu, sequence))
  \/ \E i \in DOMAIN kept : Cardinality(Matches(menu, kept[i])) > 1

\* "an out-of-band delete degrades into recreate-then-reorder": once people and the
\* network leave it alone, the sequence is in order, whatever rows were removed,
\* moved or created again meanwhile, unless it cannot be applied.
SequenceSettles == <>[](InOrder(menu, sequence) \/ CannotApply)
=============================================================================
