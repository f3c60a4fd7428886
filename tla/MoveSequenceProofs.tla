------------------------- MODULE MoveSequenceProofs -------------------------
(***************************************************************************)
(* What MoveSequence guarantees for any resources, any sequences, any menu *)
(* to start from and any number of edits, losses and retries: its types,   *)
(* and that a write of the sequencer puts the whole sequence in order and  *)
(* leaves the other rows where they are.                                   *)
(***************************************************************************)
EXTENDS MoveSequence, RowIdentityProofs, MenuLemmas

-----------------------------------------------------------------------------
\* A block moved in front of a row ends up right before it.

\* POST move: the block, then the row it was put in front of.
LEMMA BlockInOrder ==
  ASSUME NEW m, Orderly(m), NEW block, NEW anchor, anchor # NoID, Placeable(m, block, anchor)
  PROVE  Only(Move(m, block, anchor).order, Range(block) \cup {anchor}) = Joined(block, <<anchor>>)
<1> DEFINE D    == DOMAIN m.rows
           T    == Range(block) \cup {anchor}
           rest == Staying(m, block)
           v    == Move(m, block, anchor)
<1>1. m.order \in Seq(D) /\ Distinct(m.order) /\ block \in Seq(D)
  BY DEF Orderly, Placeable
<1>2. PICK n \in 0 .. Len(rest) :
        v.order = Around(rest, n, block) /\ n < Len(rest) /\ rest[n + 1] = anchor
  BY MoveCuts
<1> DEFINE p == SubSeq(rest, 1, n)
           q == SubSeq(rest, n + 1, Len(rest))
<1>3. rest \in Seq(D) /\ Distinct(rest)
  BY <1>1, OnlyRange, DistinctOnly DEF Staying
<1>4. \A x : In(x, rest) => x \notin Range(block)
  BY <1>1, InOnly DEF Staying
<1> HIDE DEF rest, v
<1>5. /\ p \in Seq(D) /\ q \in Seq(D)
      /\ \A x : (In(x, p) => In(x, rest)) /\ (In(x, q) => In(x, rest))
      /\ Distinct(q) /\ \A x : ~(In(x, p) /\ In(x, q))
  BY <1>3, Cut
<1>6. In(anchor, q)
  <2>1. Len(q) >= 1 /\ q[1] = anchor
    BY <1>2, <1>3
  <2>2. 1 \in 1 .. Len(q)
    BY <1>5, <2>1
  <2> QED BY <2>1, <2>2 DEF In
<1>7. v.order = Joined(Joined(p, block), q)
  BY <1>2 DEF Around
<1> HIDE DEF p, q
<1>8. Joined(p, block) \in Seq(D)
  BY <1>1, <1>5, JoinedType
<1>9. Only(v.order, T) = Joined(Joined(Only(p, T), Only(block, T)), Only(q, T))
  <2>1. Only(v.order, T) = Joined(Only(Joined(p, block), T), Only(q, T))
    BY <1>5, <1>7, <1>8, OnlyJoined
  <2>2. Only(Joined(p, block), T) = Joined(Only(p, T), Only(block, T))
    BY <1>1, <1>5, OnlyJoined
  <2> QED BY <2>1, <2>2
<1>10. Only(p, T) = <<>>
  <2>1. ASSUME NEW i \in 1 .. Len(p) PROVE p[i] \notin T
    <3>1. In(p[i], p)
      BY DEF In
    <3> QED BY <1>4, <1>5, <1>6, <3>1
  <2> HIDE DEF T
  <2> QED BY <1>5, <2>1, OnlyAll
<1>11. Only(block, T) = block
  <2>1. \A i \in 1 .. Len(block) : block[i] \in T
    BY <1>1 DEF Range
  <2> HIDE DEF T
  <2> QED BY <1>1, <2>1, OnlyAll
<1>12. Only(q, T) = <<anchor>>
  <2>1. ASSUME NEW i \in 1 .. Len(q) PROVE q[i] \in T <=> q[i] \in {anchor}
    <3>1. In(q[i], q)
      BY DEF In
    <3> QED BY <1>4, <1>5, <3>1
  <2>2. Only(q, T) = Only(q, {anchor})
    <3> HIDE DEF T
    <3> QED BY <1>5, <2>1, OnlySame
  <2>3. Only(q, {anchor}) = <<anchor>>
    BY <1>5, <1>6, OnlyOne
  <2> QED BY <2>2, <2>3
<1>13. Joined(<<>>, block) = block
  BY <1>1 DEF Joined
<1> QED BY <1>9, <1>10, <1>11, <1>12, <1>13 DEF v

\* Upstream's one request: all rows but the last in front of the last.  Every row
\* listed is then in order, and the others, with the last, are as they were.
LEMMA MoveInOrder ==
  ASSUME NEW m, Orderly(m), NEW S, NEW ids \in Seq(S), Len(ids) > 1, Movable(m, ids)
  PROVE  /\ Placeable(m, Front(ids), Last(ids)) /\ Last(ids) # NoID
         /\ Only(Perform(m, MoveOf(ids)).order, Range(ids)) = ids
         /\ Perform(m, MoveOf(ids)) = Move(m, Front(ids), Last(ids))
<1> DEFINE D == DOMAIN m.rows
           n == Len(ids)
           block  == Front(ids)
           anchor == Last(ids)
<1>1. n \in Nat /\ n > 1 /\ ids \in [1 .. n -> S]
  OBVIOUS
<1>2. /\ \A i \in 1 .. n : ids[i] \in D
      /\ \A i, j \in 1 .. n : ids[i] = ids[j] => i = j
  BY DEF Movable, Range, IsInjective
<1>3. ids \in Seq(D)
  BY <1>2, SeqIn
<1>4. /\ Len(block) = n - 1 /\ block \in Seq(D) /\ \A i \in 1 .. n - 1 : block[i] = ids[i]
      /\ anchor = ids[n] /\ n \in 1 .. n
  <2>1. block = SubSeq(ids, 1, n - 1) /\ anchor = ids[n]
    BY DEF Front, Last
  <2>2. n - 1 \in 0 .. Len(ids) /\ n \in 1 .. n
    BY <1>1
  <2> HIDE DEF block, anchor
  <2>3. block \in Seq(D)
    BY <1>3, <2>1, <2>2, Cut
  <2>4. Len(block) = n - 1 /\ \A i \in 1 .. n - 1 : block[i] = ids[i]
    BY <1>1, <1>3, <2>1
  <2> QED BY <2>1, <2>2, <2>3, <2>4
<1>5. anchor \in D /\ anchor # NoID
  BY <1>2, <1>4 DEF Orderly, NoID
<1> HIDE DEF block, anchor, n
<1>6. Distinct(block) /\ ~In(anchor, block)
  BY <1>1, <1>2, <1>4 DEF Distinct, In
<1>7. Placeable(m, block, anchor)
  BY <1>4, <1>5, <1>6 DEF Placeable
<1>8. Perform(m, MoveOf(ids)) = Move(m, block, anchor)
  BY DEF Perform, MoveOf, block, anchor
<1>9. Range(ids) = Range(block) \cup {anchor}
  <2>1. \A x : x \in Range(ids) <=> \E i \in 1 .. n : ids[i] = x
    BY <1>1 DEF Range
  <2>2. \A x : x \in Range(block) <=> \E i \in 1 .. n - 1 : ids[i] = x
    BY <1>1, <1>4 DEF Range
  <2>3. \A i \in 1 .. n : i \in 1 .. n - 1 \/ i = n
    BY <1>1
  <2>4. \A i \in 1 .. n - 1 : i \in 1 .. n
    BY <1>1
  <2> QED BY <1>4, <2>1, <2>2, <2>3, <2>4
<1> DEFINE one == <<anchor>>
<1>10. Joined(block, one) = ids
  <2>1. one \in Seq(D) /\ Len(one) = 1 /\ one[1] = anchor
    BY <1>5, OneOf
  <2> HIDE DEF one, D
  <2>2. Len(ids) = Len(block) + Len(one)
    BY <1>1, <1>4, <2>1 DEF n
  <2>3. \A i \in 1 .. Len(block) : block[i] = ids[i]
    BY <1>4
  <2>4. \A i \in 1 .. Len(one) : one[i] = ids[Len(block) + i]
    BY <1>1, <1>4, <2>1
  <2>5. block \in Seq(D)
    BY <1>4
  <2>6. Pieces(block, one, ids)
    BY <2>2, <2>3, <2>4 DEF Pieces
  <2> QED BY <1>3, <2>1, <2>5, <2>6, JoinedIs
<1>11. Only(Move(m, block, anchor).order, Range(ids)) = ids
  <2>1. Only(Move(m, block, anchor).order, Range(block) \cup {anchor}) = Joined(block, one)
    BY <1>5, <1>7, BlockInOrder
  <2> HIDE DEF one
  <2> QED BY <1>9, <1>10, <2>1
<1> QED BY <1>5, <1>7, <1>8, <1>11 DEF block, anchor

-----------------------------------------------------------------------------
\* Resolving.

\* The rows an entry stands for are finitely many.
LEMMA MatchesFinite ==
  ASSUME NEW m, Orderly(m), NEW e
  PROVE  IsFiniteSet(Matches(m, e))
<1>1. CASE e \in DOMAIN RawID
  BY <1>1, FS_Singleton DEF Matches
<1>2. CASE e \notin DOMAIN RawID
  <2>1. m.next \in Nat /\ Matches(m, e) \subseteq 1 .. m.next
    BY <1>2 DEF Matches, ItemsByField, Orderly
  <2>2. IsFiniteSet(1 .. m.next)
    BY <2>1, FS_Interval
  <2> QED BY <2>1, <2>2, FS_Subset
<1> QED BY <1>1, <1>2

\* resolveSequence in strict mode: every entry stands for one row, or nothing is
\* resolved at all.
LEMMA ResolveWhole ==
  ASSUME NEW m, Orderly(m), NEW S, NEW entries \in Seq(S), ~ResolveError(m, entries, FALSE)
  PROVE  /\ Found(m, entries) = entries
         /\ Resolved(m, entries) \in Seq(Range(Resolved(m, entries)))
         /\ Len(Resolved(m, entries)) = Len(entries)
         /\ \A i \in 1 .. Len(entries) : Matches(m, entries[i]) = {Resolved(m, entries)[i]}
<1>1. ASSUME NEW i \in 1 .. Len(entries) PROVE \E id : Matches(m, entries[i]) = {id}
  <2> DEFINE M == Matches(m, entries[i])
             n == Cardinality(M)
  <2>1. ~(n > 1) /\ n # 0
    BY <1>1 DEF ResolveError
  <2>2. IsFiniteSet(M) /\ n \in Nat
    BY MatchesFinite, FS_CardinalityType
  <2> HIDE DEF M, n
  <2>3. n = 1
    BY <2>1, <2>2
  <2> QED BY <2>2, <2>3, FS_Singleton DEF M, n
<1>2. Found(m, entries) = entries
  <2>1. \A i \in 1 .. Len(entries) : entries[i] \in {e \in Range(entries) : Matches(m, e) # {}}
    BY <1>1 DEF Range
  <2> QED BY <2>1, OnlyAll DEF Found
<1> DEFINE ids == Resolved(m, entries)
<1>3. ids = [i \in 1 .. Len(entries) |-> CHOOSE id \in Matches(m, entries[i]) : TRUE]
  BY DEF Resolved
<1>4. \A i \in 1 .. Len(entries) : ids[i] = CHOOSE id \in Matches(m, entries[i]) : TRUE
  BY <1>3
<1>5. ids = [i \in 1 .. Len(entries) |-> ids[i]] /\ Len(entries) \in Nat
  BY <1>3
<1> HIDE DEF ids
<1>6. ids \in Seq(Range(ids)) /\ Len(ids) = Len(entries)
  BY <1>5, RangeSeq
<1>7. \A i \in 1 .. Len(entries) : Matches(m, entries[i]) = {ids[i]}
  BY <1>1, <1>4
<1> QED BY <1>2, <1>6, <1>7 DEF ids

\* What is reported of a sequence is a sequence.
LEMMA RestoredType ==
  ASSUME NEW m, Orderly(m), NEW c
  PROVE  Restored(m, c) \in Seq(Range(Restored(m, c)))
<1> DEFINE shown == Only(m.order, Range(c.ids))
           r     == Restored(m, c)
<1>1. shown \in Seq(DOMAIN m.rows)
  BY OnlyRange DEF Orderly
<1>2. r = [i \in DOMAIN shown |-> c.back[shown[i]]]
  BY DEF Restored, Shown
<1> HIDE DEF shown
<1>3. DOMAIN shown = 1 .. Len(shown) /\ Len(shown) \in Nat
  BY <1>1
<1>4. r = [i \in 1 .. Len(shown) |-> r[i]]
  BY <1>2, <1>3
<1> HIDE DEF r
<1>5. r \in Seq(Range(r))
  BY <1>3, <1>4, RangeSeq
<1> QED BY <1>5 DEF r

-----------------------------------------------------------------------------
\* The inductive invariant: while the sequencer is inside operationMu, only people
\* at the router change the menu, so what it resolved still stands.

SeqCallOK(c) ==
  /\ c = [stage |-> c.stage, op |-> c.op, entries |-> c.entries, ids |-> c.ids, back |-> c.back,
          since |-> c.since]
  /\ c.since \in Nat
  /\ c.stage \in {"resolve", "move", "fetch"} /\ c.op \in {"read", "write"}
  /\ c.entries \in Seq(Range(c.entries))
  /\ c.op = "write" => Len(c.entries) > 1
  /\ c.stage = "move" => c.op = "write" /\ c.ids \in Seq(Range(c.ids)) /\ Len(c.ids) = Len(c.entries)
Standing(m, c) ==
  c.stage = "move" => \A i \in 1 .. Len(c.entries) : Matches(m, c.entries[i]) = {c.ids[i]}

\* The count of what people did only grows, and what was resolved stands until they
\* do something more.
Undisturbed(m, c, n) == c.since <= n /\ (n = c.since => Standing(m, c))

DueOK(d) ==
  /\ d = [op |-> d.op, entries |-> d.entries]
  /\ d = SeqIdle \/ d.op \in {"read", "write"}
  /\ d.entries \in Seq(Range(d.entries))

SeqInv ==
  /\ SeqTypeOK
  /\ Orderly(menu)
  /\ kept \in Seq(Range(kept)) /\ DueOK(seqDue)
  /\ seqCall # NoSeqCall => SeqCallOK(seqCall) /\ Undisturbed(menu, seqCall, edits)

\* The empty sequence is one.
LEMMA NoEntries == <<>> \in Seq(Range(<<>>)) /\ DueOK(SeqIdle)
<1>1. <<>> \in Seq(Range(<<>>))
  OBVIOUS
<1> QED BY <1>1 DEF DueOK, SeqIdle

\* Before any call.
LEMMA SeqInitInv == SeqInit => SeqInv
<1> SUFFICES ASSUME SeqInit PROVE SeqInv
  OBVIOUS
<1>1. TypeOK
  BY TypeInit DEF SeqInit
<1>2. PICK rows \in StartRows[flavour] : menu = MenuOf(rows)
  BY DEF SeqInit, Init
<1>3. rows \in Seq([ident : STRING, default : STRING, revoked : STRING, issued : STRING, body : STRING])
  BY StartAssumption DEF SeqInit, Init
<1>4. Orderly(menu)
  BY <1>2, <1>3, OrderlyFound
<1>5. SeqTypeOK
  BY <1>1 DEF SeqInit, SeqTypeOK
<1> QED BY <1>4, <1>5, NoEntries DEF SeqInit, SeqInv

\* The requests of the callbacks keep the menu orderly ...
LEMMA CarriedOrderly ==
  ASSUME NEW m, Orderly(m), NEW c, Accepted(m, c)
  PROVE  Orderly(Carried(m, c))
<1>1. c.stage \in {"put", "patch", "remove", "dispose"}
  BY DEF Accepted
<1>2. Orderly(Create(m, NewRow(c))) /\ Orderly(Update(m, c.item, Fields(c))) /\ Orderly(Delete(m, c.item))
  BY OrderlyCreate, OrderlyUpdate, OrderlyDelete
<1>3. Orderly(Disposed(m, c))
  BY OrderlyUpdate, OrderlyDelete DEF Disposed
<1> QED BY <1>1, <1>2, <1>3 DEF Carried

\* ... and so does everything that is not a step of the sequencer, which leaves the
\* menu as it is, but for people, while the sequencer is inside operationMu.
LEMMA RestKeeps ==
  ASSUME SeqInv, Rest
  PROVE  /\ TypeOK' /\ Orderly(menu')
         /\ seqCall # NoSeqCall => call' = NoCall /\ edits' >= edits /\ (edits' = edits => menu' = menu)
<1>1. TypeOK /\ Orderly(menu) /\ (call = NoCall \/ seqCall = NoSeqCall) /\ edits \in Nat
  BY DEF SeqInv, SeqTypeOK, TypeOK
<1>2. CASE UserStep \/ \E r \in Resources : Reconcile(r) \/ (seqCall = NoSeqCall /\ Enter(r))
  <2>1. TypeOK'
    BY <1>1, <1>2, TypeStep DEF Next, Worker
  <2>2. menu' = menu /\ edits' = edits /\ (call' = call \/ seqCall = NoSeqCall)
    BY <1>2 DEF UserStep, UserCreate, UserRename, UserDelete, Act, Reconcile, Enter
  <2> QED BY <1>1, <2>1, <2>2
<1>3. CASE HandStep
  <2>1. TypeOK'
    BY <1>1, <1>3, TypeStep DEF Next
  <2>2. Edit
    BY <1>3 DEF HandStep, HandAdd, HandRemove, HandRename
  <2>3. Orderly(menu')
    BY <1>1, <1>3, OrderlyCreate, OrderlyUpdate, OrderlyDelete DEF HandStep, HandAdd, HandRemove, HandRename
  <2>4. call' = call /\ edits' = edits + 1
    BY <1>1, <2>2 DEF Edit
  <2> QED BY <1>1, <2>1, <2>3, <2>4
<1>4. CASE RequestLost \/ CallStep
  <2>1. TypeOK'
    BY <1>1, <1>4, TypeStep DEF Next
  <2>2. call # NoCall
    BY <1>4, NoCallStage DEF RequestLost, CallStep, Lookup, RejectExisting, Fetch, Write, Dispose, FollowUp
  <2>3. menu' = menu \/ (Accepted(menu, call) /\ menu' = Carried(menu, call))
    BY <1>4 DEF RequestLost, CallStep, Lookup, RejectExisting, Fetch, Write, Dispose, FollowUp
  <2>4. Orderly(menu')
    BY <1>1, <2>3, CarriedOrderly
  <2> QED BY <1>1, <2>1, <2>2, <2>4
<1>5. CASE \E id \in DOMAIN menu.rows, before \in DOMAIN menu.rows \cup {NoID} :
             id # before /\ HandMove(id, before)
  <2>1. PICK id \in DOMAIN menu.rows, before \in DOMAIN menu.rows \cup {NoID} :
          id # before /\ HandMove(id, before)
    BY <1>5
  <2>2. Edit /\ menu' = Move(menu, <<id>>, before)
    BY <2>1 DEF HandMove
  <2>3. Orderly(menu') /\ menu'.rows = menu.rows
    <3>1. Placeable(menu, <<id>>, before)
      BY <2>1, OnePlaceable
    <3> QED BY <1>1, <2>2, <3>1, OrderlyMove
  <2>4. menu'.next = menu.next
    BY <2>2 DEF Move
  <2>5. /\ call' = call /\ edits' = edits + 1 /\ edits' \in 0 .. MaxEdits
        /\ UNCHANGED <<resVars, tfid, last, due, faults>>
    BY <1>1, <2>2, BoundsAssumption DEF Edit, TypeOK
  <2>6. TypeOK'
    BY <1>1, <2>3, <2>4, <2>5 DEF TypeOK, resVars
  <2> QED BY <1>1, <2>3, <2>5, <2>6
<1> QED BY <1>2, <1>3, <1>4, <1>5 DEF Rest

\* The one request of a write, where the router accepts it.
LEMMA Moved ==
  ASSUME SeqInv, seqCall.stage = "move", Movable(menu, seqCall.ids)
  PROVE  LET m == Perform(menu, MoveOf(seqCall.ids))
             ids == seqCall.ids
         IN  /\ Orderly(m) /\ m.rows = menu.rows /\ m.next = menu.next
             /\ Only(m.order, Range(ids)) = ids
             /\ \A T : (\A x \in T : ~In(x, Front(ids))) => Only(m.order, T) = Only(menu.order, T)
<1> DEFINE m   == Perform(menu, MoveOf(seqCall.ids))
           ids == seqCall.ids
<1>1. seqCall # NoSeqCall
  BY DEF NoSeqCall
<1>2. Orderly(menu) /\ ids \in Seq(Range(ids)) /\ Len(ids) > 1
  BY <1>1 DEF SeqInv, SeqCallOK
<1> HIDE DEF ids
<1>3. /\ Placeable(menu, Front(ids), Last(ids)) /\ Only(m.order, Range(ids)) = ids
      /\ m = Move(menu, Front(ids), Last(ids))
  BY <1>2, MoveInOrder DEF ids
<1> DEFINE front == Front(ids)
           tail  == Last(ids)
<1> HIDE DEF m, front, tail
<1>4. /\ Orderly(m) /\ m.rows = menu.rows
      /\ \A T : (\A x \in T : ~In(x, front)) => Only(m.order, T) = Only(menu.order, T)
  <2>1. Placeable(menu, front, tail) /\ m = Move(menu, front, tail)
    BY <1>3 DEF front, tail
  <2>2. /\ Orderly(Move(menu, front, tail)) /\ Move(menu, front, tail).rows = menu.rows
        /\ \A T : (\A x \in T : ~In(x, front)) => Only(Move(menu, front, tail).order, T) = Only(menu.order, T)
    <3>1. Orderly(menu)
      BY <1>2
    <3> QED BY ONLY <2>1, <3>1, OrderlyMove
  <2> QED BY <2>1, <2>2
<1>5. m.next = menu.next
  BY <1>3 DEF Move
<1> QED BY <1>3, <1>4, <1>5 DEF m, ids, front

\* A sequencer that has returned.
LEMMA SeqReturns ==
  ASSUME SeqInv, TypeOK', Orderly(menu'), sequence' \in Sequences, kept' \in Seq(Range(kept')),
         DueOK(seqDue'), seqCall' = NoSeqCall
  PROVE  SeqInv'
BY DEF SeqInv, SeqTypeOK

\* Every action keeps the invariant.
LEMMA SeqNextInv == SeqInv /\ [SeqNext]_allVars => SeqInv'
<1> SUFFICES ASSUME SeqInv, [SeqNext]_allVars PROVE SeqInv'
  OBVIOUS
<1>i. /\ TypeOK /\ sequence \in Sequences /\ Orderly(menu) /\ (call = NoCall \/ seqCall = NoSeqCall)
      /\ kept \in Seq(Range(kept)) /\ DueOK(seqDue) /\ edits \in Nat
      /\ seqCall # NoSeqCall => /\ seqDue.op = seqCall.op /\ seqCall.entries = Entries(seqDue)
                                /\ SeqCallOK(seqCall) /\ Undisturbed(menu, seqCall, edits)
  BY DEF SeqInv, SeqTypeOK, TypeOK
<1>t. ASSUME UNCHANGED vars PROVE TypeOK'
  BY <1>i, <1>t, TypeStep
<1>n. NoSeqCall.stage = "none"
  BY DEF NoSeqCall
<1>1. CASE Rest /\ UNCHANGED seqVars
  <2>1. /\ TypeOK' /\ Orderly(menu')
        /\ seqCall # NoSeqCall => call' = NoCall /\ edits' >= edits /\ (edits' = edits => menu' = menu)
    BY <1>1, RestKeeps
  <2>2. UNCHANGED <<sequence, kept, seqDue, seqCall>>
    BY <1>1 DEF seqVars
  <2>3. ASSUME seqCall # NoSeqCall PROVE Undisturbed(menu', seqCall', edits')
    <3>1. edits' \in Nat
      BY <2>1 DEF TypeOK
    <3>2. seqCall.since \in Nat
      BY <1>i, <2>3 DEF SeqCallOK
    <3> QED BY <1>i, <2>1, <2>2, <2>3, <3>1, <3>2 DEF Undisturbed
  <2>4. /\ call' = NoCall \/ seqCall' = NoSeqCall
        /\ seqCall' # NoSeqCall => /\ seqDue'.op = seqCall'.op /\ seqCall'.entries = Entries(seqDue')
                                   /\ SeqCallOK(seqCall')
    BY <1>i, <2>1, <2>2
  <2> QED BY <1>i, <2>1, <2>2, <2>3, <2>4 DEF SeqInv, SeqTypeOK, Entries
<1>2. ASSUME NEW s \in Sequences, UserResequence(s) PROVE SeqInv'
  <2>1. UNCHANGED <<flavour, menu, life, want, tfid, last, due, call, edits, faults, kept, seqDue, seqCall>>
    BY <1>2 DEF UserResequence, Act
  <2>2. acts' \in 0 .. MaxActs /\ sequence' = s
    BY <1>2, <1>i, BoundsAssumption DEF UserResequence, Act, TypeOK
  <2>3. TypeOK'
    BY <1>i, <2>1, <2>2 DEF TypeOK
  <2> QED BY <1>i, <2>1, <2>2, <2>3 DEF SeqInv, SeqTypeOK, Entries, SeqCallOK
<1>3. CASE SeqReconcile
  <2>1. /\ UNCHANGED vars /\ UNCHANGED <<sequence, kept, seqCall>> /\ seqDue = SeqIdle
        /\ seqDue'.entries = sequence /\ seqDue'.op \in {"read", "write"}
        /\ seqDue' = [op |-> seqDue'.op, entries |-> seqDue'.entries]
    BY <1>3 DEF SeqReconcile
  <2>2. DueOK(seqDue')
    BY <1>i, <2>1, SequencesAssumption DEF DueOK
  <2>3. seqCall = NoSeqCall
    BY <1>i, <2>1 DEF SeqIdle, SeqCallOK
  <2>4. Orderly(menu')
    BY <1>i, <2>1 DEF vars
  <2> QED BY <1>i, <1>t, <2>1, <2>2, <2>3, <2>4, SeqReturns
<1>4. CASE SeqEnter
  <2>1. UNCHANGED vars /\ sequence' = sequence /\ call = NoCall /\ seqDue # SeqIdle
    BY <1>4 DEF SeqEnter
  <2>2. Orderly(menu') /\ call' = NoCall
    BY <1>i, <2>1 DEF vars
  <2>3. CASE SeqFail
    BY <1>i, <1>t, <2>1, <2>2, <2>3, NoEntries, SeqReturns DEF SeqFail
  <2>4. CASE ~SeqFail
    <3>1. /\ ~(seqDue.op = "write" /\ Len(seqDue.entries) < 2) /\ UNCHANGED <<kept, seqDue>>
          /\ seqCall' = [stage |-> "resolve", op |-> seqDue.op, entries |-> Entries(seqDue),
                         ids |-> <<>>, back |-> <<>>, since |-> edits]
      BY <1>4, <2>4 DEF SeqEnter
    <3>2. /\ seqDue.op \in {"read", "write"} /\ Entries(seqDue) \in Seq(Range(Entries(seqDue)))
          /\ seqDue.op = "write" => Len(Entries(seqDue)) > 1
      BY <1>i, <2>1, <3>1 DEF DueOK, Entries
    <3>3. /\ seqCall'.stage = "resolve" /\ seqCall'.op = seqDue.op /\ seqCall'.entries = Entries(seqDue)
          /\ seqCall'.since = edits /\ edits' = edits
          /\ seqCall' = [stage |-> seqCall'.stage, op |-> seqCall'.op, entries |-> seqCall'.entries,
                         ids |-> seqCall'.ids, back |-> seqCall'.back, since |-> seqCall'.since]
      BY <2>1, <3>1 DEF vars
    <3>4. SeqCallOK(seqCall') /\ Undisturbed(menu', seqCall', edits')
      BY <1>i, <3>2, <3>3 DEF SeqCallOK, Standing, Undisturbed
    <3>5. Entries(seqDue)' = Entries(seqDue) /\ TypeOK'
      BY <1>t, <2>1, <3>1 DEF Entries
    <3> QED BY <1>i, <2>1, <2>2, <3>1, <3>3, <3>4, <3>5 DEF SeqInv, SeqTypeOK
  <2> QED BY <2>3, <2>4
<1>5. CASE SeqResolve
  <2>1. UNCHANGED vars /\ sequence' = sequence /\ seqCall.stage = "resolve" /\ seqCall # NoSeqCall
    BY <1>5, <1>n DEF SeqResolve
  <2>2. Orderly(menu') /\ call' = NoCall /\ menu' = menu /\ edits' = edits
    BY <1>i, <2>1 DEF vars
  <2>3. CASE SeqFail
    BY <1>i, <1>t, <2>1, <2>2, <2>3, NoEntries, SeqReturns DEF SeqFail
  <2>4. CASE ~SeqFail
    <3> DEFINE found == Found(menu, seqCall.entries)
    <3>1. /\ ~ResolveError(menu, seqCall.entries, seqCall.op = "read") /\ UNCHANGED <<kept, seqDue>>
          /\ seqCall' = [seqCall EXCEPT !.stage = IF seqCall.op = "read" THEN "fetch" ELSE "move",
                                        !.ids   = Resolved(menu, found),
                                        !.back  = Back(menu, found)]
      BY <1>5, <2>4 DEF SeqResolve
    <3> HIDE DEF found
    <3>c. SeqCallOK(seqCall)
      BY <1>i, <2>1
    <3>2. /\ seqCall'.stage = (IF seqCall.op = "read" THEN "fetch" ELSE "move")
          /\ seqCall'.op = seqCall.op /\ seqCall'.entries = seqCall.entries
          /\ seqCall'.ids = Resolved(menu, found)
          /\ seqCall' = [stage |-> seqCall'.stage, op |-> seqCall'.op, entries |-> seqCall'.entries,
                         ids |-> seqCall'.ids, back |-> seqCall'.back, since |-> seqCall'.since]
          /\ seqCall'.since = seqCall.since
      BY <3>1, <3>c DEF SeqCallOK
    <3>3. ASSUME seqCall.op # "read"
          PROVE  /\ seqCall'.ids \in Seq(Range(seqCall'.ids)) /\ Len(seqCall'.ids) = Len(seqCall.entries)
                 /\ \A i \in 1 .. Len(seqCall.entries) : Matches(menu, seqCall.entries[i]) = {seqCall'.ids[i]}
      <4>1. ~ResolveError(menu, seqCall.entries, FALSE)
        BY <3>1, <3>3
      <4>2. seqCall.entries \in Seq(Range(seqCall.entries))
        BY <3>c DEF SeqCallOK
      <4> DEFINE es == seqCall.entries
      <4> HIDE DEF es
      <4>3. Orderly(menu) /\ es \in Seq(Range(es)) /\ ~ResolveError(menu, es, FALSE)
        BY <1>i, <4>1, <4>2 DEF es
      <4>4. /\ Found(menu, es) = es
            /\ Resolved(menu, es) \in Seq(Range(Resolved(menu, es)))
            /\ Len(Resolved(menu, es)) = Len(es)
            /\ \A i \in 1 .. Len(es) : Matches(menu, es[i]) = {Resolved(menu, es)[i]}
        BY <4>3, ResolveWhole
      <4>5. /\ found = seqCall.entries
            /\ Resolved(menu, seqCall.entries) \in Seq(Range(Resolved(menu, seqCall.entries)))
            /\ Len(Resolved(menu, seqCall.entries)) = Len(seqCall.entries)
            /\ \A i \in 1 .. Len(seqCall.entries) :
                 Matches(menu, seqCall.entries[i]) = {Resolved(menu, seqCall.entries)[i]}
        BY <4>4 DEF found, es
      <4> QED BY <3>2, <4>5
    <3>4. SeqCallOK(seqCall')
      BY <3>c, <3>2, <3>3 DEF SeqCallOK
    <3>5. Undisturbed(menu', seqCall', edits')
      <4>1. Standing(menu', seqCall')
        BY <2>2, <3>2, <3>3 DEF Standing
      <4> QED BY <1>i, <2>1, <2>2, <3>2, <4>1 DEF Undisturbed
    <3>6. Entries(seqDue)' = Entries(seqDue) /\ TypeOK'
      BY <1>t, <2>1, <3>1 DEF Entries
    <3>7. seqCall'.stage = "move" => Len(seqCall'.ids) > 1
      BY <3>2, <3>3, <3>c DEF SeqCallOK
    <3> QED BY <1>i, <2>1, <2>2, <3>1, <3>2, <3>3, <3>4, <3>5, <3>6, <3>7 DEF SeqInv, SeqTypeOK
  <2> QED BY <2>3, <2>4
<1>6. CASE SeqMove
  <2>1. /\ seqCall.stage = "move" /\ UNCHANGED <<resVars, tfid, last, due, call, edits, faults, sequence>>
        /\ seqCall' = NoSeqCall /\ seqDue' = SeqIdle
    BY <1>6 DEF SeqMove
  <2>2. CASE Movable(menu, seqCall.ids)
    <3>1. menu' = Perform(menu, MoveOf(seqCall.ids)) /\ kept' = Restored(menu', seqCall)
      BY <1>6, <2>2 DEF SeqMove
    <3>2. Orderly(menu') /\ menu'.rows = menu.rows /\ menu'.next = menu.next
      BY <2>1, <2>2, <3>1, Moved
    <3>3. TypeOK'
      BY <1>i, <2>1, <3>2 DEF TypeOK, resVars
    <3>4. kept' \in Seq(Range(kept'))
      BY <3>1, <3>2, RestoredType
    <3> QED BY <1>i, <2>1, <3>2, <3>3, <3>4, NoEntries, SeqReturns
  <2>3. CASE ~Movable(menu, seqCall.ids)
    <3>1. UNCHANGED <<menu, kept>>
      BY <1>6, <2>3 DEF SeqMove
    <3>2. TypeOK'
      BY <1>i, <2>1, <3>1 DEF TypeOK, resVars
    <3> QED BY <1>i, <2>1, <3>1, <3>2, NoEntries, SeqReturns
  <2> QED BY <2>2, <2>3
<1>7. CASE SeqFetch
  <2>1. /\ UNCHANGED vars /\ sequence' = sequence /\ seqCall' = NoSeqCall
        /\ kept' = Restored(menu, seqCall) \/ kept' = <<>>
        /\ seqDue' = SeqIdle \/ seqDue' = [seqDue EXCEPT !.op = "write"]
    BY <1>7 DEF SeqFetch
  <2>2. DueOK(seqDue')
    BY <1>i, <2>1, NoEntries DEF DueOK
  <2>3. kept' \in Seq(Range(kept'))
    <3>1. CASE kept' = Restored(menu, seqCall)
      BY <1>i, <3>1, RestoredType
    <3>2. CASE kept' = <<>>
      BY <3>2, NoEntries
    <3> QED BY <2>1, <3>1, <3>2
  <2>4. Orderly(menu')
    BY <1>i, <2>1 DEF vars
  <2> QED BY <1>i, <1>t, <2>1, <2>2, <2>3, <2>4, SeqReturns
<1>8. CASE SeqLost
  <2>1. /\ faults' = faults + 1 /\ faults < MaxFaults
        /\ UNCHANGED <<resVars, tfid, last, due, call, edits, sequence, kept>>
        /\ seqCall' = NoSeqCall /\ seqDue' = SeqIdle
        /\ menu' = menu \/ (/\ seqCall.stage = "move" /\ Movable(menu, seqCall.ids)
                            /\ menu' = Perform(menu, MoveOf(seqCall.ids)))
    BY <1>8 DEF SeqLost, SeqFail
  <2>2. Orderly(menu') /\ menu'.rows = menu.rows /\ menu'.next = menu.next
    BY <1>i, <2>1, Moved
  <2>3. faults' \in 0 .. MaxFaults
    BY <1>i, <2>1, BoundsAssumption DEF TypeOK
  <2>4. TypeOK'
    BY <1>i, <2>1, <2>2, <2>3 DEF TypeOK, resVars
  <2> QED BY <1>i, <2>1, <2>2, <2>4, NoEntries, SeqReturns
<1>9. CASE UNCHANGED allVars
  <2>1. UNCHANGED vars /\ UNCHANGED <<sequence, kept, seqDue, seqCall>>
    BY <1>9 DEF allVars, seqVars
  <2>2. UNCHANGED <<menu, call, edits>>
    BY <2>1 DEF vars
  <2> QED BY <1>i, <1>t, <2>1, <2>2 DEF SeqInv, SeqTypeOK, Entries, SeqCallOK
<1> QED BY <1>1, <1>2, <1>3, <1>4, <1>5, <1>6, <1>7, <1>8, <1>9 DEF SeqNext, SeqCallStep

\* The types of the sequencer: it shares operationMu with every other callback, works
\* on the entries its worker gave it, and a write moves as many rows as it has entries.
THEOREM SeqTypeCorrect == SeqSpec => []SeqTypeOK
<1>1. SeqInv => SeqTypeOK
  BY DEF SeqInv
<1> QED BY <1>1, SeqInitInv, SeqNextInv, PTL DEF SeqSpec

\* resolveSequence and the one /move: whatever the sequence, the menu, the other
\* resources and the people at the router, and whatever replies are lost, a write
\* applies the sequence whole or not at all, to the only row each entry names unless
\* people came in between, and no row that is not listed changes places with another
\* such row or with the anchor.
THEOREM SequenceAppliedWhole == SeqSpec => AppliedWhole
<1> DEFINE Whole ==
      (seqCall # NoSeqCall /\ menu' # menu /\ edits' = edits) =>
        LET ids == seqCall.ids
            Unmoved(m) == Only(m.order, DOMAIN m.rows \ Range(Front(ids)))
        IN  /\ Len(ids) = Len(seqCall.entries) /\ Only(menu'.order, Range(ids)) = ids
            /\ Unmoved(menu') = Unmoved(menu)
            /\ edits = seqCall.since => InOrder(menu', seqCall.entries)
<1>1. SeqInv /\ [SeqNext]_allVars => [Whole]_allVars
  <2> DEFINE c == seqCall
             U == DOMAIN menu.rows \ Range(Front(c.ids))
  <2> SUFFICES ASSUME SeqInv, SeqNext, seqCall # NoSeqCall, menu' # menu, edits' = edits
               PROVE  /\ Len(c.ids) = Len(c.entries) /\ Only(menu'.order, Range(c.ids)) = c.ids
                      /\ Only(menu'.order, DOMAIN menu'.rows \ Range(Front(c.ids))) = Only(menu.order, U)
                      /\ edits = c.since => InOrder(menu', c.entries)
    OBVIOUS
  <2>1. ~Rest
    BY RestKeeps
  <2>2. SeqMove \/ SeqLost
    BY <2>1 DEF SeqNext, UserResequence, Act, SeqReconcile, SeqEnter, SeqCallStep, SeqResolve, SeqFetch, vars
  <2>3. c.stage = "move" /\ Movable(menu, c.ids) /\ menu' = Perform(menu, MoveOf(c.ids))
    BY <2>2 DEF SeqMove, SeqLost
  <2>4. /\ menu'.rows = menu.rows /\ Only(menu'.order, Range(c.ids)) = c.ids
        /\ \A T : (\A x \in T : ~In(x, Front(c.ids))) => Only(menu'.order, T) = Only(menu.order, T)
    BY <2>3, Moved
  <2>5. c.entries \in Seq(Range(c.entries)) /\ c.ids \in Seq(Range(c.ids)) /\ Len(c.ids) = Len(c.entries)
    BY <2>3 DEF SeqInv, SeqCallOK
  <2>6. \A e : Matches(menu', e) = Matches(menu, e)
    BY <2>4 DEF Matches, ItemsByField
  <2>7. \A i \in 1 .. Len(c.ids) : c.ids[i] \in DOMAIN menu.rows
    BY <2>3, <2>5 DEF Movable, Range
  <2>8. ASSUME edits = c.since PROVE InOrder(menu', c.entries)
    <3>1. \A i \in 1 .. Len(c.entries) : Matches(menu, c.entries[i]) = {c.ids[i]}
      BY <2>3, <2>8 DEF SeqInv, Undisturbed, Standing
    <3>2. DOMAIN c.entries = 1 .. Len(c.ids) /\ c.ids = [i \in 1 .. Len(c.ids) |-> c.ids[i]]
      BY <2>5
    <3>3. Resolved(menu', c.entries) = c.ids
      <4>1. \A i \in 1 .. Len(c.ids) : (CHOOSE id \in Matches(menu', c.entries[i]) : TRUE) = c.ids[i]
        BY <2>5, <2>6, <3>1
      <4> QED BY <3>2, <4>1 DEF Resolved
    <3>4. \A i \in 1 .. Len(c.ids) : Matches(menu', c.entries[i]) = {c.ids[i]} /\ c.ids[i] \in DOMAIN menu'.rows
      BY <2>4, <2>5, <2>6, <2>7, <3>1
    <3>5. \A i \in DOMAIN c.entries : \E id \in DOMAIN menu'.rows : Matches(menu', c.entries[i]) = {id}
      BY <3>2, <3>4
    <3> QED BY <2>4, <3>3, <3>5 DEF InOrder
  <2>9. \A x \in U : ~In(x, Front(c.ids))
    <3>1. Front(c.ids) \in Seq(Range(c.ids))
      BY <2>5 DEF Front
    <3> QED BY <3>1, InRange
  <2> HIDE DEF U, c
  <2>10. Only(menu'.order, U) = Only(menu.order, U)
    BY <2>4, <2>9
  <2> QED BY <2>4, <2>5, <2>8, <2>10 DEF U
<1> QED BY <1>1, SeqInitInv, SeqNextInv, PTL DEF SeqSpec, AppliedWhole
=============================================================================
