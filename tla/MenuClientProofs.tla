-------------------------- MODULE MenuClientProofs --------------------------
(***************************************************************************)
(* What MenuClient guarantees for any menus, any goal, any rows edited by  *)
(* hand and any number of edits and faults: its types; that a call keeps   *)
(* its hands off the rows the Ignore selectors cover; that an Apply that   *)
(* returns nil has converged, to an ordered menu, to a menu with a key and *)
(* to one without order; and that retries never create a row twice.        *)
(***************************************************************************)
EXTENDS MenuClient, MenuApplyProofs

-----------------------------------------------------------------------------
\* Types.

\* Every action keeps the types; the goal of the caller never changes.
LEMMA NextTypes == TypeOK /\ [Next]_menuVars => TypeOK'
<1> SUFFICES ASSUME TypeOK, [Next]_menuVars PROVE TypeOK'
  OBVIOUS
<1>c. CallTypeOK /\ [spec |-> spec, want |-> want] \in Goals
  BY DEF TypeOK
<1> SUFFICES CallTypeOK' /\ UNCHANGED <<spec, want>>
  BY <1>c DEF TypeOK
<1>1. CASE Apply
  <2> PICK p : Begin(at, spec, want, p)
    BY <1>1 DEF Apply
  <2>1. CallTypeOK'
    BY <1>1, <1>c, BeginTypes DEF Apply, CallTypeOK
  <2> QED BY <2>1 DEF Begin
<1>2. CASE CallStep
  <2>1. CallTypeOK'
    BY <1>2, <1>c, CallStepTypes
  <2> QED
    BY <1>2, <2>1 DEF CallStep, StepDone, StepRefused, StepLost, Replan, ReplanLost, Finish, Fail
<1>3. CASE ApplyLost
  BY <1>3, <1>c, BoundsAssumption DEF ApplyLost, Fail, CallTypeOK, Running
<1>4. CASE HandStep \/ \E t \in Targets : Traffic(t)
  BY <1>4, <1>c, RouterTypes DEF callVars
<1>5. CASE UNCHANGED menuVars
  BY <1>5, <1>c, QuietTypes DEF menuVars, callVars
<1> QED BY <1>1, <1>2, <1>3, <1>4, <1>5 DEF Next, Client

\* The state of a call is well formed in every state: a call that has returned has
\* no step left to run, and every step left is one of its plan.
THEOREM TypeCorrect == Spec => []TypeOK
<1>1. Init => TypeOK
  <2> SUFFICES ASSUME Init PROVE TypeOK
    OBVIOUS
  <2>1. DOMAIN dev = Targets
    <3> PICK start \in [Targets -> StartRows] : dev = [t \in Targets |-> MenuOf(start[t])]
      BY DEF Init, MenuInit
    <3> QED OBVIOUS
  <2>2. at \in Targets /\ phase = "idle" /\ todo = {} /\ disturbed = FALSE /\ edits = 0 /\ faults = 0
    BY DEF Init, MenuInit
  <2>3. edits \in 0 .. MaxEdits /\ faults \in 0 .. MaxFaults
    BY <2>2, BoundsAssumption
  <2>6. disturbed \in BOOLEAN
    BY <2>2
  <2>4. CallTypeOK
    BY <2>1, <2>2, <2>3, <2>6 DEF CallTypeOK
  <2>5. PICK g \in Goals : spec = g.spec /\ want = g.want
    BY DEF Init
  <2> QED BY <2>4, <2>5, GoalsAssumption DEF TypeOK
<1> QED BY <1>1, NextTypes, PTL DEF Spec

-----------------------------------------------------------------------------
\* Rows the selectors cover.

Flagged(spc, fields) == \E sel \in spc.ignore : Subset(sel, fields)

\* Fields no selector looks at, and selectors a new row does not fit.
Free(spc, fields) == \A sel \in spc.ignore : DOMAIN sel \cap DOMAIN fields = {}
Unborn(spc)       == \A sel \in spc.ignore : ~Subset(sel, Defaults)

\* PATCH with such fields neither covers nor uncovers a row.
LEMMA UpdateFlagged ==
  ASSUME NEW spc, NEW m, NEW id, NEW fields, Free(spc, fields), NEW y \in DOMAIN m.rows
  PROVE  /\ y \in DOMAIN Update(m, id, fields).rows
         /\ Flagged(spc, Update(m, id, fields).rows[y]) <=> Flagged(spc, m.rows[y])
         /\ y # id => Update(m, id, fields).rows[y] = m.rows[y]
<1> DEFINE u == Update(m, id, fields)
<1>1. y \in DOMAIN u.rows /\ (y # id => u.rows[y] = m.rows[y])
  BY DEF Update
<1>2. ASSUME y = id, NEW sel \in spc.ignore PROVE Subset(sel, u.rows[y]) <=> Subset(sel, m.rows[y])
  <2>1. /\ DOMAIN u.rows[y] = DOMAIN m.rows[y] \cup DOMAIN fields
        /\ \A k \in DOMAIN m.rows[y] \ DOMAIN fields : u.rows[y][k] = m.rows[y][k]
    BY <1>2 DEF Update
  <2>2. \A k \in DOMAIN sel : k \notin DOMAIN fields
    BY <1>2 DEF Free
  <2> HIDE DEF u
  <2> QED BY <2>1, <2>2 DEF Subset
<1> HIDE DEF u
<1>3. Flagged(spc, u.rows[y]) <=> Flagged(spc, m.rows[y])
  BY <1>1, <1>2 DEF Flagged
<1> QED BY <1>1, <1>3 DEF u

\* PUT of such fields makes a row that is not covered.
LEMMA StoredFlagged ==
  ASSUME NEW spc, NEW row, Free(spc, row), Unborn(spc)
  PROVE  ~Flagged(spc, Stored(row))
<1> SUFFICES ASSUME NEW sel \in spc.ignore, Subset(sel, Stored(row)) PROVE FALSE
  BY DEF Flagged
<1>1. \A k \in DOMAIN sel : k \notin DOMAIN row
  BY DEF Free
<1>2. \A k \in DOMAIN sel : k \in DOMAIN Defaults /\ Defaults[k] = sel[k]
  BY <1>1 DEF Subset, Stored
<1> QED BY <1>2 DEF Unborn, Subset

\* What a change of a menu does not do: take an id back, or cover a row that was
\* there or one that was deleted.
Tame(spc, m, m2) ==
  /\ m.next <= m2.next
  /\ \A id \in Nat : (id < m.next /\ id \in DOMAIN m2.rows) =>
       /\ id \in DOMAIN m.rows
       /\ Flagged(spc, m2.rows[id]) => Flagged(spc, m.rows[id])

\* The changes people and the router make are tame.
LEMMA CreateTame ==
  ASSUME NEW spc, NEW m, Orderly(m), NEW row
  PROVE  Tame(spc, m, Create(m, row))
<1>1. /\ Create(m, row).next = m.next + 1 /\ m.next \in Nat
      /\ DOMAIN Create(m, row).rows = DOMAIN m.rows \cup {m.next}
      /\ \A id \in DOMAIN m.rows : id # m.next => Create(m, row).rows[id] = m.rows[id]
  BY DEF Create, Orderly
<1> QED BY <1>1 DEF Tame

\* PATCH of fields no selector looks at.
LEMMA UpdateTame ==
  ASSUME NEW spc, NEW m, Orderly(m), NEW id, NEW fields, Free(spc, fields)
  PROVE  Tame(spc, m, Update(m, id, fields))
<1>1. Update(m, id, fields).next = m.next /\ DOMAIN Update(m, id, fields).rows = DOMAIN m.rows
  BY DEF Update
<1>2. m.next \in Nat
  BY DEF Orderly
<1> QED BY <1>1, <1>2, UpdateFlagged DEF Tame

\* DELETE.
LEMMA DeleteTame ==
  ASSUME NEW spc, NEW m, Orderly(m), NEW id
  PROVE  Tame(spc, m, Delete(m, id))
<1>1. /\ Delete(m, id).next = m.next /\ DOMAIN Delete(m, id).rows = DOMAIN m.rows \ {id}
      /\ \A y \in DOMAIN m.rows \ {id} : Delete(m, id).rows[y] = m.rows[y]
  BY DEF Delete
<1>2. m.next \in Nat
  BY DEF Orderly
<1> QED BY <1>1, <1>2 DEF Tame

\* POST move.
LEMMA MoveTame ==
  ASSUME NEW spc, NEW m, Orderly(m), NEW ids, NEW before
  PROVE  Tame(spc, m, Move(m, ids, before))
<1>1. Move(m, ids, before).next = m.next /\ Move(m, ids, before).rows = m.rows
  BY DEF Move
<1>2. m.next \in Nat
  BY DEF Orderly
<1> QED BY <1>1, <1>2 DEF Tame

-----------------------------------------------------------------------------
\* The steps of a call.

\* A step asks only for what the caller wants, and only for rows no selector
\* covers: rows that were there at the reading, and may be gone since.
Touches(x, id) == \/ x.op \in {"update", "delete"} /\ x.id = id
                  \/ x.op = "move" /\ In(id, x.order)
Aimed(spc, d, m, x) ==
  /\ x.op \in {"create", "update", "delete", "move"}
  /\ x.op = "create" => \E i \in 1 .. Len(d) : x.row = d[i]
  /\ x.op = "update" => \E i \in 1 .. Len(d) : DOMAIN x.row \subseteq DOMAIN d[i]
  /\ x.op = "delete" => spc.unlisted = "prune"
  /\ \A id : Touches(x, id) =>
       /\ id \in Nat /\ id < m.next
       /\ id \in DOMAIN m.rows => ~Flagged(spc, m.rows[id])

\* A tame change leaves the aim of a step good.
LEMMA TameAimed ==
  ASSUME NEW spc, NEW d, NEW m, NEW m2, NEW x, Orderly(m), Orderly(m2), Tame(spc, m, m2), Aimed(spc, d, m, x)
  PROVE  Aimed(spc, d, m2, x)
<1>1. ASSUME NEW id, Touches(x, id)
      PROVE  /\ id \in Nat /\ id < m2.next
             /\ id \in DOMAIN m2.rows => ~Flagged(spc, m2.rows[id])
  <2>1. /\ id \in Nat /\ id < m.next
        /\ id \in DOMAIN m.rows => ~Flagged(spc, m.rows[id])
    BY <1>1 DEF Aimed
  <2>2. m.next \in Nat /\ m2.next \in Nat
    BY DEF Orderly
  <2> QED BY <2>1, <2>2 DEF Tame
<1> QED BY <1>1 DEF Aimed

\* A fresh plan is aimed.
LEMMA FreshAimed ==
  ASSUME NEW t, Orderly(dev[t]), NEW s, NEW W, NEW d \in Seq(W)
  PROVE  \A i \in DOMAIN Fresh(t, s, d).steps : Aimed(s, d, dev[t], Fresh(t, s, d).steps[i])
<1> SUFFICES ASSUME NEW x, Sound(s, d, List(dev[t]), x) PROVE Aimed(s, d, dev[t], x)
  BY FreshSound
<1> DEFINE O == Ours(s, List(dev[t]))
<1>1. O = {id \in DOMAIN dev[t].rows : ~Flagged(s, dev[t].rows[id])}
  BY ListIs DEF Flagged
<1>2. \A id \in DOMAIN dev[t].rows : id \in Nat /\ id < dev[t].next
  BY DEF Orderly
<1>3. ASSUME NEW id, Touches(x, id) PROVE id \in O
  <2>1. CASE x.op \in {"update", "delete"}
    BY <1>3, <2>1 DEF Touches, Sound
  <2>2. CASE x.op = "move"
    <3>1. x.order \in Seq(O) /\ In(id, x.order)
      BY <1>3, <2>2 DEF Touches, Sound
    <3> HIDE DEF O
    <3> QED BY <3>1, InRange
  <2> QED BY <1>3, <2>1, <2>2 DEF Touches
<1> HIDE DEF O
<1>4. ASSUME NEW id, Touches(x, id)
      PROVE  /\ id \in Nat /\ id < dev[t].next
             /\ id \in DOMAIN dev[t].rows => ~Flagged(s, dev[t].rows[id])
  BY <1>1, <1>2, <1>3, <1>4
<1> QED BY <1>4 DEF Aimed, Sound

\* The rows of a menu that are covered.
Covered(spc, m) == {id \in DOMAIN m.rows : Flagged(spc, m.rows[id])}

\* What one request leaves alone.
Spared(spc, m, m2) ==
  /\ Covered(spc, m2) = Covered(spc, m)
  /\ \A id \in Covered(spc, m) : m2.rows[id] = m.rows[id]
  /\ Only(m2.order, Covered(spc, m)) = Only(m.order, Covered(spc, m))
  /\ spc.unlisted = "tolerate" => DOMAIN m.rows \subseteq DOMAIN m2.rows

\* One request of an aimed step spares the covered rows, and is tame.
LEMMA RequestSpares ==
  ASSUME NEW spc, NEW d, NEW m, NEW x, Orderly(m), Placed(x), Aimed(spc, d, m, x), Accepts(m, spc, x),
         \A i \in 1 .. Len(d) : Free(spc, d[i]), Unborn(spc)
  PROVE  Spared(spc, m, Perform(m, x)) /\ Tame(spc, m, Perform(m, x))
<1>o. x.op \in {"create", "update", "delete", "move"}
  BY DEF Aimed
<1>t. ASSUME NEW id, Touches(x, id) PROVE id \notin Covered(spc, m)
  BY <1>t DEF Aimed, Covered
<1>1. CASE x.op = "create"
  <2> DEFINE c == Create(m, x.row)
  <2>1. Free(spc, x.row)
    BY <1>1 DEF Aimed
  <2>2. ~Flagged(spc, Stored(x.row))
    BY <2>1, StoredFlagged
  <2>3. /\ DOMAIN c.rows = DOMAIN m.rows \cup {m.next}
        /\ c.rows[m.next] = Stored(x.row)
        /\ \A id \in DOMAIN m.rows : id # m.next => c.rows[id] = m.rows[id]
    BY DEF Create
  <2>4. m.next \notin DOMAIN m.rows
    BY DEF Orderly
  <2>5. m.next \notin Covered(spc, m)
    BY <2>4 DEF Covered
  <2>6. Only(c.order, Covered(spc, m)) = Only(m.order, Covered(spc, m))
    BY <2>5, OrderlyCreate
  <2>7. Tame(spc, m, c)
    BY CreateTame
  <2> HIDE DEF c
  <2>8. Covered(spc, c) = Covered(spc, m)
    BY <2>2, <2>3, <2>4 DEF Covered
  <2>9. \A id \in Covered(spc, m) : c.rows[id] = m.rows[id]
    BY <2>3, <2>4 DEF Covered
  <2>10. Spared(spc, m, c)
    BY <2>3, <2>6, <2>8, <2>9 DEF Spared
  <2> QED BY <1>1, <2>7, <2>10 DEF Perform, c
<1>2. CASE x.op = "update"
  <2> DEFINE u == Update(m, x.id, x.row)
  <2>1. Free(spc, x.row)
    BY <1>2 DEF Aimed, Free
  <2>2. DOMAIN u.rows = DOMAIN m.rows /\ u.order = m.order
    BY DEF Update
  <2>3. \A y \in DOMAIN m.rows : /\ Flagged(spc, u.rows[y]) <=> Flagged(spc, m.rows[y])
                                 /\ y # x.id => u.rows[y] = m.rows[y]
    BY <2>1, UpdateFlagged
  <2>4. x.id \notin Covered(spc, m)
    BY <1>2, <1>t DEF Touches
  <2>5. Tame(spc, m, u)
    BY <2>1, UpdateTame
  <2> HIDE DEF u
  <2>6. Covered(spc, u) = Covered(spc, m)
    BY <2>2, <2>3 DEF Covered
  <2>7. \A id \in Covered(spc, m) : u.rows[id] = m.rows[id]
    BY <2>3, <2>4 DEF Covered
  <2>8. Spared(spc, m, u)
    BY <2>2, <2>6, <2>7 DEF Spared
  <2> QED BY <1>2, <2>5, <2>8 DEF Perform, u
<1>3. CASE x.op = "delete"
  <2> DEFINE e == Delete(m, x.id)
  <2>1. DOMAIN e.rows = DOMAIN m.rows \ {x.id} /\ \A y \in DOMAIN m.rows \ {x.id} : e.rows[y] = m.rows[y]
    BY DEF Delete
  <2>2. x.id \notin Covered(spc, m)
    BY <1>3, <1>t DEF Touches
  <2>3. Only(e.order, Covered(spc, m)) = Only(m.order, Covered(spc, m))
    BY <2>2, OrderlyDelete
  <2>4. Tame(spc, m, e)
    BY DeleteTame
  <2>5. spc.unlisted # "tolerate"
    BY <1>3 DEF Aimed
  <2> HIDE DEF e
  <2>6. Covered(spc, e) = Covered(spc, m)
    BY <2>1, <2>2 DEF Covered
  <2>7. \A id \in Covered(spc, m) : e.rows[id] = m.rows[id]
    BY <2>1, <2>2 DEF Covered
  <2>8. Spared(spc, m, e)
    BY <2>3, <2>5, <2>6, <2>7 DEF Spared
  <2> QED BY <1>3, <2>4, <2>8 DEF Perform, e
<1>4. CASE x.op = "move"
  <2> DEFINE v == Move(m, x.order, x.before)
  <2>1. \A id \in Covered(spc, m) : ~In(id, x.order)
    BY <1>4, <1>t DEF Touches
  <2>2. Placeable(m, x.order, x.before)
    BY <1>4, PlacedPlaceable
  <2>3. v.rows = m.rows /\ Only(v.order, Covered(spc, m)) = Only(m.order, Covered(spc, m))
    BY <2>1, <2>2, OrderlyMove
  <2>4. Tame(spc, m, v)
    BY MoveTame
  <2> HIDE DEF v
  <2>5. Spared(spc, m, v)
    BY <2>3 DEF Spared, Covered
  <2> QED BY <1>4, <2>4, <2>5 DEF Perform, v
<1> QED BY <1>o, <1>1, <1>2, <1>3, <1>4

-----------------------------------------------------------------------------
\* The call.

StepsAimed  == \A i \in todo : Aimed(spec, want, dev[at], steps[i])
SparingInv  == MenuInv /\ StepsAimed

\* The goal of the caller, and what people type, are as the selectors assume.
LEMMA GoalFree ==
  ASSUME TypeOK
  PROVE  /\ want \in Seq(Range(want))
         /\ \A i \in 1 .. Len(want) : Free(spec, want[i])
         /\ \A row \in HandRows : Free(spec, row)
         /\ \A k \in Counters : \A v : Free(spec, [x \in {k} |-> v])
         /\ Unborn(spec)
<1>1. PICK g \in Goals : g = [spec |-> spec, want |-> want]
  BY DEF TypeOK
<1>2. spec = g.spec /\ want = g.want
  BY <1>1
<1>3. want \in Seq(Range(want))
  BY <1>2, GoalsAssumption
<1>4. \A sel \in spec.ignore :
        /\ ~Subset(sel, Defaults)
        /\ \A row \in Range(want) \cup HandRows : DOMAIN sel \cap DOMAIN row = {}
        /\ DOMAIN sel \cap Counters = {}
  BY <1>2, SelectorsAssumption
<1>5. \A i \in 1 .. Len(want) : want[i] \in Range(want)
  BY <1>3 DEF Range
<1>6. \A row \in Range(want) \cup HandRows : Free(spec, row)
  BY <1>4 DEF Free
<1>7. \A k \in Counters : \A v : Free(spec, [x \in {k} |-> v])
  BY <1>4 DEF Free
<1>8. Unborn(spec)
  BY <1>4 DEF Unborn
<1> QED BY <1>3, <1>5, <1>6, <1>7, <1>8

\* A step that changes the routers is a request of the plan.
LEMMA CallRequest ==
  ASSUME CallTypeOK, CallStep, dev' # dev
  PROVE  \E i \in todo : /\ Accepts(dev[at], spec, steps[i])
                         /\ dev' = [dev EXCEPT ![at] = Perform(dev[at], steps[i])]
BY DEF CallStep, StepDone, StepRefused, StepLost, Replan, ReplanLost, Finish

\* A request leaves the covered rows of the router alone, and is tame.
LEMMA CallSpares ==
  ASSUME TypeOK, SparingInv, CallStep
  PROVE  /\ \A t \in Targets : t # at => dev'[t] = dev[t]
         /\ Spared(spec, dev[at], dev'[at])
         /\ Tame(spec, dev[at], dev'[at])
<1>t. CallTypeOK /\ at \in Targets /\ DOMAIN dev = Targets
  BY DEF TypeOK, CallTypeOK
<1>o. Orderly(dev[at])
  BY <1>t DEF SparingInv, MenuInv, MenusOrderly
<1>1. CASE dev' = dev
  <2>1. dev[at].next \in Nat
    BY <1>o DEF Orderly
  <2> QED BY <1>1, <2>1 DEF Spared, Tame
<1>2. CASE dev' # dev
  <2>1. PICK i \in todo : /\ Accepts(dev[at], spec, steps[i])
                          /\ dev' = [dev EXCEPT ![at] = Perform(dev[at], steps[i])]
    BY <1>2, <1>t, CallRequest
  <2>2. Placed(steps[i]) /\ Aimed(spec, want, dev[at], steps[i])
    BY DEF SparingInv, StepsAimed, MenuInv, StepsPlaced
  <2>3. (\A j \in 1 .. Len(want) : Free(spec, want[j])) /\ Unborn(spec)
    BY GoalFree
  <2>4. Spared(spec, dev[at], Perform(dev[at], steps[i])) /\ Tame(spec, dev[at], Perform(dev[at], steps[i]))
    BY <1>o, <2>1, <2>2, <2>3, RequestSpares
  <2>5. dev'[at] = Perform(dev[at], steps[i]) /\ \A t \in Targets : t # at => dev'[t] = dev[t]
    BY <1>t, <2>1
  <2> QED BY <2>4, <2>5
<1> QED BY <1>1, <1>2

\* People and traffic are tame.
LEMMA RouterTame ==
  ASSUME TypeOK, SparingInv, HandStep \/ \E t \in Targets : Traffic(t)
  PROVE  Tame(spec, dev[at], dev'[at])
<1>t. at \in Targets /\ DOMAIN dev = Targets
  BY DEF TypeOK, CallTypeOK
<1>o. \A t \in Targets : Orderly(dev[t])
  BY DEF SparingInv, MenuInv, MenusOrderly
<1>1. ASSUME NEW t \in Targets, NEW m, dev' = [dev EXCEPT ![t] = m], Tame(spec, dev[t], m)
      PROVE  Tame(spec, dev[at], dev'[at])
  <2>1. CASE t = at
    BY <1>1, <1>t, <2>1
  <2>2. CASE t # at
    <3>1. dev'[at] = dev[at] /\ dev[at].next \in Nat
      BY <1>1, <1>t, <1>o, <2>2 DEF Orderly
    <3> QED BY <3>1 DEF Tame
  <2> QED BY <2>1, <2>2
<1>2. CASE HandStep
  <2>1. PICK t \in Targets : HandAdd(t) \/ HandRemove(t) \/ HandEdit(t) \/ HandMove(t)
    BY <1>2 DEF HandStep
  <2>2. PICK m : dev' = [dev EXCEPT ![t] = m] /\ Tame(spec, dev[t], m)
    <3>1. CASE HandAdd(t)
      BY <1>o, <3>1, CreateTame DEF HandAdd, ByHand
    <3>2. CASE HandRemove(t)
      BY <1>o, <3>2, DeleteTame DEF HandRemove, ByHand
    <3>3. CASE HandEdit(t)
      BY <1>o, <3>3, GoalFree, UpdateTame DEF HandEdit, ByHand
    <3>4. CASE HandMove(t)
      BY <1>o, <3>4, MoveTame DEF HandMove, ByHand
    <3> QED BY <2>1, <3>1, <3>2, <3>3, <3>4
  <2> QED BY <1>1, <2>2
<1>3. CASE \E t \in Targets : Traffic(t)
  <2>1. PICK t \in Targets : Traffic(t)
    BY <1>3
  <2>2. PICK id \in DOMAIN dev[t].rows : \E k \in Counters \cap DOMAIN dev[t].rows[id] :
          dev' = [dev EXCEPT ![t] = Update(dev[t], id,
                   [x \in {k} |-> IF dev[t].rows[id][k] = "0" THEN "1" ELSE "0"])]
    BY <2>1 DEF Traffic
  <2>3. PICK k \in Counters :
          dev' = [dev EXCEPT ![t] = Update(dev[t], id,
                   [x \in {k} |-> IF dev[t].rows[id][k] = "0" THEN "1" ELSE "0"])]
    BY <2>2
  <2> DEFINE fields == [x \in {k} |-> IF dev[t].rows[id][k] = "0" THEN "1" ELSE "0"]
  <2>4. Free(spec, fields)
    BY GoalFree
  <2>5. dev' = [dev EXCEPT ![t] = Update(dev[t], id, fields)]
    BY <2>3
  <2> HIDE DEF fields
  <2>6. Tame(spec, dev[t], Update(dev[t], id, fields))
    BY <1>o, <2>4, UpdateTame
  <2> QED BY <1>1, <2>5, <2>6
<1> QED BY <1>2, <1>3

\* Every action keeps the steps aimed.
LEMMA NextSparing == TypeOK /\ SparingInv /\ [Next]_menuVars => SparingInv'
<1> SUFFICES ASSUME TypeOK, SparingInv, [Next]_menuVars PROVE SparingInv'
  OBVIOUS
<1>c. CallTypeOK /\ at \in Targets /\ DOMAIN dev = Targets /\ todo \subseteq DOMAIN steps
  BY DEF TypeOK, CallTypeOK
<1>w. want \in Seq(Range(want))
  BY GoalFree
<1>m. MenuInv /\ StepsAimed /\ Orderly(dev[at])
  BY <1>c DEF SparingInv, MenuInv, MenusOrderly
<1>a. ASSUME MenuInv', at' = at, Tame(spec, dev[at], dev'[at]), NEW x, Aimed(spec, want, dev[at], x)
      PROVE  Aimed(spec, want, dev'[at], x)
  <2>1. Orderly(dev'[at])
    BY <1>a, <1>c DEF MenuInv, MenusOrderly
  <2> QED BY <1>a, <1>m, <2>1, TameAimed
<1>f. \A i \in DOMAIN Fresh(at, spec, want).steps : Aimed(spec, want, dev[at], Fresh(at, spec, want).steps[i])
  BY <1>m, <1>w, FreshAimed
<1>1. CASE Apply
  <2>1. Begin(at, spec, want, Fresh(at, spec, want))
    BY <1>1 DEF Apply
  <2>2. MenuInv'
    BY <1>c, <1>m, <1>w, <2>1, BeginOrderly
  <2>3. /\ UNCHANGED <<dev, at, spec, want>> /\ steps' = Fresh(at, spec, want).steps
        /\ todo' \subseteq DOMAIN steps'
    BY <2>1 DEF Begin, FirstPass
  <2> QED BY <1>f, <2>2, <2>3 DEF SparingInv, StepsAimed
<1>2. CASE CallStep
  <2>1. MenuInv'
    BY <1>2, <1>c, <1>m, <1>w, CallStepOrderly
  <2>2. UNCHANGED <<at, spec, want>>
    BY <1>2 DEF CallStep, StepDone, StepRefused, StepLost, Replan, ReplanLost, Finish, Fail
  <2>3. CASE Replan
    <3>1. /\ UNCHANGED dev
          /\ todo' = {} \/ (steps' = Fresh(at, spec, want).steps /\ todo' = DOMAIN steps')
      BY <2>3 DEF Replan, Fail
    <3> QED BY <1>f, <2>1, <2>2, <3>1 DEF SparingInv, StepsAimed
  <2>4. CASE ~Replan
    <3>1. todo' \subseteq todo /\ steps' = steps
      BY <1>2, <2>4 DEF CallStep, StepDone, StepRefused, StepLost, ReplanLost, Finish, Fail
    <3>2. Tame(spec, dev[at], dev'[at])
      BY <1>2, CallSpares
    <3> QED BY <1>a, <1>m, <2>1, <2>2, <3>1, <3>2 DEF SparingInv, StepsAimed
  <2> QED BY <2>3, <2>4
<1>3. CASE ApplyLost
  BY <1>3, <1>m DEF ApplyLost, Fail, SparingInv, StepsAimed, MenuInv, MenusOrderly, StepsPlaced
<1>4. CASE HandStep \/ \E t \in Targets : Traffic(t)
  <2>1. MenuInv' /\ UNCHANGED <<at, spec, want, steps, todo>>
    BY <1>4, <1>c, <1>m, RouterOrderly, RouterTypes DEF callVars
  <2>2. Tame(spec, dev[at], dev'[at])
    BY <1>4, RouterTame
  <2> QED BY <1>a, <1>m, <2>1, <2>2 DEF SparingInv, StepsAimed
<1>5. CASE UNCHANGED menuVars
  BY <1>5, <1>m DEF menuVars, callVars, SparingInv, StepsAimed, MenuInv, MenusOrderly, StepsPlaced
<1> QED BY <1>1, <1>2, <1>3, <1>4, <1>5 DEF Next, Client

\* A call keeps its hands off what is not its own, for any menus, any goal, any
\* edits and any faults: every row an Ignore selector covers keeps its fields and its
\* place among the others, other routers are not touched, and Tolerate removes no row.
THEOREM OthersSpared == Spec => OthersKept
<1>1. Init => SparingInv
  <2> SUFFICES ASSUME Init PROVE SparingInv
    OBVIOUS
  <2>1. MenuInv
    BY InitOrderly DEF Init
  <2> QED BY <2>1 DEF Init, MenuInit, SparingInv, StepsAimed
<1>2. TypeOK /\ SparingInv /\ [Next]_menuVars =>
        [todo' # todo =>
          \A t \in Targets :
            LET Theirs(m) == {id \in DOMAIN m.rows : t # at \/ IsDynamic(m.rows[id])}
            IN  /\ Theirs(dev'[t]) = Theirs(dev[t])
                /\ \A id \in Theirs(dev[t]) : dev'[t].rows[id] = dev[t].rows[id]
                /\ Only(dev'[t].order, Theirs(dev[t])) = Only(dev[t].order, Theirs(dev[t]))
                /\ spec.unlisted = "tolerate" => DOMAIN dev[t].rows \subseteq DOMAIN dev'[t].rows]_menuVars
  <2> SUFFICES ASSUME TypeOK, SparingInv, Next, todo' # todo, NEW t \in Targets
               PROVE  LET Theirs(m) == {id \in DOMAIN m.rows : t # at \/ IsDynamic(m.rows[id])}
                      IN  /\ Theirs(dev'[t]) = Theirs(dev[t])
                          /\ \A id \in Theirs(dev[t]) : dev'[t].rows[id] = dev[t].rows[id]
                          /\ Only(dev'[t].order, Theirs(dev[t])) = Only(dev[t].order, Theirs(dev[t]))
                          /\ spec.unlisted = "tolerate" => DOMAIN dev[t].rows \subseteq DOMAIN dev'[t].rows
    OBVIOUS
  <2>1. ~HandStep /\ \A r \in Targets : ~Traffic(r)
    BY RouterTypes DEF TypeOK, callVars
  <2>2. CASE dev'[t] = dev[t]
    BY <2>2
  <2>3. CASE dev'[t] # dev[t]
    <3>1. CallStep
      BY <2>1, <2>3 DEF Next, Client, Apply, Begin, ApplyLost
    <3>2. t = at /\ Spared(spec, dev[t], dev'[t])
      BY <2>3, <3>1, CallSpares
    <3> QED BY <3>2 DEF Spared, Covered, Flagged, IsDynamic
  <2> QED BY <2>2, <2>3
<1> QED BY <1>1, <1>2, NextSparing, TypeCorrect, PTL DEF Spec, OthersKept

-----------------------------------------------------------------------------
\* Converging.

\* While the last reading of a call to an ordered menu stands, every desired row has a
\* row of its own, and the moves left put those rows in order.
Owned(m, stps, left) ==
  /\ spec.unlisted \in {"tolerate", "prune"} /\ EmptyRecord \notin spec.ignore
  /\ \E w : Paired(spec, want, m, w) /\ Placing(m, w, stps, left)
Ordering      == phase \in {"steps", "ordering", "ok"} /\ ~disturbed /\ spec.ordered /\ spec.key = NoKey
ConvergingInv == Ordering => Owned(dev[at], steps, todo)

\* A fresh plan without creates and deletes.
LEMMA FreshOwned ==
  ASSUME TypeOK, MenuInv, spec.ordered, spec.key = NoKey, Fresh(at, spec, want).err = "none",
         \A i \in DOMAIN Fresh(at, spec, want).steps :
           Fresh(at, spec, want).steps[i].op \notin {"create", "delete"}
  PROVE  Owned(dev[at], Fresh(at, spec, want).steps, DOMAIN Fresh(at, spec, want).steps)
<1>1. Orderly(dev[at]) /\ want \in Seq(Range(want))
  BY GoalFree DEF TypeOK, CallTypeOK, MenuInv, MenusOrderly
<1> DEFINE m == dev[at]
           p == Plan(spec, want, List(m))
<1>2. p.err = "none" /\ \A i \in DOMAIN p.steps : p.steps[i].op \notin {"create", "delete"}
  BY DEF Fresh
<1>3. /\ spec.unlisted \in {"tolerate", "prune"} /\ EmptyRecord \notin spec.ignore
      /\ \E w : Paired(spec, want, m, w) /\ Placing(m, w, p.steps, DOMAIN p.steps)
  <2> HIDE DEF m
  <2> QED BY <1>1, <1>2, PlanMoves DEF m
<1> QED BY <1>3 DEF Owned, Fresh

\* The next of its moves.
LEMMA OwnedStep ==
  ASSUME NEW m, Orderly(m), NEW stps, NEW left, Owned(m, stps, left),
         NEW i \in left, \A j \in left : i <= j
  PROVE  Owned(Perform(m, stps[i]), stps, left \ {i})
<1>1. PICK w : Paired(spec, want, m, w) /\ Placing(m, w, stps, left)
  BY DEF Owned
<1> DEFINE v == Perform(m, stps[i])
<1>2. w \in Seq(DOMAIN m.rows) /\ Distinct(w)
  BY <1>1 DEF Paired
<1>3. Placing(v, w, stps, left \ {i}) /\ SameRows(v, m)
  <2>1. Placing(m, w, stps, left) /\ i \in left /\ \A j \in left : i <= j
    BY <1>1
  <2> QED BY <1>2, <2>1, PlacingStep, Zenon
<1> HIDE DEF v
<1>4. v.rows = m.rows /\ \A id : RowAt(v, id) = RowAt(m, id)
  BY <1>3 DEF RowAt, SameRows
<1>5. Paired(spec, want, v, w)
  BY <1>1, <1>3, <1>4 DEF Paired
<1> QED BY <1>3, <1>5 DEF Owned, v

\* Every action keeps it: a hand at the router, or a request that fails, ends it.
LEMMA NextConverging == TypeOK /\ MenuInv /\ ConvergingInv /\ [Next]_menuVars => ConvergingInv'
<1> SUFFICES ASSUME TypeOK, MenuInv, ConvergingInv, [Next]_menuVars, Ordering'
             PROVE  Owned(dev[at], steps, todo)'
  BY DEF ConvergingInv
<1>c. CallTypeOK /\ at \in Targets /\ DOMAIN dev = Targets /\ Orderly(dev[at])
  BY DEF TypeOK, CallTypeOK, MenuInv, MenusOrderly
<1>o. phase' \in {"steps", "ordering", "ok"} /\ ~disturbed' /\ spec'.ordered /\ spec'.key = NoKey
  BY DEF Ordering
<1> DEFINE p == Fresh(at, spec, want)
<1>1. CASE Apply
  <2>1. Begin(at, spec, want, p)
    BY <1>1 DEF Apply
  <2>2. /\ UNCHANGED <<dev, at, spec, want>> /\ steps' = p.steps
        /\ p.err = "none" /\ ~Structural(spec, p.steps) /\ todo' = FirstPass(spec, p.steps)
    BY <1>o, <2>1 DEF Begin
  <2>3. spec.ordered /\ spec.key = NoKey
    BY <1>o, <2>2
  <2>4. todo' = DOMAIN p.steps
    BY <2>2 DEF FirstPass
  <2>5. \A i \in DOMAIN p.steps : p.steps[i].op \notin {"create", "delete"}
    BY <2>2, <2>3 DEF Structural
  <2>6. Owned(dev[at], p.steps, DOMAIN p.steps)
    BY <2>2, <2>3, <2>5, FreshOwned
  <2> QED BY <2>2, <2>4, <2>6 DEF Owned
<1>2. CASE CallStep
  <2>1. UNCHANGED <<at, spec, want>>
    BY <1>2 DEF CallStep, StepDone, StepRefused, StepLost, Replan, ReplanLost, Finish, Fail
  <2>2. CASE Replan
    <3>1. /\ p.err = "none" /\ \A i \in DOMAIN p.steps : p.steps[i].op = "move"
          /\ steps' = p.steps /\ todo' = DOMAIN p.steps /\ UNCHANGED dev
      BY <1>o, <2>2 DEF Replan, Fail
    <3>2. Owned(dev[at], p.steps, DOMAIN p.steps)
      BY <1>o, <2>1, <3>1, FreshOwned
    <3> QED BY <2>1, <3>1, <3>2 DEF Owned
  <2>3. CASE \E i \in todo : StepDone(i)
    <3>1. PICK i \in todo : StepDone(i)
      BY <2>3
    <3>2. /\ UNCHANGED <<phase, disturbed, steps>> /\ todo' = todo \ {i} /\ \A j \in todo : i <= j
          /\ dev' = [dev EXCEPT ![at] = Perform(dev[at], steps[i])]
      BY <3>1 DEF StepDone, IsNext
    <3>3. Owned(dev[at], steps, todo)
      BY <1>o, <2>1, <3>2 DEF ConvergingInv, Ordering
    <3>4. Owned(Perform(dev[at], steps[i]), steps, todo \ {i})
      BY <1>c, <3>2, <3>3, OwnedStep
    <3>5. dev'[at] = Perform(dev[at], steps[i])
      BY <1>c, <3>2
    <3> QED BY <2>1, <3>2, <3>4, <3>5 DEF Owned
  <2>4. CASE Finish
    <3>1. UNCHANGED <<dev, disturbed, steps, todo>> /\ phase \in {"steps", "ordering"}
      BY <2>4 DEF Finish
    <3> QED BY <1>o, <2>1, <3>1 DEF ConvergingInv, Ordering, Owned
  <2>5. CASE ReplanLost \/ \E i \in todo : StepRefused(i) \/ StepLost(i)
    BY <1>o, <2>5 DEF ReplanLost, StepRefused, StepLost, Fail
  <2> QED BY <1>2, <2>2, <2>3, <2>4, <2>5 DEF CallStep
<1>3. CASE ApplyLost
  BY <1>3, <1>o DEF ApplyLost, Fail
<1>4. CASE HandStep \/ \E t \in Targets : Traffic(t)
  <2>1. disturbed' = TRUE
    BY <1>4 DEF HandStep, HandAdd, HandRemove, HandEdit, HandMove, ByHand, Traffic
  <2> QED BY <1>o, <2>1
<1>5. CASE UNCHANGED menuVars
  BY <1>5 DEF menuVars, callVars, ConvergingInv, Ordering, Owned
<1> QED BY <1>1, <1>2, <1>3, <1>4, <1>5 DEF Next, Client

\* Every action keeps the menus orderly.
LEMMA NextOrderly == TypeOK /\ MenuInv /\ [Next]_menuVars => MenuInv'
<1> SUFFICES ASSUME TypeOK, MenuInv, [Next]_menuVars PROVE MenuInv'
  OBVIOUS
<1>c. CallTypeOK /\ at \in Targets /\ want \in Seq(Range(want))
  BY GoalFree DEF TypeOK, CallTypeOK
<1>1. CASE Apply
  <2>1. Begin(at, spec, want, Fresh(at, spec, want))
    BY <1>1 DEF Apply
  <2> QED BY <1>c, <2>1, BeginOrderly
<1>2. CASE CallStep
  BY <1>2, <1>c, CallStepOrderly
<1>3. CASE ApplyLost
  BY <1>3 DEF ApplyLost, Fail, MenuInv, MenusOrderly, StepsPlaced
<1>4. CASE HandStep \/ \E t \in Targets : Traffic(t)
  BY <1>4, <1>c, RouterOrderly
<1>5. CASE UNCHANGED menuVars
  BY <1>5 DEF menuVars, callVars, MenuInv, MenusOrderly, StepsPlaced
<1> QED BY <1>1, <1>2, <1>3, <1>4, <1>5 DEF Next, Client

\* With no move left, a second reading finds every row where it should be.
LEMMA ConvergedFollows == TypeOK /\ MenuInv /\ ConvergingInv => Converged
<1> SUFFICES ASSUME TypeOK, MenuInv, ConvergingInv, phase = "ok", ~disturbed,
                    spec.ordered, spec.key = NoKey, spec.unlisted = "prune" \/ Uncontested
             PROVE  Fresh(at, spec, want).err = "none" /\ Fresh(at, spec, want).steps = <<>>
  BY DEF Converged
<1>1. Orderly(dev[at]) /\ want \in Seq(Range(want))
  BY GoalFree DEF TypeOK, CallTypeOK, MenuInv, MenusOrderly
<1>2. todo = {}
  BY DEF TypeOK, CallTypeOK, Running
<1>3. Owned(dev[at], steps, todo)
  BY DEF ConvergingInv, Ordering
<1> DEFINE m == dev[at]
<1>4. PICK w : Paired(spec, want, m, w) /\ Placing(m, w, steps, {})
  BY <1>2, <1>3 DEF Owned
<1>5. w \in Seq(DOMAIN m.rows)
  BY <1>4 DEF Paired
<1>6. Sorted(m, w, 1)
  <2>1. \A j \in 1 .. Len(w) - 1 : j \in j .. Len(w) - 1
    BY <1>5
  <2> QED BY <1>4, <2>1 DEF Placing
<1>7. ASSUME NEW i \in 1 .. Len(want), NEW id \in DOMAIN m.rows, Fits(spec, want[i], RowAt(m, id))
      PROVE  In(id, w)
  <2>1. CASE spec.unlisted = "prune"
    BY <1>4, <1>7, <2>1 DEF Paired, Fits
  <2>2. CASE Uncontested
    <3>1. Cardinality({k \in DOMAIN List(m) : \E j \in DOMAIN want : Fits(spec, want[j], List(m)[k])}) <= Len(want)
      BY <2>2 DEF Uncontested
    <3> HIDE DEF m
    <3>0. /\ Orderly(m) /\ w \in Seq(DOMAIN m.rows) /\ Distinct(w) /\ Len(w) = Len(want)
          /\ \A j \in 1 .. Len(want) : Fits(spec, want[j], RowAt(m, w[j]))
      BY <1>1, <1>4 DEF Paired, m
    <3>2. \A j \in 1 .. Len(want) : \A x \in DOMAIN m.rows : Fits(spec, want[j], RowAt(m, x)) => In(x, w)
      BY <1>1, <3>0, <3>1, FewEnough
    <3> QED BY <1>7, <3>2
  <2> QED BY <2>1, <2>2
<1>8. spec.unlisted \in {"tolerate", "prune"} /\ EmptyRecord \notin spec.ignore
  BY <1>3 DEF Owned
<1> HIDE DEF m
<1>9. Plan(spec, want, List(m)).err = "none" /\ Plan(spec, want, List(m)).steps = <<>>
  <2>1. Orderly(m)
    BY <1>1 DEF m
  <2> QED BY <1>1, <1>4, <1>6, <1>7, <1>8, <2>1, PlanEmpty
<1> QED BY <1>9 DEF Fresh, m

\* Apply converges, for any menus, any goal, any rows the router rewrites, any edits and
\* any faults: a call to an ordered menu that returned nil, with nobody else at the
\* router since its last reading, leaves nothing for the next one to do.
THEOREM ApplyConverges == Spec => []Converged
<1>1. Init => MenuInv /\ ConvergingInv
  <2> SUFFICES ASSUME Init PROVE MenuInv /\ ConvergingInv
    OBVIOUS
  <2>1. MenuInv
    BY InitOrderly DEF Init
  <2> QED BY <2>1 DEF Init, MenuInit, ConvergingInv, Ordering
<1>2. TypeOK /\ MenuInv /\ [Next]_menuVars => MenuInv'
  BY NextOrderly
<1> QED BY <1>1, <1>2, NextConverging, ConvergedFollows, TypeCorrect, PTL DEF Spec

-----------------------------------------------------------------------------
\* No row is created twice.

\* The same row but for what its counters show.
Alike(x, y) == DOMAIN x = DOMAIN y /\ \A k \in DOMAIN x \ Counters : x[k] = y[k]

\* Desired rows that are told apart by what the router stores for them, with no field
\* that a selector or a counter is on.
Plain(spc, d) ==
  /\ \A i \in 1 .. Len(d) : Subset(d[i], Stored(d[i])) /\ Counters \cap DOMAIN d[i] = {} /\ Free(spc, d[i])
  /\ \A i, j \in 1 .. Len(d) : Subset(d[j], Stored(d[i])) => Stored(d[j]) = Stored(d[i])
  /\ Unborn(spc) /\ \A sel \in spc.ignore : DOMAIN sel \cap Counters = {}

\* A row that could have been created for a desired row fits it, and what else fits the
\* row is stored alike.
LEMMA AlikeFits ==
  ASSUME NEW spc, spc.key = NoKey, NEW d, Plain(spc, d), NEW i \in 1 .. Len(d),
         NEW r, r.id # NoID, Alike(r.fields, Stored(d[i]))
  PROVE  /\ Fits(spc, d[i], r)
         /\ \A j \in 1 .. Len(d) : Fits(spc, d[j], r) => Stored(d[j]) = Stored(d[i])
<1> DEFINE s      == Stored(d[i])
           fields == r.fields
<1>1. DOMAIN fields = DOMAIN s /\ \A k \in DOMAIN s \ Counters : fields[k] = s[k]
  BY DEF Alike
<1>2. ~Flagged(spc, s)
  BY StoredFlagged DEF Plain
<1>3. \A j \in 1 .. Len(d) : \A k \in DOMAIN d[j] : k \notin Counters
  BY DEF Plain
<1>4. \A sel \in spc.ignore : \A k \in DOMAIN sel : k \notin Counters
  BY DEF Plain
<1> HIDE DEF s
<1>5. \A j \in 1 .. Len(d) : Subset(d[j], fields) <=> Subset(d[j], s)
  BY <1>1, <1>3 DEF Subset
<1>6. \A sel \in spc.ignore : Subset(sel, fields) => Subset(sel, s)
  BY <1>1, <1>4 DEF Subset
<1>7. ~Ignored(spc, r)
  BY <1>2, <1>6 DEF Ignored, Flagged
<1>8. Subset(d[i], s)
  BY DEF Plain, s
<1>9. Fits(spc, d[i], r)
  BY <1>5, <1>7, <1>8 DEF Fits
<1>10. ASSUME NEW j \in 1 .. Len(d), Fits(spc, d[j], r) PROVE Stored(d[j]) = s
  <2>1. Subset(d[j], s)
    BY <1>5, <1>10 DEF Fits
  <2> QED BY <2>1 DEF Plain, s
<1> QED BY <1>9, <1>10 DEF s

\* The creates that are left, where w are the rows the desired rows have so far: each is
\* for a desired row of its own that has none, and every row that could have been created
\* for that one belongs to a desired row that is stored alike.
Taken(d, m, w, a) ==
  \A id \in DOMAIN m.rows : Alike(m.rows[id], Stored(d[a])) =>
    \E j \in 1 .. Len(d) : w[j] = id /\ Stored(d[j]) = Stored(d[a])
Awaited(d, m, w, of, stps, left) ==
  /\ w \in Seq(Nat) /\ Len(w) = Len(d) /\ of \in Seq(1 .. Len(d)) /\ Distinct(of)
  /\ \A k \in left : stps[k].op # "update"
  /\ \A k \in left : stps[k].op = "create" =>
       k \in 1 .. Len(of) /\ w[of[k]] = NoID /\ stps[k] = CreateStep(d[of[k]]) /\ Taken(d, m, w, of[k])

\* No write left.
LEMMA NoneAwaited ==
  ASSUME NEW W, NEW d \in Seq(W), NEW m, NEW stps, NEW left, \A k \in left : stps[k].op \notin {"create", "update"}
  PROVE  \E w, of : Awaited(d, m, w, of, stps, left)
<1> DEFINE w  == [i \in 1 .. Len(d) |-> 0]
           of == <<>>
<1>1. w \in Seq(Nat) /\ Len(w) = Len(d)
  OBVIOUS
<1>2. of \in Seq(1 .. Len(d)) /\ Len(of) = 0
  OBVIOUS
<1> HIDE DEF w, of
<1>3. Awaited(d, m, w, of, stps, left)
  BY <1>1, <1>2 DEF Awaited, Distinct
<1> QED BY <1>3

\* A reading.
LEMMA PlanAwaited ==
  ASSUME NEW spc, spc.key = NoKey, NEW W, NEW d \in Seq(W), Plain(spc, d), NEW m, Orderly(m),
         Plan(spc, d, List(m)).err = "none",
         NEW left, left \subseteq DOMAIN Plan(spc, d, List(m)).steps
  PROVE  \E w, of : Awaited(d, m, w, of, Plan(spc, d, List(m)).steps, left)
<1> DEFINE mt == Matched(spc, d, List(m))
           s  == Plan(spc, d, List(m)).steps
<1>1. PICK of : Laid(spc, d, m, mt, s, of)
  BY PlanLaid
<1>0. left \subseteq DOMAIN s
  OBVIOUS
<1>m. mt = Matched(spc, d, List(m))
  OBVIOUS
<1> HIDE DEF mt, s
<1>2. Exhausted(spc, d, m, mt)
  BY <1>m, NoneLeft
<1>3. mt \in Seq(Nat) /\ Len(mt) = Len(d) /\ of \in Seq(1 .. Len(d)) /\ Distinct(of)
  BY <1>1 DEF Laid
<1>4. ASSUME NEW k \in left, s[k].op = "create"
      PROVE  k \in 1 .. Len(of) /\ mt[of[k]] = NoID /\ s[k] = CreateStep(d[of[k]]) /\ Taken(d, m, mt, of[k])
  <2>1. k \in 1 .. Len(of)
    BY <1>0, <1>1, <1>4 DEF Laid
  <2>2. mt[of[k]] = NoID
    BY <1>1, <2>1 DEF Laid
  <2>3. s[k] = CreateStep(d[of[k]]) /\ of[k] \in 1 .. Len(d)
    BY <1>1, <1>3, <2>1, <2>2 DEF Laid
  <2> DEFINE i == of[k]
  <2>4. ASSUME NEW id \in DOMAIN m.rows, Alike(m.rows[id], Stored(d[i]))
        PROVE  \E j \in 1 .. Len(d) : mt[j] = id /\ Stored(d[j]) = Stored(d[i])
    <3>0. id # NoID /\ i \in 1 .. Len(d) /\ mt[i] = NoID
      BY <2>2, <2>3 DEF Orderly, NoID
    <3> HIDE DEF i
    <3> DEFINE r == RowAt(m, id)
    <3>f. Alike(r.fields, Stored(d[i])) /\ r.id # NoID
      BY <2>4, <3>0 DEF RowAt
    <3> HIDE DEF r
    <3>1. /\ Fits(spc, d[i], r)
          /\ \A j \in 1 .. Len(d) : Fits(spc, d[j], r) => Stored(d[j]) = Stored(d[i])
      BY <3>0, <3>f, AlikeFits
    <3>2. PICK j \in 1 .. Len(d) : mt[j] = id
      BY <1>2, <3>0, <3>1 DEF r, Exhausted
    <3>3. Fits(spc, d[j], r)
      BY <1>1, <3>0, <3>2 DEF Laid, r
    <3> QED BY <3>1, <3>2, <3>3
  <2> QED BY <2>1, <2>2, <2>3, <2>4 DEF Taken
<1>5. ASSUME NEW k \in left PROVE s[k].op # "update"
  <2>1. CASE k \in 1 .. Len(of)
    <3>1. s[k] = CreateStep(d[of[k]])
      BY <1>1, <2>1 DEF Laid
    <3> QED BY <3>1 DEF CreateStep, Step
  <2>2. CASE k \notin 1 .. Len(of)
    BY <1>0, <1>1, <2>2 DEF Laid
  <2> QED BY <2>1, <2>2
<1>6. Awaited(d, m, mt, of, s, left)
  BY <1>3, <1>4, <1>5 DEF Awaited
<1> QED BY <1>6 DEF s

\* A change after which every row is like one that was there.
LEMMA FewerAwaited ==
  ASSUME NEW d, NEW m, NEW m2, NEW w, NEW of, NEW stps, NEW left, NEW left2,
         Awaited(d, m, w, of, stps, left), left2 \subseteq left,
         \A id \in DOMAIN m2.rows : id \in DOMAIN m.rows /\ Alike(m2.rows[id], m.rows[id])
  PROVE  Awaited(d, m2, w, of, stps, left2)
<1>1. \A x, y, z : Alike(x, y) /\ Alike(x, z) => Alike(y, z)
  BY DEF Alike
<1>2. \A a : Taken(d, m, w, a) => Taken(d, m2, w, a)
  BY <1>1 DEF Taken
<1> QED BY <1>2 DEF Awaited

\* The next create.
LEMMA CreateAwaited ==
  ASSUME NEW spc, spc.key = NoKey, NEW d, Plain(spc, d), NEW m, Orderly(m), NEW w, NEW of, NEW stps, NEW left,
         Awaited(d, m, w, of, stps, left), NEW i \in left, stps[i].op = "create"
  PROVE  /\ of[i] \in 1 .. Len(d) /\ stps[i].row = d[of[i]]
         /\ Awaited(d, Create(m, stps[i].row), [w EXCEPT ![of[i]] = m.next], of, stps, left \ {i})
         /\ Taken(d, Create(m, stps[i].row), [w EXCEPT ![of[i]] = m.next], of[i])
<1>1. /\ i \in 1 .. Len(of) /\ w[of[i]] = NoID /\ stps[i] = CreateStep(d[of[i]])
      /\ w \in Seq(Nat) /\ Len(w) = Len(d) /\ of \in Seq(1 .. Len(d)) /\ Distinct(of)
      /\ Taken(d, m, w, of[i])
  BY DEF Awaited
<1> DEFINE a == of[i]
           v == Create(m, stps[i].row)
           u == [w EXCEPT ![a] = m.next]
<1>2. a \in 1 .. Len(d) /\ stps[i].row = d[a]
  BY <1>1 DEF CreateStep, Step
<1>3. m.next \in Nat /\ m.next \notin DOMAIN m.rows /\ \A id \in DOMAIN m.rows : id # NoID
  BY DEF Orderly, NoID
<1>4. /\ DOMAIN v.rows = DOMAIN m.rows \cup {m.next} /\ v.rows[m.next] = Stored(d[a])
      /\ \A id \in DOMAIN m.rows : v.rows[id] = m.rows[id]
  BY <1>2, <1>3 DEF Create
<1>5. u \in Seq(Nat) /\ Len(u) = Len(d) /\ u[a] = m.next /\ \A j \in 1 .. Len(d) : j # a => u[j] = w[j]
  BY <1>1, <1>2, <1>3
<1>6. w[a] = NoID
  BY <1>1
<1> HIDE DEF a, u, v
<1>7. ASSUME NEW b \in 1 .. Len(d), Taken(d, m, w, b) PROVE Taken(d, v, u, b)
  <2> SUFFICES ASSUME NEW id \in DOMAIN v.rows, Alike(v.rows[id], Stored(d[b]))
               PROVE  \E j \in 1 .. Len(d) : u[j] = id /\ Stored(d[j]) = Stored(d[b])
    BY DEF Taken
  <2>1. CASE id = m.next
    <3>1. Alike(Stored(d[a]), Stored(d[b]))
      BY <1>4, <2>1
    <3>2. Subset(d[b], Stored(d[b])) /\ \A k \in DOMAIN d[b] : k \notin Counters
      BY DEF Plain
    <3>3. Subset(d[b], Stored(d[a]))
      BY <3>1, <3>2 DEF Alike, Subset
    <3>4. Stored(d[b]) = Stored(d[a])
      BY <1>2, <3>3 DEF Plain
    <3> QED BY <1>2, <1>5, <2>1, <3>4
  <2>2. CASE id # m.next
    <3>1. id \in DOMAIN m.rows /\ Alike(m.rows[id], Stored(d[b]))
      BY <1>4, <2>2
    <3>2. PICK j \in 1 .. Len(d) : w[j] = id /\ Stored(d[j]) = Stored(d[b])
      BY <1>7, <3>1 DEF Taken
    <3>3. j # a
      BY <1>3, <1>6, <3>1, <3>2
    <3> QED BY <1>5, <3>2, <3>3
  <2> QED BY <2>1, <2>2
<1>9. ASSUME NEW k \in left \ {i}, stps[k].op = "create"
      PROVE  k \in 1 .. Len(of) /\ u[of[k]] = NoID /\ stps[k] = CreateStep(d[of[k]]) /\ Taken(d, v, u, of[k])
  <2>0. k \in 1 .. Len(of) /\ w[of[k]] = NoID /\ stps[k] = CreateStep(d[of[k]]) /\ Taken(d, m, w, of[k])
    BY <1>9 DEF Awaited
  <2>1. of[k] # a /\ of[k] \in 1 .. Len(d)
    BY <1>1, <1>9, <2>0 DEF Distinct, a
  <2>2. u[of[k]] = NoID
    BY <1>5, <2>0, <2>1
  <2> QED BY <1>7, <2>0, <2>1, <2>2
<1>10. Awaited(d, v, u, of, stps, left \ {i})
  <2>1. \A k \in left \ {i} : stps[k].op # "update"
    BY DEF Awaited
  <2> QED BY <1>1, <1>5, <1>9, <2>1 DEF Awaited
<1>11. Taken(d, v, u, a)
  BY <1>1, <1>2, <1>7 DEF a
<1> QED BY <1>2, <1>10, <1>11 DEF a, u, v

\* While nobody edits the menu, a call creates only what is missing.
Apiece    == edits = 0 /\ spec.key = NoKey /\ Storable(want) /\ Separable(want)
ApieceInv == Apiece => \E w, of : Awaited(want, dev[at], w, of, steps, todo)

\* Such a goal is plain.
LEMMA GoalPlain ==
  ASSUME TypeOK, Apiece
  PROVE  Plain(spec, want)
<1>1. PICK g \in Goals : g = [spec |-> spec, want |-> want]
  BY DEF TypeOK
<1>2. spec = g.spec /\ want = g.want
  BY <1>1
<1>3. want \in Seq(Range(want)) /\ \A i \in 1 .. Len(want) : Free(spec, want[i])
  BY GoalFree
<1>4. DOMAIN want = 1 .. Len(want) /\ \A i \in 1 .. Len(want) : want[i] \in Range(want)
  BY <1>3 DEF Range
<1>5. \A i \in 1 .. Len(want) : Counters \cap DOMAIN want[i] = {}
  BY <1>2, <1>4, CountersAssumption
<1>6. \A sel \in spec.ignore : DOMAIN sel \cap Counters = {}
  BY <1>2, SelectorsAssumption
<1>7. Unborn(spec)
  BY GoalFree
<1> QED BY <1>3, <1>4, <1>5, <1>6, <1>7 DEF Plain, Apiece, Storable, Separable

\* No action changes the goal.
LEMMA GoalKept ==
  ASSUME TypeOK, [Next]_menuVars
  PROVE  UNCHANGED <<at, spec, want>>
<1>1. CASE Apply
  BY <1>1 DEF Apply, Begin
<1>2. CASE CallStep
  BY <1>2 DEF CallStep, StepDone, StepRefused, StepLost, Replan, ReplanLost, Finish, Fail
<1>3. CASE ApplyLost
  BY <1>3 DEF ApplyLost, Fail
<1>4. CASE HandStep \/ \E t \in Targets : Traffic(t)
  BY <1>4, RouterTypes DEF callVars, TypeOK
<1>5. CASE UNCHANGED menuVars
  BY <1>5 DEF menuVars, callVars
<1> QED BY <1>1, <1>2, <1>3, <1>4, <1>5 DEF Next, Client

\* Requests other than creates and updates, and traffic, leave every row like it was.
LEMMA RequestAlike ==
  ASSUME NEW m, NEW x, x.op \in {"delete", "move"}
  PROVE  \A id \in DOMAIN Perform(m, x).rows : id \in DOMAIN m.rows /\ Alike(Perform(m, x).rows[id], m.rows[id])
<1>1. CASE x.op = "delete"
  <2>1. Perform(m, x) = Delete(m, x.id)
    BY <1>1 DEF Perform
  <2> QED BY <2>1 DEF Delete, Alike
<1>2. CASE x.op = "move"
  <2>1. Perform(m, x) = Move(m, x.order, x.before)
    BY <1>2 DEF Perform
  <2>2. Perform(m, x).rows = m.rows
    BY <2>1 DEF Move
  <2> QED BY <2>2 DEF Alike
<1> QED BY <1>1, <1>2

\* Traffic.
LEMMA TrafficAlike ==
  ASSUME TypeOK, NEW t \in Targets, Traffic(t)
  PROVE  \A id \in DOMAIN dev'[at].rows : id \in DOMAIN dev[at].rows /\ Alike(dev'[at].rows[id], dev[at].rows[id])
<1>1. at \in Targets /\ DOMAIN dev = Targets
  BY DEF TypeOK, CallTypeOK
<1>2. PICK a \in DOMAIN dev[t].rows : \E k \in Counters \cap DOMAIN dev[t].rows[a] :
        dev' = [dev EXCEPT ![t] = Update(dev[t], a,
                  [x \in {k} |-> IF dev[t].rows[a][k] = "0" THEN "1" ELSE "0"])]
  BY DEF Traffic
<1>3. PICK k \in Counters \cap DOMAIN dev[t].rows[a] :
        dev' = [dev EXCEPT ![t] = Update(dev[t], a,
                  [x \in {k} |-> IF dev[t].rows[a][k] = "0" THEN "1" ELSE "0"])]
  BY <1>2
<1> DEFINE f == [x \in {k} |-> IF dev[t].rows[a][k] = "0" THEN "1" ELSE "0"]
           m == dev[t]
           u == Update(m, a, f)
<1>4. dev' = [dev EXCEPT ![t] = u] /\ DOMAIN f = {k}
  BY <1>3
<1> HIDE DEF f
<1>5. /\ DOMAIN u.rows = DOMAIN m.rows
      /\ \A id \in DOMAIN m.rows : id # a => u.rows[id] = m.rows[id]
      /\ DOMAIN u.rows[a] = DOMAIN m.rows[a] \cup {k}
      /\ \A l \in DOMAIN m.rows[a] \ {k} : u.rows[a][l] = m.rows[a][l]
  BY <1>4 DEF Update
<1> HIDE DEF u, m
<1>6. k \in Counters /\ k \in DOMAIN m.rows[a]
  BY DEF m
<1>7. \A id \in DOMAIN u.rows : id \in DOMAIN m.rows /\ Alike(u.rows[id], m.rows[id])
  BY <1>5, <1>6 DEF Alike
<1>8. CASE t = at
  BY <1>1, <1>4, <1>7, <1>8 DEF m
<1>9. CASE t # at
  <2>1. dev'[at] = dev[at]
    BY <1>1, <1>4, <1>9
  <2> QED BY <2>1 DEF Alike
<1> QED BY <1>8, <1>9

\* A request.
LEMMA RequestAwaited ==
  ASSUME TypeOK, SparingInv, ApieceInv, Apiece, NEW i \in todo
  PROVE  \E w, of : Awaited(want, Perform(dev[at], steps[i]), w, of, steps, todo \ {i})
<1>1. Orderly(dev[at]) /\ Plain(spec, want) /\ spec.key = NoKey
  BY GoalPlain DEF SparingInv, MenuInv, MenusOrderly, TypeOK, CallTypeOK, Apiece
<1> DEFINE m == dev[at]
           x == steps[i]
<1>2. PICK w, of : Awaited(want, m, w, of, steps, todo)
  BY DEF ApieceInv
<1>3. x.op \in {"create", "update", "delete", "move"}
  BY DEF SparingInv, StepsAimed, Aimed
<1>4. x.op # "update"
  BY <1>2 DEF Awaited
<1>5. CASE x.op = "create"
  <2>1. Perform(m, x) = Create(m, x.row)
    BY <1>5 DEF Perform
  <2> HIDE DEF m
  <2>2. Orderly(m)
    BY <1>1 DEF m
  <2>3. Awaited(want, Create(m, steps[i].row), [w EXCEPT ![of[i]] = m.next], of, steps, todo \ {i})
    BY <1>1, <1>2, <1>5, <2>2, CreateAwaited
  <2> QED BY <2>1, <2>3 DEF m
<1>6. CASE x.op \in {"delete", "move"}
  <2>1. \A id \in DOMAIN Perform(m, x).rows : id \in DOMAIN m.rows /\ Alike(Perform(m, x).rows[id], m.rows[id])
    BY <1>6, RequestAlike
  <2> DEFINE v == Perform(m, x)
             left == todo \ {i}
  <2>2. left \subseteq todo
    OBVIOUS
  <2>3. \A id \in DOMAIN v.rows : id \in DOMAIN m.rows /\ Alike(v.rows[id], m.rows[id])
    BY <2>1
  <2> HIDE DEF v, m, left
  <2>4. Awaited(want, v, w, of, steps, left)
    BY <1>2, <2>2, <2>3, FewerAwaited
  <2> QED BY <2>4 DEF v, left, m
<1> QED BY <1>3, <1>4, <1>5, <1>6

\* Every action keeps it: a person at the router ends it, a failure leaves no step, and
\* a reading starts it afresh.
LEMMA NextApiece == TypeOK /\ SparingInv /\ ApieceInv /\ [Next]_menuVars => ApieceInv'
<1> SUFFICES ASSUME TypeOK, SparingInv, ApieceInv, [Next]_menuVars, Apiece'
             PROVE  \E w, of : Awaited(want', dev'[at'], w, of, steps', todo')
  BY DEF ApieceInv
<1>g. UNCHANGED <<at, spec, want>>
  BY GoalKept
<1>c. CallTypeOK /\ at \in Targets /\ DOMAIN dev = Targets /\ want \in Seq(Range(want)) /\ Orderly(dev[at])
  BY GoalFree DEF TypeOK, CallTypeOK, SparingInv, MenuInv, MenusOrderly
<1>h. ~HandStep
  <2>1. HandStep => edits' = edits + 1
    BY DEF HandStep, HandAdd, HandRemove, HandEdit, HandMove, ByHand
  <2>2. edits \in Nat /\ edits' = 0
    BY <1>c DEF CallTypeOK, Apiece
  <2> QED BY <2>1, <2>2
<1>e. edits' = edits
  BY <1>h DEF Next, Client, Apply, ApplyLost, CallStep, StepDone, StepRefused, StepLost, Replan, ReplanLost,
              Finish, Traffic, envVars, menuVars
<1>a. Apiece
  BY <1>e, <1>g DEF Apiece, Storable, Separable
<1>p. Plain(spec, want) /\ spec.key = NoKey
  BY <1>a, GoalPlain DEF Apiece
<1>n. ASSUME \A k \in todo' : steps'[k].op \notin {"create", "update"}
      PROVE  \E w, of : Awaited(want', dev'[at'], w, of, steps', todo')
  BY <1>c, <1>g, <1>n, NoneAwaited
<1> DEFINE p == Fresh(at, spec, want)
<1>1. CASE Apply
  <2>1. Begin(at, spec, want, p)
    BY <1>1 DEF Apply
  <2>2. CASE p.err # "none"
    <3>1. todo' = {}
      BY <2>1, <2>2 DEF Begin
    <3> QED BY <1>n, <3>1
  <2>3. CASE p.err = "none"
    <3>1. steps' = p.steps /\ todo' \subseteq DOMAIN p.steps /\ UNCHANGED dev
      BY <2>1, <2>3 DEF Begin, FirstPass
    <3> DEFINE m == dev[at]
               s == Plan(spec, want, List(m)).steps
    <3>2. Plan(spec, want, List(m)).err = "none" /\ steps' = s /\ todo' \subseteq s \cup DOMAIN s /\ todo' \subseteq DOMAIN s
      BY <2>3, <3>1 DEF Fresh
    <3>3. Orderly(m)
      BY <1>c
    <3> HIDE DEF m
    <3>4. \E w, of : Awaited(want, m, w, of, s, todo')
      BY <1>c, <1>p, <3>2, <3>3, PlanAwaited
    <3> QED BY <1>g, <3>1, <3>2, <3>4 DEF m
  <2> QED BY <2>2, <2>3
<1>2. CASE CallStep
  <2>1. CASE Replan
    <3>1. todo' = {} \/ (todo' = DOMAIN steps' /\ \A i \in DOMAIN steps' : steps'[i].op = "move")
      BY <2>1 DEF Replan, Fail
    <3> QED BY <1>n, <3>1
  <2>2. CASE \E i \in todo : StepDone(i)
    <3>1. PICK i \in todo : StepDone(i)
      BY <2>2
    <3>2. dev' = [dev EXCEPT ![at] = Perform(dev[at], steps[i])] /\ todo' = todo \ {i} /\ steps' = steps
      BY <3>1 DEF StepDone
    <3>3. dev'[at] = Perform(dev[at], steps[i])
      BY <1>c, <3>2
    <3>4. \E w, of : Awaited(want, Perform(dev[at], steps[i]), w, of, steps, todo \ {i})
      BY <1>a, RequestAwaited
    <3> QED BY <1>g, <3>2, <3>3, <3>4
  <2>3. CASE Finish
    <3>1. UNCHANGED <<dev, steps, todo>>
      BY <2>3 DEF Finish
    <3> QED BY <1>a, <1>g, <3>1 DEF ApieceInv
  <2>4. CASE ReplanLost \/ \E i \in todo : StepRefused(i) \/ StepLost(i)
    <3>1. todo' = {}
      BY <2>4 DEF ReplanLost, StepRefused, StepLost, Fail
    <3> QED BY <1>n, <3>1
  <2> QED BY <1>2, <2>1, <2>2, <2>3, <2>4 DEF CallStep
<1>3. CASE ApplyLost
  <2>1. todo' = {}
    BY <1>3 DEF ApplyLost, Fail
  <2> QED BY <1>n, <2>1
<1>4. CASE \E t \in Targets : Traffic(t)
  <2>1. PICK t \in Targets : Traffic(t)
    BY <1>4
  <2>2. UNCHANGED <<steps, todo>>
    BY <2>1 DEF Traffic, callVars
  <2> DEFINE m == dev[at]
             v == dev'[at]
  <2>3. \A id \in DOMAIN v.rows : id \in DOMAIN m.rows /\ Alike(v.rows[id], m.rows[id])
    BY <2>1, TrafficAlike
  <2>4. PICK w, of : Awaited(want, m, w, of, steps, todo)
    BY <1>a DEF ApieceInv
  <2> HIDE DEF m, v
  <2>5. todo \subseteq todo
    OBVIOUS
  <2>6. Awaited(want, v, w, of, steps, todo)
    BY <2>3, <2>4, <2>5, FewerAwaited
  <2> QED BY <1>g, <2>2, <2>6 DEF v
<1>5. CASE UNCHANGED menuVars
  <2>1. UNCHANGED <<dev, steps, todo>>
    BY <1>5 DEF menuVars, callVars
  <2> QED BY <1>a, <1>g, <2>1 DEF ApieceInv
<1> QED BY <1>h, <1>1, <1>2, <1>3, <1>4, <1>5 DEF Next, Client

\* As many rows as desired rows they belong to.
LEMMA NoMoreThan ==
  ASSUME NEW n \in Nat, NEW J, J \subseteq 1 .. n, NEW X, NEW w, \A id \in X : \E j \in J : w[j] = id
  PROVE  Cardinality(X) <= Cardinality(J)
<1>1. IsFiniteSet(J)
  <2>1. IsFiniteSet(1 .. n)
    BY FS_Interval
  <2>2. J \in SUBSET (1 .. n)
    OBVIOUS
  <2> QED BY <2>1, <2>2, FS_Subset
<1> DEFINE f == [id \in X |-> CHOOSE j \in J : w[j] = id]
<1>2. \A id \in X : f[id] \in J /\ w[f[id]] = id
  OBVIOUS
<1>3. f \in [X -> J]
  BY <1>2
<1> HIDE DEF f
<1>4. f \in Injection(X, J)
  BY <1>2, <1>3 DEF Injection, IsInjective
<1> QED BY <1>1, <1>4, FS_Injection

\* A create of a call in such a state leaves no more rows of its content than asked for.
LEMMA CreateCounts ==
  ASSUME TypeOK, SparingInv, ApieceInv, Next, edits' = 0, Storable(want), Separable(want),
         dev'[at].next # dev[at].next
  PROVE  Cardinality({id \in DOMAIN dev'[at].rows : dev'[at].rows[id] = dev'[at].rows[dev[at].next]})
           <= Cardinality({i \in DOMAIN want : Stored(want[i]) = dev'[at].rows[dev[at].next]})
<1>c. CallTypeOK /\ at \in Targets /\ DOMAIN dev = Targets /\ want \in Seq(Range(want)) /\ Orderly(dev[at])
      /\ edits \in Nat
  BY GoalFree DEF TypeOK, CallTypeOK, SparingInv, MenuInv, MenusOrderly
<1>h. ~HandStep
  <2>1. HandStep => edits' = edits + 1
    BY DEF HandStep, HandAdd, HandRemove, HandEdit, HandMove, ByHand
  <2> QED BY <1>c, <2>1
<1>t. \A t \in Targets : ~Traffic(t)
  <2> SUFFICES ASSUME NEW t \in Targets, Traffic(t) PROVE FALSE
    OBVIOUS
  <2>1. PICK a, f : dev' = [dev EXCEPT ![t] = Update(dev[t], a, f)]
    BY DEF Traffic
  <2>2. Update(dev[t], a, f).next = dev[t].next
    BY DEF Update
  <2>3. dev'[at].next = dev[at].next
    BY <1>c, <2>1, <2>2
  <2> QED BY <2>3
<1>1. CallStep
  BY <1>h, <1>t DEF Next, Client, Apply, Begin, ApplyLost
<1>2. edits = 0
  BY <1>1 DEF CallStep, StepDone, StepRefused, StepLost, Replan, ReplanLost, Finish, envVars
<1>3. PICK i \in todo : /\ Accepts(dev[at], spec, steps[i])
                        /\ dev' = [dev EXCEPT ![at] = Perform(dev[at], steps[i])]
  BY <1>1, <1>c, CallRequest
<1> DEFINE m == dev[at]
           x == steps[i]
           v == dev'[at]
           n == Len(want)
<1>4. v = Perform(m, x) /\ v.next # m.next
  BY <1>3, <1>c
<1>5. Aimed(spec, want, m, x)
  BY DEF SparingInv, StepsAimed
<1>6. x.op = "create"
  <2>0. /\ x.op = "update" => v = Update(m, x.id, x.row)
        /\ x.op = "delete" => v = Delete(m, x.id)
        /\ x.op = "move" => v = Move(m, x.order, x.before)
    BY <1>4 DEF Perform
  <2> HIDE DEF v, m, x
  <2>1. x.op = "update" => v.next = m.next
    BY <2>0 DEF Update
  <2>2. x.op = "delete" => v.next = m.next
    BY <2>0 DEF Delete
  <2>3. x.op = "move" => v.next = m.next
    BY <2>0 DEF Move
  <2> QED BY <1>4, <1>5, <2>1, <2>2, <2>3 DEF Aimed
<1>7. v = Create(m, x.row)
  BY <1>4, <1>6 DEF Perform
<1>8. v.rows[m.next] = Stored(x.row) /\ DOMAIN v.rows = DOMAIN m.rows \cup {m.next}
      /\ \A id \in DOMAIN m.rows : id # m.next => v.rows[id] = m.rows[id]
  BY <1>7 DEF Create
<1> DEFINE r == Stored(x.row)
           X == {id \in DOMAIN v.rows : v.rows[id] = r}
           J == {j \in 1 .. n : Stored(want[j]) = r}
<1>9. n \in Nat /\ DOMAIN want = 1 .. n
  BY <1>c
<1>10. \E w : \A id \in X : \E j \in J : w[j] = id
  <2>1. CASE spec.key = NoKey
    <3>1. Apiece /\ Plain(spec, want)
      BY <1>2, <2>1, GoalPlain DEF Apiece
    <3>2. PICK w, of : Awaited(want, m, w, of, steps, todo)
      BY <3>1 DEF ApieceInv
    <3> DEFINE u == [w EXCEPT ![of[i]] = m.next]
    <3>o. Orderly(m)
      BY <1>c
    <3> HIDE DEF m
    <3>a. Plain(spec, want) /\ steps[i].op = "create"
      BY <1>6, <3>1
    <3>b. of[i] \in 1 .. Len(want) /\ steps[i].row = want[of[i]]
      <4>1. i \in 1 .. Len(of) /\ of \in Seq(1 .. Len(want)) /\ steps[i] = CreateStep(want[of[i]])
        BY <3>a, <3>2 DEF Awaited
      <4> QED BY <4>1 DEF CreateStep, Step
    <3>c. Taken(want, Create(m, steps[i].row), [w EXCEPT ![of[i]] = m.next], of[i])
      BY <2>1, <3>a, <3>2, <3>o, CreateAwaited
    <3>3. of[i] \in 1 .. Len(want) /\ steps[i].row = want[of[i]] /\ Taken(want, Create(m, steps[i].row), u, of[i])
      BY <3>b, <3>c
    <3> HIDE DEF u
    <3>4. Taken(want, v, u, of[i]) /\ Stored(want[of[i]]) = r
      BY <1>7, <3>3
    <3>5. \A id \in X : Alike(v.rows[id], Stored(want[of[i]]))
      BY <3>4 DEF Alike
    <3>6. \A id \in X : \E j \in J : u[j] = id
      BY <3>4, <3>5 DEF Taken
    <3> QED BY <3>6
  <2>2. CASE spec.key # NoKey
    <3>1. PICK j \in 1 .. n : x.row = want[j]
      BY <1>5, <1>6 DEF Aimed
    <3>2. spec.key \in DOMAIN x.row
      BY <1>9, <2>2, <3>1 DEF Storable
    <3>3. \A id \in DOMAIN m.rows :
            spec.key \in DOMAIN m.rows[id] => m.rows[id][spec.key] # Stored(x.row)[spec.key]
      BY <1>3, <1>6, <2>2, <3>2 DEF Accepts
    <3>4. spec.key \in DOMAIN Stored(x.row)
      BY <3>2 DEF Stored
    <3>5. \A id \in X : id = m.next
      BY <1>8, <3>3, <3>4
    <3> DEFINE w == [l \in 1 .. n |-> m.next]
    <3>6. j \in J /\ w[j] = m.next
      BY <3>1
    <3> HIDE DEF w, J, X
    <3> QED BY <3>5, <3>6
  <2> QED BY <2>1, <2>2
<1>11. Cardinality(X) <= Cardinality(J)
  <2>1. J \subseteq 1 .. n
    OBVIOUS
  <2> HIDE DEF J, X, n
  <2> QED BY <1>9, <1>10, <2>1, NoMoreThan
<1> QED BY <1>8, <1>9, <1>11

\* A create never brings the rows of one content above the number asked for, for any
\* menus, any goal, any losses and retries, and whatever traffic does to the counters:
\* rows whose creation was not confirmed are found again before any is created anew.
THEOREM NoneCreatedTwice == Spec => NoDuplicateCreate
<1>1. Init => SparingInv /\ ApieceInv
  <2> SUFFICES ASSUME Init PROVE SparingInv /\ ApieceInv
    OBVIOUS
  <2>1. MenuInv
    BY InitOrderly DEF Init
  <2>2. SparingInv
    BY <2>1 DEF Init, MenuInit, SparingInv, StepsAimed
  <2>3. todo = {}
    BY DEF Init, MenuInit
  <2>4. PICK g \in Goals : want = g.want
    BY DEF Init
  <2>5. want \in Seq(Range(want))
    BY <2>4, GoalsAssumption
  <2>6. \A k \in todo : steps[k].op \notin {"create", "update"}
    BY <2>3
  <2>7. \E w, of : Awaited(want, dev[at], w, of, steps, todo)
    BY <2>5, <2>6, NoneAwaited
  <2> QED BY <2>2, <2>7 DEF ApieceInv
<1>2. TypeOK /\ SparingInv /\ ApieceInv /\ [Next]_menuVars =>
        [(edits' = 0 /\ Storable(want) /\ Separable(want) /\ dev'[at].next # dev[at].next) =>
           LET row == dev'[at].rows[dev[at].next]
           IN  Cardinality({id \in DOMAIN dev'[at].rows : dev'[at].rows[id] = row})
                 <= Cardinality({i \in DOMAIN want : Stored(want[i]) = row})]_menuVars
  <2> SUFFICES ASSUME TypeOK, SparingInv, ApieceInv, Next,
                      edits' = 0, Storable(want), Separable(want), dev'[at].next # dev[at].next
               PROVE  LET row == dev'[at].rows[dev[at].next]
                      IN  Cardinality({id \in DOMAIN dev'[at].rows : dev'[at].rows[id] = row})
                            <= Cardinality({i \in DOMAIN want : Stored(want[i]) = row})
    OBVIOUS
  <2> QED BY CreateCounts
<1> QED BY <1>1, <1>2, NextSparing, NextApiece, TypeCorrect, PTL DEF Spec, NoDuplicateCreate

-----------------------------------------------------------------------------
\* Converging where there is a key or no order.

\* Desired rows the router stores as they are sent, under their key, and never flags.
Sendable(spc, d) ==
  /\ Unborn(spc)
  /\ \A i \in 1 .. Len(d) : /\ Subset(d[i], Stored(d[i])) /\ Free(spc, d[i])
                            /\ spc.key # NoKey => spc.key \in DOMAIN d[i]

\* What is true of a call while its reading stands: w[i] is the row of desired row i,
\* or NoID if a create for it is still due; a field of that row is right, or an update
\* of it is due; nothing else is due, and under Prune no other row will be left.
Holds(m, id, row, f)  == f \in DOMAIN m.rows[id] /\ m.rows[id][f] = row[f]
Sends(x, id, f)       == x.op = "update" /\ x.id = id /\ f \in DOMAIN x.row
Has(spc, d, m, w, i)  == w[i] \in DOMAIN m.rows /\ Fits(spc, d[i], RowAt(m, w[i]))
Right(d, m, w, stps, left, i) ==
  \A f \in DOMAIN d[i] : Holds(m, w[i], d[i], f) \/ \E k \in left : Sends(stps[k], w[i], f)
Due(spc, d, m, w, of, x, k) ==
  \/ x.op = "create" /\ k \in 1 .. Len(of) /\ w[of[k]] = NoID /\ x = CreateStep(d[of[k]])
  \/ x.op = "update" /\ spc.key # NoKey
     /\ \E i \in 1 .. Len(d) : w[i] # NoID /\ w[i] = x.id /\ Subset(x.row, d[i])
  \/ x.op = "delete" /\ x.id \in Nat /\ x.id < m.next /\ ~In(x.id, w)
  \/ x.op = "move" /\ spc.ordered
Missing(of, stps, left, i) == \E k \in left : k \in 1 .. Len(of) /\ stps[k].op = "create" /\ of[k] = i
Accounted(spc, m, w, stps, left, id) ==
  \/ In(id, w) \/ Ignored(spc, RowAt(m, id))
  \/ \E k \in left : stps[k].op = "delete" /\ stps[k].id = id
Assigned(spc, d, m, w, of, stps, left) ==
  /\ w \in Seq(Nat) /\ Len(w) = Len(d) /\ of \in Seq(1 .. Len(d)) /\ Distinct(of)
  /\ \A i, j \in 1 .. Len(d) : w[i] = w[j] => i = j \/ w[i] = NoID
  /\ \A i \in 1 .. Len(d) : w[i] # NoID => Has(spc, d, m, w, i) /\ Right(d, m, w, stps, left, i)
  /\ \A i \in 1 .. Len(d) : w[i] = NoID => Missing(of, stps, left, i)
  /\ \A k \in left : Due(spc, d, m, w, of, stps[k], k)
  /\ spc.unlisted = "prune" => \A id \in DOMAIN m.rows : Accounted(spc, m, w, stps, left, id)

\* It is true of a fresh plan.
LEMMA PlanAssigned ==
  ASSUME NEW spc, NEW d, NEW m, NEW w, NEW of, NEW stps, Laid(spc, d, m, w, stps, of),
         \A k \in DOMAIN stps : stps[k].op = "delete" => stps[k].id \in Nat /\ stps[k].id < m.next
  PROVE  Assigned(spc, d, m, w, of, stps, DOMAIN stps)
<1>1. /\ w \in Seq(Nat) /\ Len(w) = Len(d) /\ of \in Seq(1 .. Len(d)) /\ Distinct(of) /\ Apart(w)
      /\ \A k \in 1 .. Len(of) : of[k] \in 1 .. Len(d)
      /\ \A i \in 1 .. Len(d) : w[i] \in Nat
  <2>1. w \in Seq(Nat) /\ Len(w) = Len(d) /\ of \in Seq(1 .. Len(d)) /\ Distinct(of) /\ Apart(w)
    BY DEF Laid
  <2>2. \A k \in 1 .. Len(of) : of[k] \in 1 .. Len(d)
    BY ONLY <2>1
  <2>3. \A i \in 1 .. Len(d) : w[i] \in Nat
    BY ONLY <2>1
  <2> QED BY <2>1, <2>2, <2>3
<1>2. \A i, j \in 1 .. Len(d) : w[i] = w[j] => i = j \/ w[i] = NoID
  <2>1. \A i \in 1 .. Len(d) : w[i] # Ambiguous
    BY <1>1 DEF Ambiguous
  <2> QED BY <1>1, <2>1 DEF Apart
<1>3. ASSUME NEW i \in 1 .. Len(d), w[i] # NoID PROVE Has(spc, d, m, w, i) /\ Right(d, m, w, stps, DOMAIN stps, i)
  <2>1. w[i] \in DOMAIN m.rows /\ Fits(spc, d[i], RowAt(m, w[i]))
    BY <1>3 DEF Laid
  <2>2. RowAt(m, w[i]).fields = m.rows[w[i]]
    BY DEF RowAt
  <2>3. ASSUME NEW f \in DOMAIN d[i], ~Holds(m, w[i], d[i], f) PROVE \E k \in DOMAIN stps : Sends(stps[k], w[i], f)
    <3>1. f \in DOMAIN Lack(d, m, w, i)
      BY <2>2, <2>3 DEF Lack, Changes, Holds
    <3>2. spc.key # NoKey
      BY <2>1, <2>2, <2>3 DEF Fits, Subset, Holds
    <3>3. PICK k \in 1 .. Len(of) : of[k] = i
      BY <3>1, <3>2 DEF Laid, In
    <3>4. k \in DOMAIN stps /\ stps[k] = UpdateStep(w[i], Lack(d, m, w, i))
      BY <1>3, <3>3 DEF Laid
    <3>5. stps[k].op = "update" /\ stps[k].id = w[i] /\ stps[k].row = Lack(d, m, w, i)
      BY <3>4 DEF UpdateStep, Step
    <3> QED BY <3>1, <3>4, <3>5 DEF Sends
  <2> QED BY <2>1, <2>3 DEF Has, Right
<1>4. ASSUME NEW i \in 1 .. Len(d), w[i] = NoID PROVE Missing(of, stps, DOMAIN stps, i)
  <2>1. PICK k \in 1 .. Len(of) : of[k] = i
    BY <1>4 DEF Laid, In
  <2>2. k \in DOMAIN stps /\ stps[k] = CreateStep(d[i])
    BY <1>4, <2>1 DEF Laid
  <2>3. stps[k].op = "create"
    BY <2>2 DEF CreateStep, Step
  <2> QED BY <2>1, <2>2, <2>3 DEF Missing
<1>5. ASSUME NEW k \in DOMAIN stps PROVE Due(spc, d, m, w, of, stps[k], k)
  <2>1. CASE k \in 1 .. Len(of) /\ w[of[k]] = NoID
    <3>1. stps[k] = CreateStep(d[of[k]])
      BY <2>1 DEF Laid
    <3>2. stps[k].op = "create"
      BY <3>1 DEF CreateStep, Step
    <3> QED BY <2>1, <3>1, <3>2 DEF Due
  <2>2. CASE k \in 1 .. Len(of) /\ w[of[k]] # NoID
    <3> DEFINE i == of[k]
    <3>1. i \in 1 .. Len(d) /\ spc.key # NoKey /\ stps[k] = UpdateStep(w[i], Lack(d, m, w, i))
      BY <1>1, <2>2 DEF Laid
    <3>2. stps[k].op = "update" /\ stps[k].id = w[i] /\ stps[k].row = Lack(d, m, w, i)
      BY <3>1 DEF UpdateStep, Step
    <3>3. Subset(Lack(d, m, w, i), d[i])
      BY DEF Lack, Changes, Subset
    <3> QED BY <2>2, <3>1, <3>2, <3>3 DEF Due
  <2>3. CASE k \notin 1 .. Len(of)
    <3>1. \/ stps[k].op = "delete" /\ ~In(stps[k].id, w)
          \/ stps[k].op = "move" /\ spc.ordered
      BY <2>3 DEF Laid
    <3> QED BY <3>1 DEF Due
  <2> QED BY <2>1, <2>2, <2>3
<1>6. ASSUME spc.unlisted = "prune", NEW id \in DOMAIN m.rows PROVE Accounted(spc, m, w, stps, DOMAIN stps, id)
  BY <1>6 DEF Laid, Accounted
<1> QED BY <1>1, <1>2, <1>3, <1>4, <1>5, <1>6 DEF Assigned

\* Fields sent are stored as desired.
LEMMA StoredField ==
  ASSUME NEW row, NEW full, Subset(row, full), Subset(full, Stored(full)), NEW k \in DOMAIN row
  PROVE  Stored(row)[k] = full[k]
<1>1. k \in DOMAIN full /\ full[k] = row[k]
  BY DEF Subset
<1>2. Stored(full)[k] = full[k]
  BY <1>1 DEF Subset
<1>3. Stored(full)[k] = IF full[k] \in DOMAIN Canonical THEN Canonical[full[k]] ELSE full[k]
  BY <1>1 DEF Stored
<1>4. Stored(row)[k] = IF row[k] \in DOMAIN Canonical THEN Canonical[row[k]] ELSE row[k]
  BY DEF Stored
<1> QED BY <1>1, <1>2, <1>3, <1>4

\* Whether a row is flagged is whether it is ignored.
LEMMA IgnoredFlagged ==
  ASSUME NEW spc, NEW m, NEW id
  PROVE  Ignored(spc, RowAt(m, id)) <=> Flagged(spc, m.rows[id])
<1>1. RowAt(m, id).fields = m.rows[id]
  BY DEF RowAt
<1> QED BY <1>1 DEF Ignored, Flagged

\* The row a create makes fits the row it is for.
LEMMA CreatedFits ==
  ASSUME NEW spc, NEW d, Sendable(spc, d), NEW a \in 1 .. Len(d), NEW m, NEW id, id # NoID, m.rows[id] = Stored(d[a])
  PROVE  Fits(spc, d[a], RowAt(m, id)) /\ Subset(d[a], m.rows[id])
<1>1. RowAt(m, id).fields = Stored(d[a]) /\ RowAt(m, id).id = id
  BY DEF RowAt
<1>2. Subset(d[a], Stored(d[a])) /\ Free(spc, d[a]) /\ Unborn(spc) /\ (spc.key # NoKey => spc.key \in DOMAIN d[a])
  BY DEF Sendable
<1>3. ~Ignored(spc, RowAt(m, id))
  <2>1. ~Flagged(spc, Stored(d[a]))
    BY <1>2, StoredFlagged
  <2> QED BY <2>1, IgnoredFlagged
<1>4. spc.key # NoKey => /\ spc.key \in DOMAIN d[a] \cap DOMAIN Stored(d[a])
                         /\ Stored(d[a])[spc.key] = d[a][spc.key]
  BY <1>2 DEF Subset
<1> QED BY <1>1, <1>2, <1>3, <1>4 DEF Fits

\* What a create leaves: the desired row a has its row.
Filled(spc, d, m, w, of, stps, left, i, a, v, u) ==
  /\ a \in 1 .. Len(d) /\ w[a] = NoID /\ stps[i].row = d[a] /\ u = [w EXCEPT ![a] = m.next]
  /\ Assigned(spc, d, v, u, of, stps, left \ {i})

\* The next step is a create: the desired row has its row.
LEMMA CreateAssigned ==
  ASSUME NEW spc, NEW d, Sendable(spc, d), NEW m, Orderly(m), NEW w, NEW of, NEW stps, NEW left,
         Assigned(spc, d, m, w, of, stps, left), NEW i \in left, stps[i].op = "create",
         NEW a, a = of[i], NEW v, v = Create(m, stps[i].row), NEW u, u = [w EXCEPT ![a] = m.next]
  PROVE  Filled(spc, d, m, w, of, stps, left, i, a, v, u)
<1>1. /\ w \in Seq(Nat) /\ Len(w) = Len(d) /\ of \in Seq(1 .. Len(d)) /\ Distinct(of)
      /\ \A j, k \in 1 .. Len(d) : w[j] = w[k] => j = k \/ w[j] = NoID
  BY DEF Assigned
<1>2. i \in 1 .. Len(of) /\ w[a] = NoID /\ stps[i] = CreateStep(d[a])
  <2>1. Due(spc, d, m, w, of, stps[i], i)
    BY DEF Assigned
  <2> QED BY <2>1 DEF Due
<1>3. a \in 1 .. Len(d) /\ stps[i].row = d[a]
  BY <1>1, <1>2 DEF CreateStep, Step
<1>4. m.next \in Nat /\ m.next \notin DOMAIN m.rows /\ m.next # NoID /\ \A id \in DOMAIN m.rows : id # NoID
  BY DEF Orderly, NoID
<1>5. /\ DOMAIN v.rows = DOMAIN m.rows \cup {m.next} /\ v.rows[m.next] = Stored(d[a])
      /\ \A id \in DOMAIN m.rows : v.rows[id] = m.rows[id]
      /\ v.next = m.next + 1
  BY <1>3, <1>4 DEF Create
<1>6. u \in Seq(Nat) /\ Len(u) = Len(d) /\ u[a] = m.next /\ \A j \in 1 .. Len(d) : j # a => u[j] = w[j]
  BY <1>1, <1>3, <1>4
<1>7. \A id \in DOMAIN m.rows : RowAt(v, id) = RowAt(m, id)
  BY <1>5 DEF RowAt
<1>h. \A j \in 1 .. Len(d) : w[j] # NoID =>
        w[j] \in DOMAIN m.rows /\ Fits(spc, d[j], RowAt(m, w[j])) /\ Right(d, m, w, stps, left, j)
  BY DEF Assigned, Has
<1>8. \A j, k \in 1 .. Len(d) : u[j] = u[k] => j = k \/ u[j] = NoID
  <2> SUFFICES ASSUME NEW j \in 1 .. Len(d), NEW k \in 1 .. Len(d), u[j] = u[k], u[j] # NoID PROVE j = k
    OBVIOUS
  <2>1. j # a => u[j] = w[j] /\ (w[j] # NoID => w[j] \in DOMAIN m.rows)
    BY <1>6, <1>h
  <2>2. k # a => u[k] = w[k] /\ (w[k] # NoID => w[k] \in DOMAIN m.rows)
    BY <1>6, <1>h
  <2> QED BY <1>1, <1>4, <1>6, <2>1, <2>2
<1>9. ASSUME NEW j \in 1 .. Len(d), u[j] # NoID
      PROVE  Has(spc, d, v, u, j) /\ Right(d, v, u, stps, left \ {i}, j)
  <2>1. CASE j = a
    <3>1. Fits(spc, d[a], RowAt(v, m.next)) /\ Subset(d[a], v.rows[m.next])
      BY <1>3, <1>4, <1>5, CreatedFits
    <3>2. m.next \in DOMAIN v.rows
      BY <1>5
    <3> QED BY <1>6, <2>1, <3>1, <3>2 DEF Has, Right, Holds, Subset
  <2>2. CASE j # a
    <3>1. u[j] = w[j] /\ w[j] \in DOMAIN m.rows /\ Fits(spc, d[j], RowAt(m, w[j])) /\ Right(d, m, w, stps, left, j)
      BY <1>6, <1>9, <1>h, <2>2
    <3>2. Has(spc, d, v, u, j)
      BY <1>5, <1>7, <3>1 DEF Has
    <3>3. v.rows[u[j]] = m.rows[w[j]]
      BY <1>5, <3>1
    <3>4. \A f : ~Sends(stps[i], w[j], f)
      BY DEF Sends
    <3>5. Right(d, v, u, stps, left \ {i}, j)
      BY <3>1, <3>3, <3>4 DEF Right, Holds
    <3> QED BY <3>2, <3>5
  <2> QED BY <2>1, <2>2
<1>10. ASSUME NEW j \in 1 .. Len(d), u[j] = NoID PROVE Missing(of, stps, left \ {i}, j)
  <2>1. j # a /\ w[j] = NoID
    BY <1>4, <1>6, <1>10
  <2>2. Missing(of, stps, left, j)
    BY <2>1 DEF Assigned
  <2> QED BY <2>1, <2>2 DEF Missing
<1>11. ASSUME NEW k \in left \ {i} PROVE Due(spc, d, v, u, of, stps[k], k)
  <2>0. Due(spc, d, m, w, of, stps[k], k)
    BY DEF Assigned
  <2> DEFINE x == stps[k]
  <2>1. CASE x.op = "create"
    <3>1. k \in 1 .. Len(of) /\ w[of[k]] = NoID /\ x = CreateStep(d[of[k]])
      BY <2>0, <2>1 DEF Due
    <3>2. of[k] # a /\ of[k] \in 1 .. Len(d)
      BY <1>1, <1>2, <3>1 DEF Distinct
    <3> QED BY <1>6, <2>1, <3>1, <3>2 DEF Due
  <2>2. CASE x.op = "update"
    <3>1. spc.key # NoKey
      BY <2>0, <2>2 DEF Due
    <3>2. PICK j \in 1 .. Len(d) : w[j] # NoID /\ w[j] = x.id /\ Subset(x.row, d[j])
      BY <2>0, <2>2 DEF Due
    <3>3. u[j] = w[j]
      BY <1>2, <1>6, <3>2
    <3> QED BY <2>2, <3>1, <3>2, <3>3 DEF Due
  <2>3. CASE x.op = "delete"
    <3>1. x.id \in Nat /\ x.id < m.next /\ ~In(x.id, w)
      BY <2>0, <2>3 DEF Due
    <3>2. ~In(x.id, u)
      <4> SUFFICES ASSUME NEW j \in 1 .. Len(d), u[j] = x.id PROVE FALSE
        BY <1>6 DEF In
      <4>1. j # a
        BY <1>4, <1>6, <3>1
      <4> QED BY <1>1, <1>6, <3>1, <4>1 DEF In
    <3>3. x.id < v.next
      BY <1>4, <1>5, <3>1
    <3> QED BY <2>3, <3>1, <3>2, <3>3 DEF Due
  <2>4. CASE x.op = "move"
    BY <2>0, <2>4 DEF Due
  <2> QED BY <2>0, <2>1, <2>2, <2>3, <2>4 DEF Due
<1>12. ASSUME spc.unlisted = "prune", NEW id \in DOMAIN v.rows PROVE Accounted(spc, v, u, stps, left \ {i}, id)
  <2>1. CASE id = m.next
    <3>1. In(id, u)
      BY <1>3, <1>6, <2>1 DEF In
    <3> QED BY <3>1 DEF Accounted
  <2>2. CASE id # m.next
    <3>1. id \in DOMAIN m.rows /\ RowAt(v, id) = RowAt(m, id) /\ Accounted(spc, m, w, stps, left, id)
      BY <1>5, <1>7, <1>12, <2>2 DEF Assigned
    <3>2. In(id, w) => In(id, u)
      <4> SUFFICES ASSUME NEW j \in 1 .. Len(d), w[j] = id PROVE In(id, u)
        BY <1>1 DEF In
      <4>1. j # a
        BY <1>2, <1>4, <3>1
      <4> QED BY <1>6, <4>1 DEF In
    <3> QED BY <3>1, <3>2 DEF Accounted
  <2> QED BY <2>1, <2>2
<1>13. Assigned(spc, d, v, u, of, stps, left \ {i})
  BY <1>1, <1>6, <1>8, <1>9, <1>10, <1>11, <1>12 DEF Assigned
<1> QED BY <1>2, <1>3, <1>13 DEF Filled

\* The next step is an update: the row still fits, and its fields are right.
LEMMA UpdateAssigned ==
  ASSUME NEW spc, NEW d, Sendable(spc, d), NEW m, NEW w, NEW of, NEW stps, NEW left,
         Assigned(spc, d, m, w, of, stps, left), NEW i \in left, stps[i].op = "update",
         NEW v, v = Update(m, stps[i].id, stps[i].row)
  PROVE  /\ Assigned(spc, d, v, w, of, stps, left \ {i})
         /\ spc.key # NoKey /\ \A id \in DOMAIN v.rows : \A j \in 1 .. Len(d) :
              Fits(spc, d[j], RowAt(v, id)) => Fits(spc, d[j], RowAt(m, id))
<1>1. /\ w \in Seq(Nat) /\ Len(w) = Len(d) /\ of \in Seq(1 .. Len(d)) /\ Distinct(of)
      /\ \A j, k \in 1 .. Len(d) : w[j] = w[k] => j = k \/ w[j] = NoID
  BY DEF Assigned
<1> DEFINE y == stps[i].id
           r == stps[i].row
<1>2. Due(spc, d, m, w, of, stps[i], i)
  BY DEF Assigned
<1>3. spc.key # NoKey /\ \E b \in 1 .. Len(d) : w[b] # NoID /\ w[b] = y /\ Subset(r, d[b])
  BY <1>2 DEF Due
<1>4. PICK b \in 1 .. Len(d) : w[b] # NoID /\ w[b] = y /\ Subset(r, d[b])
  BY <1>3
<1>5. Subset(d[b], Stored(d[b])) /\ Free(spc, d[b]) /\ spc.key \in DOMAIN d[b]
  BY <1>3 DEF Sendable
<1>6. Free(spc, r)
  BY <1>4, <1>5 DEF Free, Subset
<1>7. y \in DOMAIN m.rows /\ Fits(spc, d[b], RowAt(m, y)) /\ Right(d, m, w, stps, left, b)
  BY <1>4 DEF Assigned, Has
<1>8. /\ DOMAIN v.rows = DOMAIN m.rows /\ v.next = m.next
      /\ \A id \in DOMAIN m.rows : id # y => v.rows[id] = m.rows[id]
      /\ DOMAIN v.rows[y] = DOMAIN m.rows[y] \cup DOMAIN r
      /\ \A k \in DOMAIN r : v.rows[y][k] = Stored(r)[k]
      /\ \A k \in DOMAIN m.rows[y] \ DOMAIN r : v.rows[y][k] = m.rows[y][k]
  BY <1>7 DEF Update
<1>9. \A k \in DOMAIN r : v.rows[y][k] = d[b][k]
  BY <1>4, <1>5, <1>8, StoredField
<1>10. \A id \in DOMAIN m.rows : Flagged(spc, v.rows[id]) <=> Flagged(spc, m.rows[id])
  BY <1>6, UpdateFlagged
<1>11. spc.key \in DOMAIN v.rows[y] /\ spc.key \in DOMAIN m.rows[y] /\ v.rows[y][spc.key] = m.rows[y][spc.key]
  <2>1. RowAt(m, y).fields = m.rows[y]
    BY DEF RowAt
  <2>2. spc.key \in DOMAIN m.rows[y] /\ m.rows[y][spc.key] = d[b][spc.key]
    BY <1>3, <1>7, <2>1 DEF Fits
  <2> HIDE DEF y, r
  <2> QED BY <1>8, <1>9, <2>2
<1> HIDE DEF y, r
<1>12. ASSUME NEW id \in DOMAIN m.rows, NEW row PROVE Fits(spc, row, RowAt(v, id)) <=> Fits(spc, row, RowAt(m, id))
  <2>1. /\ RowAt(v, id).id = id /\ RowAt(m, id).id = id
        /\ RowAt(v, id).fields = v.rows[id] /\ RowAt(m, id).fields = m.rows[id]
    BY DEF RowAt
  <2>2. Ignored(spc, RowAt(v, id)) <=> Ignored(spc, RowAt(m, id))
    BY <1>10, IgnoredFlagged
  <2>3. /\ spc.key \in DOMAIN v.rows[id] <=> spc.key \in DOMAIN m.rows[id]
        /\ v.rows[id][spc.key] = m.rows[id][spc.key]
    BY <1>8, <1>11
  <2> QED BY <1>3, <2>1, <2>2, <2>3 DEF Fits
<1>13. ASSUME NEW j \in 1 .. Len(d), w[j] # NoID
       PROVE  Has(spc, d, v, w, j) /\ Right(d, v, w, stps, left \ {i}, j)
  <2>1. w[j] \in DOMAIN m.rows /\ Fits(spc, d[j], RowAt(m, w[j])) /\ Right(d, m, w, stps, left, j)
    BY <1>13 DEF Assigned, Has
  <2>2. Has(spc, d, v, w, j)
    BY <1>8, <1>12, <2>1 DEF Has
  <2>3. CASE j = b
    <3>1. ASSUME NEW f \in DOMAIN d[b] PROVE Holds(v, w[b], d[b], f) \/ \E k \in left \ {i} : Sends(stps[k], w[b], f)
      <4>1. CASE f \in DOMAIN r
        BY <1>4, <1>8, <1>9, <4>1 DEF Holds
      <4>2. CASE f \notin DOMAIN r
        <5>1. ~Sends(stps[i], w[b], f)
          BY <4>2 DEF Sends, r
        <5>2. Holds(m, w[b], d[b], f) => Holds(v, w[b], d[b], f)
          BY <1>4, <1>8, <4>2 DEF Holds
        <5> QED BY <1>7, <5>1, <5>2 DEF Right
      <4> QED BY <4>1, <4>2
    <3> QED BY <2>2, <2>3, <3>1 DEF Right
  <2>4. CASE j # b
    <3>1. w[j] # y
      BY <1>1, <1>4, <1>13, <2>4
    <3>2. v.rows[w[j]] = m.rows[w[j]]
      BY <1>8, <2>1, <3>1
    <3>3. \A f : ~Sends(stps[i], w[j], f)
      BY <3>1 DEF Sends, y
    <3> QED BY <2>1, <2>2, <3>2, <3>3 DEF Right, Holds
  <2> QED BY <2>3, <2>4
<1>14. ASSUME NEW j \in 1 .. Len(d), w[j] = NoID PROVE Missing(of, stps, left \ {i}, j)
  <2>1. Missing(of, stps, left, j)
    BY <1>14 DEF Assigned
  <2> QED BY <2>1 DEF Missing
<1>15. ASSUME NEW k \in left \ {i} PROVE Due(spc, d, v, w, of, stps[k], k)
  <2>1. Due(spc, d, m, w, of, stps[k], k)
    BY DEF Assigned
  <2> QED BY <1>8, <2>1 DEF Due
<1>16. ASSUME spc.unlisted = "prune", NEW id \in DOMAIN v.rows PROVE Accounted(spc, v, w, stps, left \ {i}, id)
  <2>1. id \in DOMAIN m.rows /\ Accounted(spc, m, w, stps, left, id)
    BY <1>8, <1>16 DEF Assigned
  <2>2. Ignored(spc, RowAt(v, id)) <=> Ignored(spc, RowAt(m, id))
    BY <1>10, <2>1, IgnoredFlagged
  <2> QED BY <2>1, <2>2 DEF Accounted
<1>17. Assigned(spc, d, v, w, of, stps, left \ {i})
  BY <1>1, <1>13, <1>14, <1>15, <1>16 DEF Assigned
<1> QED BY <1>3, <1>8, <1>12, <1>17

\* The next step is a delete: it is of a row that is nobody's.
LEMMA DeleteAssigned ==
  ASSUME NEW spc, NEW d, NEW m, NEW w, NEW of, NEW stps, NEW left,
         Assigned(spc, d, m, w, of, stps, left), NEW i \in left, stps[i].op = "delete",
         NEW v, v = Delete(m, stps[i].id)
  PROVE  Assigned(spc, d, v, w, of, stps, left \ {i})
<1>1. /\ w \in Seq(Nat) /\ Len(w) = Len(d) /\ of \in Seq(1 .. Len(d)) /\ Distinct(of)
      /\ \A j, k \in 1 .. Len(d) : w[j] = w[k] => j = k \/ w[j] = NoID
  BY DEF Assigned
<1> DEFINE y == stps[i].id
<1>2. ~In(y, w)
  <2>1. Due(spc, d, m, w, of, stps[i], i)
    BY DEF Assigned
  <2> QED BY <2>1 DEF Due
<1>3. /\ DOMAIN v.rows = DOMAIN m.rows \ {y} /\ v.next = m.next
      /\ \A id \in DOMAIN v.rows : v.rows[id] = m.rows[id]
  BY DEF Delete
<1>4. \A id \in DOMAIN v.rows : RowAt(v, id) = RowAt(m, id)
  BY <1>3 DEF RowAt
<1>5. ASSUME NEW j \in 1 .. Len(d), w[j] # NoID
      PROVE  Has(spc, d, v, w, j) /\ Right(d, v, w, stps, left \ {i}, j)
  <2>1. w[j] \in DOMAIN m.rows /\ Fits(spc, d[j], RowAt(m, w[j])) /\ Right(d, m, w, stps, left, j)
    BY <1>5 DEF Assigned, Has
  <2>2. w[j] # y
    BY <1>1, <1>2 DEF In
  <2>3. w[j] \in DOMAIN v.rows
    BY <1>3, <2>1, <2>2
  <2>4. \A f : ~Sends(stps[i], w[j], f)
    BY DEF Sends
  <2> QED BY <1>3, <1>4, <2>1, <2>3, <2>4 DEF Has, Right, Holds
<1>6. ASSUME NEW j \in 1 .. Len(d), w[j] = NoID PROVE Missing(of, stps, left \ {i}, j)
  <2>1. Missing(of, stps, left, j)
    BY <1>6 DEF Assigned
  <2> QED BY <2>1 DEF Missing
<1>7. ASSUME NEW k \in left \ {i} PROVE Due(spc, d, v, w, of, stps[k], k)
  <2>1. Due(spc, d, m, w, of, stps[k], k)
    BY DEF Assigned
  <2> QED BY <1>3, <2>1 DEF Due
<1>8. ASSUME spc.unlisted = "prune", NEW id \in DOMAIN v.rows PROVE Accounted(spc, v, w, stps, left \ {i}, id)
  <2>1. id \in DOMAIN m.rows /\ id # y /\ Accounted(spc, m, w, stps, left, id)
    BY <1>3, <1>8 DEF Assigned
  <2> QED BY <1>4, <2>1 DEF Accounted
<1> QED BY <1>1, <1>5, <1>6, <1>7, <1>8 DEF Assigned

\* The next step is a move: no row changes.
LEMMA MoveAssigned ==
  ASSUME NEW spc, NEW d, NEW m, NEW w, NEW of, NEW stps, NEW left,
         Assigned(spc, d, m, w, of, stps, left), NEW i \in left, stps[i].op = "move",
         NEW v, SameRows(v, m), v.next = m.next
  PROVE  Assigned(spc, d, v, w, of, stps, left \ {i})
<1>1. /\ w \in Seq(Nat) /\ Len(w) = Len(d) /\ of \in Seq(1 .. Len(d)) /\ Distinct(of)
      /\ \A j, k \in 1 .. Len(d) : w[j] = w[k] => j = k \/ w[j] = NoID
  BY DEF Assigned
<1>3. v.rows = m.rows
  BY DEF SameRows
<1>4. \A id : RowAt(v, id) = RowAt(m, id)
  BY <1>3 DEF RowAt
<1>5. ASSUME NEW j \in 1 .. Len(d), w[j] # NoID
      PROVE  Has(spc, d, v, w, j) /\ Right(d, v, w, stps, left \ {i}, j)
  <2>1. w[j] \in DOMAIN m.rows /\ Fits(spc, d[j], RowAt(m, w[j])) /\ Right(d, m, w, stps, left, j)
    BY <1>5 DEF Assigned, Has
  <2>4. \A f : ~Sends(stps[i], w[j], f)
    BY DEF Sends
  <2> QED BY <1>3, <1>4, <2>1, <2>4 DEF Has, Right, Holds
<1>6. ASSUME NEW j \in 1 .. Len(d), w[j] = NoID PROVE Missing(of, stps, left \ {i}, j)
  <2>1. Missing(of, stps, left, j)
    BY <1>6 DEF Assigned
  <2> QED BY <2>1 DEF Missing
<1>7. ASSUME NEW k \in left \ {i} PROVE Due(spc, d, v, w, of, stps[k], k)
  <2>1. Due(spc, d, m, w, of, stps[k], k)
    BY DEF Assigned
  <2> QED BY <2>1 DEF Due
<1>8. ASSUME spc.unlisted = "prune", NEW id \in DOMAIN v.rows PROVE Accounted(spc, v, w, stps, left \ {i}, id)
  <2>1. id \in DOMAIN m.rows /\ Accounted(spc, m, w, stps, left, id)
    BY <1>3, <1>8 DEF Assigned
  <2> QED BY <1>4, <2>1 DEF Accounted
<1> QED BY <1>1, <1>5, <1>6, <1>7, <1>8 DEF Assigned

\* With a key, a create is accepted only if no row has the key: the new row, at the end
\* of the menu, is the first that fits.
LEMMA CreateForemost ==
  ASSUME NEW spc, spc.key # NoKey, NEW d, Sendable(spc, d), NEW m, Orderly(m), NEW w \in Seq(Nat), Len(w) = Len(d),
         Foremost(spc, d, m, w), NEW a \in 1 .. Len(d), w[a] = NoID, NEW x, x.op = "create", x.row = d[a],
         Accepts(m, spc, x), NEW v, v = Create(m, d[a]), NEW u, u = [w EXCEPT ![a] = m.next],
         \A j \in 1 .. Len(d) : w[j] # NoID => w[j] \in DOMAIN m.rows
  PROVE  Foremost(spc, d, v, u)
<1>1. m.next \in Nat /\ m.next \notin DOMAIN m.rows /\ m.next # NoID /\ \A id \in DOMAIN m.rows : id # NoID
  BY DEF Orderly, NoID
<1>2. u \in Seq(Nat) /\ Len(u) = Len(d) /\ u[a] = m.next /\ \A j \in 1 .. Len(d) : j # a => u[j] = w[j]
  BY <1>1
<1>3. /\ DOMAIN v.rows = DOMAIN m.rows \cup {m.next}
      /\ \A id \in DOMAIN m.rows : v.rows[id] = m.rows[id]
      /\ v.order = Append(m.order, m.next)
  BY <1>1 DEF Create
<1>4. \A id \in DOMAIN m.rows : RowAt(v, id) = RowAt(m, id)
  BY <1>3 DEF RowAt
<1> DEFINE n == Len(m.order)
<1>5. /\ n \in Nat /\ Len(v.order) = n + 1 /\ v.order[n + 1] = m.next
      /\ \A k \in 1 .. n : v.order[k] = m.order[k] /\ m.order[k] \in DOMAIN m.rows
  <2>1. m.order \in Seq(DOMAIN m.rows) /\ v.order = Append(m.order, m.next)
    BY <1>3 DEF Orderly
  <2> QED BY ONLY <2>1
<1>6. \A id \in DOMAIN m.rows : spc.key \in DOMAIN m.rows[id] => m.rows[id][spc.key] # d[a][spc.key]
  <2>1. spc.key \in DOMAIN d[a] /\ Stored(d[a])[spc.key] = d[a][spc.key]
    BY DEF Sendable, Subset
  <2>2. \A id \in DOMAIN m.rows : spc.key \in DOMAIN m.rows[id] => m.rows[id][spc.key] # Stored(d[a])[spc.key]
    BY <2>1 DEF Accepts
  <2> QED BY <2>1, <2>2
<1> HIDE DEF n
<1>7. ASSUME NEW j \in 1 .. Len(d), u[j] # NoID, NEW id \in DOMAIN v.rows, Fits(spc, d[j], RowAt(v, id)),
             id \notin Before(u, j), NEW b \in 1 .. Len(v.order), NEW c \in 1 .. Len(v.order),
             v.order[b] = u[j], v.order[c] = id
      PROVE  b <= c
  <2>1. CASE id = m.next
    <3>1. c = n + 1
      BY <1>1, <1>5, <1>7, <2>1
    <3> QED BY <1>5, <3>1
  <2>2. CASE id # m.next
    <3>1. id \in DOMAIN m.rows /\ Fits(spc, d[j], RowAt(m, id))
      BY <1>3, <1>4, <1>7, <2>2
    <3>2. j # a
      <4>1. RowAt(m, id).fields = m.rows[id]
        BY DEF RowAt
      <4>2. j = a => spc.key \in DOMAIN m.rows[id] /\ m.rows[id][spc.key] = d[a][spc.key]
        BY <3>1, <4>1 DEF Fits
      <4> QED BY <1>6, <3>1, <4>2
    <3>3. u[j] = w[j] /\ w[j] # NoID /\ w[j] \in DOMAIN m.rows
      BY <1>2, <1>7, <3>2
    <3>4. id \notin Before(w, j)
      <4> SUFFICES ASSUME NEW l \in 1 .. j - 1, w[l] = id PROVE FALSE
        BY DEF Before
      <4>1. l \in 1 .. Len(d) /\ l # a
        BY <1>1, <1>2, <3>1
      <4>2. u[l] = id
        BY <1>2, <4>1
      <4> QED BY <1>7, <4>2 DEF Before
    <3>5. Ahead(m, w[j], id)
      BY <3>1, <3>3, <3>4 DEF Foremost
    <3>6. b \in 1 .. n /\ c \in 1 .. n
      <4>1. b # n + 1 /\ c # n + 1
        BY <1>1, <1>5, <1>7, <2>2, <3>3
      <4> QED BY <1>5, <4>1
    <3>7. m.order[b] = w[j] /\ m.order[c] = id
      BY <1>5, <1>7, <3>3, <3>6
    <3> QED BY <3>5, <3>6, <3>7 DEF Ahead, n
  <2> QED BY <2>1, <2>2
<1> QED BY <1>7 DEF Foremost, Ahead

\* An update moves no row and lets no other row fit.
LEMMA UpdateForemost ==
  ASSUME NEW spc, NEW d, NEW m, NEW v, NEW w, Foremost(spc, d, m, w), v.order = m.order, DOMAIN v.rows = DOMAIN m.rows,
         \A id \in DOMAIN v.rows : \A j \in 1 .. Len(d) :
           Fits(spc, d[j], RowAt(v, id)) => Fits(spc, d[j], RowAt(m, id))
  PROVE  Foremost(spc, d, v, w)
BY DEF Foremost, Ahead

\* A delete leaves the others as they stand to one another.
LEMMA DeleteForemost ==
  ASSUME NEW spc, NEW d, NEW m, Orderly(m), NEW w, Foremost(spc, d, m, w), NEW y, NEW v, v = Delete(m, y)
  PROVE  Foremost(spc, d, v, w)
<1> DEFINE T == DOMAIN m.rows \ {y}
<1>1. /\ DOMAIN v.rows = T /\ v.order = Only(m.order, T)
      /\ \A id \in DOMAIN v.rows : v.rows[id] = m.rows[id]
  BY DEF Delete
<1>2. \A id \in DOMAIN v.rows : RowAt(v, id) = RowAt(m, id)
  BY <1>1 DEF RowAt
<1>3. m.order \in Seq(DOMAIN m.rows) /\ Distinct(m.order)
  BY DEF Orderly
<1> HIDE DEF T
<1>4. /\ \A j, k \in 1 .. Len(v.order), a, b \in 1 .. Len(m.order) :
           (j < k /\ v.order[j] = m.order[a] /\ v.order[k] = m.order[b]) => a < b
  BY <1>1, <1>3, OnlyMonotone
<1>5. \A k \in 1 .. Len(v.order) : \E a \in 1 .. Len(m.order) : m.order[a] = v.order[k]
  BY <1>1, <1>3, OnlyRange
<1>6. Len(v.order) \in Nat /\ Len(m.order) \in Nat
  <2>1. v.order \in Seq(DOMAIN m.rows)
    BY <1>1, <1>3, OnlyRange
  <2> QED BY <1>3, <2>1
<1>7. ASSUME NEW j \in 1 .. Len(d), w[j] # NoID, NEW id \in DOMAIN v.rows, Fits(spc, d[j], RowAt(v, id)),
             id \notin Before(w, j), NEW b \in 1 .. Len(v.order), NEW c \in 1 .. Len(v.order),
             v.order[b] = w[j], v.order[c] = id
      PROVE  b <= c
  <2>1. id \in DOMAIN m.rows /\ Fits(spc, d[j], RowAt(m, id))
    BY <1>1, <1>2, <1>7 DEF T
  <2>2. Ahead(m, w[j], id)
    BY <1>7, <2>1 DEF Foremost
  <2>3. PICK b2 \in 1 .. Len(m.order) : m.order[b2] = v.order[b]
    BY <1>5
  <2>4. PICK c2 \in 1 .. Len(m.order) : m.order[c2] = v.order[c]
    BY <1>5
  <2>5. b2 <= c2
    BY <1>7, <2>2, <2>3, <2>4 DEF Ahead
  <2>6. c < b => c2 < b2
    BY <1>4, <2>3, <2>4
  <2> QED BY <1>6, <2>5, <2>6
<1> QED BY <1>7 DEF Foremost, Ahead

\* The same with what ensures that the next reading makes the same match: the rows are
\* the first that fit, or the moves left make them so.
Settling(spc, d, m, stps, left) ==
  /\ spc.unlisted \in {"tolerate", "prune"} /\ EmptyRecord \notin spc.ignore
  /\ \E w, of : /\ Assigned(spc, d, m, w, of, stps, left)
                /\ (~spc.ordered /\ spc.key # NoKey) => Foremost(spc, d, m, w)
                /\ spc.ordered => Lining(m, w, stps, left)

\* It is true of a fresh plan that is run in one pass.
LEMMA FreshSettling ==
  ASSUME NEW t, Orderly(dev[t]), NEW spc, NEW W, NEW d \in Seq(W), Fresh(t, spc, d).err = "none",
         spc.ordered => Unstructural(Fresh(t, spc, d).steps)
  PROVE  Settling(spc, d, dev[t], Fresh(t, spc, d).steps, DOMAIN Fresh(t, spc, d).steps)
<1> DEFINE m  == dev[t]
           p  == Fresh(t, spc, d)
           mt == Matched(spc, d, List(m))
<1>1. p = Plan(spc, d, List(m))
  BY DEF Fresh
<1>2. spc.unlisted \in {"tolerate", "prune"} /\ EmptyRecord \notin spc.ignore
  BY <1>1, PlanIs
<1>3. \A k \in DOMAIN p.steps : p.steps[k].op = "delete" => p.steps[k].id \in Nat /\ p.steps[k].id < m.next
  <2> SUFFICES ASSUME NEW k \in DOMAIN p.steps, p.steps[k].op = "delete"
               PROVE  p.steps[k].id \in Nat /\ p.steps[k].id < m.next
    OBVIOUS
  <2>1. Aimed(spc, d, m, p.steps[k])
    BY FreshAimed
  <2>2. Touches(p.steps[k], p.steps[k].id)
    BY DEF Touches
  <2> QED BY <2>1, <2>2 DEF Aimed
<1>4. Orderly(m) /\ p.err = "none" /\ (spc.ordered => Unstructural(p.steps))
  OBVIOUS
<1>5. mt = Matched(spc, d, List(m))
  OBVIOUS
<1> HIDE DEF m, p, mt
<1>6. PICK of : Laid(spc, d, m, mt, p.steps, of)
  BY <1>1, <1>4, <1>5, PlanLaid
<1>7. Assigned(spc, d, m, mt, of, p.steps, DOMAIN p.steps)
  BY <1>3, <1>6, PlanAssigned
<1>8. spc.key # NoKey => Foremost(spc, d, m, mt)
  BY <1>4, <1>5, MatchedForemost
<1>9. spc.ordered => Lining(m, mt, p.steps, DOMAIN p.steps)
  BY <1>1, <1>4, <1>5, PlanLining
<1>10. Settling(spc, d, m, p.steps, DOMAIN p.steps)
  BY <1>2, <1>7, <1>8, <1>9 DEF Settling
<1> QED BY <1>10 DEF m, p

\* Without creates due, every desired row has its row.
LEMMA NoneMissing ==
  ASSUME NEW spc, NEW d, NEW m, NEW w, NEW of, NEW stps, NEW left, Assigned(spc, d, m, w, of, stps, left),
         \A k \in left : stps[k].op # "create"
  PROVE  /\ w \in Seq(DOMAIN m.rows) /\ Distinct(w) /\ Len(w) = Len(d)
         /\ \A i \in 1 .. Len(d) : w[i] # NoID
<1>1. \A i \in 1 .. Len(d) : w[i] # NoID
  BY DEF Assigned, Missing
<1>2. w \in Seq(Nat) /\ Len(w) = Len(d)
  BY DEF Assigned
<1>3. \A i \in 1 .. Len(w) : w[i] \in DOMAIN m.rows
  BY <1>1, <1>2 DEF Assigned, Has
<1>4. w \in Seq(DOMAIN m.rows)
  BY <1>2, <1>3, SeqIn
<1>5. Distinct(w)
  BY <1>1, <1>2 DEF Assigned, Distinct
<1> QED BY <1>1, <1>2, <1>4, <1>5

\* The next step, where there is an order.
LEMMA OrderedSettling ==
  ASSUME NEW spc, spc.ordered, NEW d, Sendable(spc, d), NEW m, Orderly(m), NEW stps, NEW left,
         Settling(spc, d, m, stps, left), NEW i \in left, \A j \in left : i <= j
  PROVE  Settling(spc, d, Perform(m, stps[i]), stps, left \ {i})
<1>1. PICK w, of : Assigned(spc, d, m, w, of, stps, left) /\ Lining(m, w, stps, left)
  BY DEF Settling
<1> DEFINE v    == Perform(m, stps[i])
           rest == left \ {i}
<1>2. \A k \in left : stps[k].op # "create"
  <2>1. PICK u, mv : Lined(m, w, stps, left, u, mv)
    BY <1>1 DEF Lining
  <2> SUFFICES ASSUME NEW k \in left PROVE stps[k].op # "create"
    OBVIOUS
  <2>2. u \in Nat /\ k \in Nat /\ (k <= u => stps[k].op = "update") /\ (k > u => stps[k].op = "move")
    BY <2>1 DEF Lined, Parted
  <2>3. k <= u \/ k > u
    BY <2>2
  <2> QED BY <2>2, <2>3
<1>3. w \in Seq(DOMAIN m.rows) /\ Distinct(w)
  BY <1>1, <1>2, NoneMissing
<1>4. /\ Lining(v, w, stps, rest)
      /\ stps[i].op = "update" \/ (stps[i].op = "move" /\ SameRows(v, m))
  BY <1>1, <1>3, LiningStep
<1>5. CASE stps[i].op = "update"
  <2>1. v = Update(m, stps[i].id, stps[i].row)
    BY <1>5 DEF Perform
  <2> HIDE DEF v
  <2>2. Assigned(spc, d, v, w, of, stps, rest)
    BY <1>1, <1>5, <2>1, UpdateAssigned
  <2>3. Settling(spc, d, v, stps, rest)
    BY <1>4, <2>2 DEF Settling
  <2> QED BY <2>3 DEF v
<1>6. CASE stps[i].op = "move" /\ SameRows(v, m)
  <2>1. v.next = m.next /\ SameRows(v, m)
    BY <1>6 DEF Perform, Move
  <2> HIDE DEF v
  <2>2. Assigned(spc, d, v, w, of, stps, rest)
    BY <1>1, <1>6, <2>1, MoveAssigned
  <2>3. Settling(spc, d, v, stps, rest)
    BY <1>4, <2>2 DEF Settling
  <2> QED BY <2>3 DEF v
<1> QED BY <1>4, <1>5, <1>6

\* The next step, where there is none.
LEMMA UnorderedSettling ==
  ASSUME NEW spc, ~spc.ordered, NEW d, Sendable(spc, d), NEW m, Orderly(m), NEW stps, NEW left,
         Settling(spc, d, m, stps, left), NEW i \in left, Accepts(m, spc, stps[i])
  PROVE  Settling(spc, d, Perform(m, stps[i]), stps, left \ {i})
<1>1. PICK w, of : Assigned(spc, d, m, w, of, stps, left) /\ (spc.key # NoKey => Foremost(spc, d, m, w))
  BY DEF Settling
<1> DEFINE v    == Perform(m, stps[i])
           x    == stps[i]
           rest == left \ {i}
<1>2. SUFFICES \E u : Assigned(spc, d, v, u, of, stps, rest) /\ (spc.key # NoKey => Foremost(spc, d, v, u))
  BY DEF Settling
<1>3. Due(spc, d, m, w, of, x, i)
  BY <1>1 DEF Assigned
<1>4. CASE x.op = "create"
  <2> DEFINE a == of[i]
             u == [w EXCEPT ![a] = m.next]
  <2>1. v = Create(m, x.row) /\ a = of[i] /\ u = [w EXCEPT ![a] = m.next]
    BY <1>4 DEF Perform
  <2> HIDE DEF v, a, u
  <2>2. a \in 1 .. Len(d) /\ w[a] = NoID /\ x.row = d[a] /\ Assigned(spc, d, v, u, of, stps, rest)
    <3>1. Assigned(spc, d, m, w, of, stps, left) /\ i \in left /\ stps[i].op = "create" /\ v = Create(m, stps[i].row)
      BY <1>1, <1>4, <2>1
    <3>2. Filled(spc, d, m, w, of, stps, left, i, a, v, u)
      BY <2>1, <3>1, CreateAssigned
    <3> QED BY <3>2 DEF Filled
  <2>3. ASSUME spc.key # NoKey PROVE Foremost(spc, d, v, u)
    <3>1. /\ w \in Seq(Nat) /\ Len(w) = Len(d)
          /\ \A j \in 1 .. Len(d) : w[j] # NoID => w[j] \in DOMAIN m.rows
      BY <1>1 DEF Assigned, Has
    <3>2. Foremost(spc, d, m, w) /\ Accepts(m, spc, x) /\ v = Create(m, d[a])
      BY <1>1, <2>1, <2>2, <2>3
    <3> HIDE DEF x
    <3> QED BY <1>4, <2>1, <2>2, <2>3, <3>1, <3>2, CreateForemost
  <2> QED BY <2>2, <2>3
<1>5. CASE x.op = "update"
  <2>1. v = Update(m, x.id, x.row)
    BY <1>5 DEF Perform
  <2>2. v.order = m.order /\ DOMAIN v.rows = DOMAIN m.rows
    BY <2>1 DEF Update
  <2> HIDE DEF v
  <2>3. /\ Assigned(spc, d, v, w, of, stps, rest)
        /\ spc.key # NoKey /\ \A id \in DOMAIN v.rows : \A j \in 1 .. Len(d) :
             Fits(spc, d[j], RowAt(v, id)) => Fits(spc, d[j], RowAt(m, id))
    BY <1>1, <1>5, <2>1, UpdateAssigned
  <2>4. Foremost(spc, d, v, w)
    BY <1>1, <2>2, <2>3, UpdateForemost
  <2> QED BY <2>3, <2>4
<1>6. CASE x.op = "delete"
  <2>1. v = Delete(m, x.id)
    BY <1>6 DEF Perform
  <2> HIDE DEF v
  <2>2. Assigned(spc, d, v, w, of, stps, rest)
    BY <1>1, <1>6, <2>1, DeleteAssigned
  <2>3. spc.key # NoKey => Foremost(spc, d, v, w)
    BY <1>1, <2>1, DeleteForemost
  <2> QED BY <2>2, <2>3
<1> QED BY <1>3, <1>4, <1>5, <1>6 DEF Due

\* With nothing left to do, the next reading plans nothing.
LEMMA SettlingEmpty ==
  ASSUME NEW spc, NEW W, NEW d \in Seq(W), NEW m, Orderly(m), NEW stps, Settling(spc, d, m, stps, {}),
         ~spc.ordered \/ spc.key # NoKey,
         spc.ordered =>
           Cardinality({k \in DOMAIN List(m) : \E i \in DOMAIN d : Fits(spc, d[i], List(m)[k])}) <= Len(d)
  PROVE  /\ Plan(spc, d, List(m)).steps = <<>>
         /\ spc.ordered => Plan(spc, d, List(m)).err = "none"
<1>1. PICK w, of : /\ Assigned(spc, d, m, w, of, stps, {})
                   /\ (~spc.ordered /\ spc.key # NoKey) => Foremost(spc, d, m, w)
                   /\ spc.ordered => Lining(m, w, stps, {})
  BY DEF Settling
<1>2. /\ w \in Seq(DOMAIN m.rows) /\ Distinct(w) /\ Len(w) = Len(d)
      /\ \A i \in 1 .. Len(d) : w[i] # NoID
  BY <1>1, NoneMissing
<1>3. \A i \in 1 .. Len(d) : Fits(spc, d[i], RowAt(m, w[i])) /\ Subset(d[i], m.rows[w[i]])
  <2> SUFFICES ASSUME NEW i \in 1 .. Len(d) PROVE Fits(spc, d[i], RowAt(m, w[i])) /\ Subset(d[i], m.rows[w[i]])
    OBVIOUS
  <2>1. Has(spc, d, m, w, i) /\ Right(d, m, w, stps, {}, i)
    BY <1>1, <1>2 DEF Assigned
  <2> QED BY <2>1 DEF Has, Right, Holds, Subset
<1>4. Fitted(spc, d, m, w)
  BY <1>1, <1>2, <1>3 DEF Fitted, Assigned, Accounted
<1>5. spc.unlisted \in {"tolerate", "prune"} /\ EmptyRecord \notin spc.ignore
  BY DEF Settling
<1>6. CASE ~spc.ordered /\ spc.key = NoKey
  BY <1>4, <1>6, UnkeyedEmpty
<1>7. CASE ~spc.ordered /\ spc.key # NoKey
  BY <1>1, <1>3, <1>4, <1>5, <1>7, KeyedEmpty
<1>8. CASE spc.ordered
  <2>1. Sorted(m, w, 1)
    <3>1. PICK u, mv : Lined(m, w, stps, {}, u, mv)
      BY <1>1, <1>8 DEF Lining
    <3>2. Placing(m, w, mv, {})
      BY <3>1 DEF Lined, Beyond
    <3>3. \A j \in 1 .. Len(w) - 1 : j \in j .. Len(w) - 1
      BY <1>2
    <3> QED BY <3>2, <3>3 DEF Placing
  <2>2. \A i \in 1 .. Len(d) : \A id \in DOMAIN m.rows : Fits(spc, d[i], RowAt(m, id)) => In(id, w)
    <3>1. Cardinality({k \in DOMAIN List(m) : \E i \in DOMAIN d : Fits(spc, d[i], List(m)[k])}) <= Len(d)
      BY <1>8
    <3>2. \A i \in 1 .. Len(d) : Fits(spc, d[i], RowAt(m, w[i]))
      BY <1>3
    <3> QED BY <1>2, <3>1, <3>2, FewEnough
  <2>3. Foremost(spc, d, m, w)
    BY <1>4, <2>1, <2>2, SortedForemost
  <2> QED BY <1>3, <1>4, <1>5, <1>8, <2>1, <2>3, KeyedEmpty
<1> QED BY <1>6, <1>7, <1>8

\* While the reading of a call to such a menu stands.
Lasting     == /\ phase \in {"steps", "ordering", "ok"} /\ ~disturbed /\ Storable(want)
               /\ ~spec.ordered \/ spec.key # NoKey
SettlingInv == Lasting => Settling(spec, want, dev[at], steps, todo)

\* The goal is one the router stores.
LEMMA GoalSendable ==
  ASSUME TypeOK, Storable(want)
  PROVE  Sendable(spec, want)
<1>1. want \in Seq(Range(want)) /\ (\A i \in 1 .. Len(want) : Free(spec, want[i])) /\ Unborn(spec)
  BY GoalFree
<1>2. DOMAIN want = 1 .. Len(want)
  BY <1>1
<1> QED BY <1>1, <1>2 DEF Sendable, Storable

\* The invariant is inductive.
LEMMA NextSettling == TypeOK /\ MenuInv /\ SettlingInv /\ [Next]_menuVars => SettlingInv'
<1> SUFFICES ASSUME TypeOK, MenuInv, SettlingInv, [Next]_menuVars, Lasting'
             PROVE  Settling(spec', want', dev'[at'], steps', todo')
  BY DEF SettlingInv
<1>g. UNCHANGED <<at, spec, want>>
  BY GoalKept
<1>c. CallTypeOK /\ at \in Targets /\ DOMAIN dev = Targets /\ want \in Seq(Range(want)) /\ Orderly(dev[at])
  BY GoalFree DEF TypeOK, CallTypeOK, MenuInv, MenusOrderly
<1>o. phase' \in {"steps", "ordering", "ok"} /\ ~disturbed' /\ Storable(want) /\ (~spec.ordered \/ spec.key # NoKey)
  BY <1>g DEF Lasting, Storable
<1>s. ASSUME phase \in {"steps", "ordering", "ok"}, ~disturbed
      PROVE  Settling(spec, want, dev[at], steps, todo)
  BY <1>o, <1>s DEF SettlingInv, Lasting
<1> DEFINE p == Fresh(at, spec, want)
<1>f. ASSUME UNCHANGED dev, p.err = "none", spec.ordered => Unstructural(p.steps),
             steps' = p.steps, todo' = DOMAIN p.steps
      PROVE  Settling(spec', want', dev'[at'], steps', todo')
  <2>1. Settling(spec, want, dev[at], p.steps, DOMAIN p.steps)
    BY <1>c, <1>f, FreshSettling
  <2> QED BY <1>f, <1>g, <2>1
<1>1. CASE Apply
  <2>1. Begin(at, spec, want, p)
    BY <1>1 DEF Apply
  <2>2. /\ UNCHANGED dev /\ steps' = p.steps
        /\ p.err = "none" /\ ~Structural(spec, p.steps) /\ todo' = FirstPass(spec, p.steps)
    BY <1>o, <2>1 DEF Begin
  <2>3. todo' = DOMAIN p.steps
    BY <2>2 DEF FirstPass
  <2>4. spec.ordered => Unstructural(p.steps)
    BY <2>2 DEF Structural, Unstructural
  <2> QED BY <1>f, <2>2, <2>3, <2>4
<1>2. CASE CallStep
  <2>1. CASE Replan
    <3>1. /\ p.err = "none" /\ \A i \in DOMAIN p.steps : p.steps[i].op = "move"
          /\ steps' = p.steps /\ todo' = DOMAIN p.steps /\ UNCHANGED dev
      BY <1>o, <2>1 DEF Replan, Fail
    <3> QED BY <1>f, <3>1 DEF Unstructural
  <2>2. CASE \E i \in todo : StepDone(i)
    <3>1. PICK i \in todo : StepDone(i)
      BY <2>2
    <3>2. /\ UNCHANGED <<phase, disturbed, steps>> /\ todo' = todo \ {i} /\ \A j \in todo : i <= j
          /\ Accepts(dev[at], spec, steps[i])
          /\ dev' = [dev EXCEPT ![at] = Perform(dev[at], steps[i])]
      BY <3>1 DEF StepDone, IsNext
    <3>3. Settling(spec, want, dev[at], steps, todo) /\ Sendable(spec, want)
      BY <1>o, <1>s, <3>2, GoalSendable
    <3>4. Settling(spec, want, Perform(dev[at], steps[i]), steps, todo \ {i})
      <4>1. CASE spec.ordered
        BY <1>c, <3>2, <3>3, <4>1, OrderedSettling
      <4>2. CASE ~spec.ordered
        BY <1>c, <3>2, <3>3, <4>2, UnorderedSettling
      <4> QED BY <4>1, <4>2
    <3>5. dev'[at] = Perform(dev[at], steps[i])
      BY <1>c, <3>2
    <3> QED BY <1>g, <3>2, <3>4, <3>5
  <2>3. CASE Finish
    <3>1. UNCHANGED <<dev, disturbed, steps, todo>> /\ phase \in {"steps", "ordering"}
      BY <2>3 DEF Finish
    <3> QED BY <1>g, <1>o, <1>s, <3>1
  <2>4. CASE ReplanLost \/ \E i \in todo : StepRefused(i) \/ StepLost(i)
    BY <1>o, <2>4 DEF ReplanLost, StepRefused, StepLost, Fail
  <2> QED BY <1>2, <2>1, <2>2, <2>3, <2>4 DEF CallStep
<1>3. CASE ApplyLost
  BY <1>3, <1>o DEF ApplyLost, Fail
<1>4. CASE HandStep \/ \E t \in Targets : Traffic(t)
  <2>1. disturbed' = TRUE
    BY <1>4 DEF HandStep, HandAdd, HandRemove, HandEdit, HandMove, ByHand, Traffic
  <2> QED BY <1>o, <2>1
<1>5. CASE UNCHANGED menuVars
  <2>1. UNCHANGED <<dev, phase, disturbed, steps, todo>>
    BY <1>5 DEF menuVars, callVars
  <2> QED BY <1>g, <1>o, <1>s, <2>1
<1> QED BY <1>1, <1>2, <1>3, <1>4, <1>5 DEF Next, Client

\* With no step left, a second reading makes the same match and finds nothing to do.
LEMMA ListFollows == TypeOK /\ MenuInv /\ SettlingInv => ListConverged
<1> SUFFICES ASSUME TypeOK, MenuInv, SettlingInv, phase = "ok", ~disturbed, Storable(want),
                    ~spec.ordered \/ (spec.key # NoKey /\ Uncontested)
             PROVE  /\ Fresh(at, spec, want).steps = <<>>
                    /\ spec.ordered => Fresh(at, spec, want).err = "none"
  BY DEF ListConverged
<1>1. Orderly(dev[at]) /\ want \in Seq(Range(want))
  BY GoalFree DEF TypeOK, CallTypeOK, MenuInv, MenusOrderly
<1>2. todo = {}
  BY DEF TypeOK, CallTypeOK, Running
<1>3. Settling(spec, want, dev[at], steps, {})
  BY <1>2 DEF SettlingInv, Lasting
<1> DEFINE m == dev[at]
<1>4. spec.ordered =>
        Cardinality({k \in DOMAIN List(m) : \E i \in DOMAIN want : Fits(spec, want[i], List(m)[k])}) <= Len(want)
  BY DEF Uncontested
<1>5. Orderly(m) /\ Settling(spec, want, m, steps, {})
  BY <1>1, <1>3
<1> HIDE DEF m
<1>6. /\ Plan(spec, want, List(m)).steps = <<>>
      /\ spec.ordered => Plan(spec, want, List(m)).err = "none"
  BY <1>1, <1>4, <1>5, SettlingEmpty
<1> QED BY <1>6 DEF Fresh, m

\* Apply converges on menus with a key and on menus without order, for any rows the
\* router stores as asked, any edits and any faults: a call that returned nil, with
\* nobody else at the router since its last reading, leaves nothing for the next one.
THEOREM ListsConverge == Spec => []ListConverged
<1>1. Init => MenuInv /\ SettlingInv
  <2> SUFFICES ASSUME Init PROVE MenuInv /\ SettlingInv
    OBVIOUS
  <2>1. MenuInv
    BY InitOrderly DEF Init
  <2> QED BY <2>1 DEF Init, MenuInit, SettlingInv, Lasting
<1>2. TypeOK /\ MenuInv /\ [Next]_menuVars => MenuInv'
  BY NextOrderly
<1> QED BY <1>1, <1>2, NextSettling, ListFollows, TypeCorrect, PTL DEF Spec
=============================================================================
