--------------------------- MODULE MenuApplyProofs --------------------------
(***************************************************************************)
(* What every step of MenuApply keeps, whoever calls it: the types of the  *)
(* call, the order of the menus, and that the plan being run addresses     *)
(* only rows that are not ignored.  The callers' proofs rest on this.      *)
(***************************************************************************)
EXTENDS MenuApply, MenuLemmas

\* Client.step: of the requests it sends only DELETE takes a row away, and only
\* the row it names.
LEMMA PerformKeepsRows ==
  ASSUME NEW menu, NEW spc, NEW s, Accepts(menu, spc, s)
  PROVE  \A id \in DOMAIN menu.rows \ DOMAIN Perform(menu, s).rows :
           s.op = "delete" /\ id = s.id
<1>1. s.op \in {"create", "update", "delete", "move"}
  BY DEF Accepts
<1>2. CASE s.op = "create"
  BY <1>2 DEF Perform, Create
<1>3. CASE s.op = "update"
  BY <1>3 DEF Perform, Update
<1>4. CASE s.op = "delete"
  BY <1>4 DEF Perform, Delete
<1>5. CASE s.op = "move"
  BY <1>5 DEF Perform, Move
<1> QED BY <1>1, <1>2, <1>3, <1>4, <1>5

-----------------------------------------------------------------------------
\* Types.

\* Starting a call keeps its types, given a router to call.
LEMMA BeginTypes ==
  ASSUME CallTypeOK, NEW t \in Targets, NEW s, NEW d, NEW p, Begin(t, s, d, p), UNCHANGED envVars
  PROVE  CallTypeOK'
BY DEF CallTypeOK, Begin, Running, FirstPass, envVars

\* A step of a call keeps its types.
LEMMA CallStepTypes ==
  ASSUME CallTypeOK, CallStep
  PROVE  CallTypeOK' /\ at' = at
<1> USE BoundsAssumption DEF CallTypeOK, envVars
<1>1. CASE \E i \in todo : StepDone(i)
  BY <1>1 DEF StepDone, Running
<1>2. CASE \E i \in todo : StepRefused(i)
  BY <1>2 DEF StepRefused, Fail, Running
<1>3. CASE \E i \in todo : StepLost(i)
  <2> PICK i \in todo : StepLost(i)
    BY <1>3
  <2>1. DOMAIN dev' = Targets
    BY DEF StepLost
  <2> QED BY <2>1 DEF StepLost, Fail, Running
<1>4. CASE Replan
  BY <1>4 DEF Replan, Fail, Running
<1>5. CASE ReplanLost
  BY <1>5 DEF ReplanLost, Fail, Running
<1>6. CASE Finish
  BY <1>6 DEF Finish, Running
<1> QED BY <1>1, <1>2, <1>3, <1>4, <1>5, <1>6 DEF CallStep

\* So do edits by hand and traffic, which leave the call alone.
LEMMA RouterTypes ==
  ASSUME CallTypeOK, HandStep \/ \E t \in Targets : Traffic(t)
  PROVE  CallTypeOK' /\ UNCHANGED callVars
<1> USE BoundsAssumption DEF CallTypeOK, callVars, envVars
<1>1. CASE HandStep
  <2> PICK t \in Targets : \E menu : ByHand(t, menu)
    BY <1>1 DEF HandStep, HandAdd, HandRemove, HandEdit, HandMove
  <2> QED BY DEF ByHand, Running
<1>2. CASE \E t \in Targets : Traffic(t)
  BY <1>2 DEF Traffic, Running
<1> QED BY <1>1, <1>2

\* Forgetting a finished call.
LEMMA ForgetTypes ==
  ASSUME CallTypeOK, Forget, edits' = edits, faults' \in 0 .. MaxFaults
  PROVE  CallTypeOK'
BY DEF CallTypeOK, Forget, Running

\* A step that does not touch the call or the routers keeps their types.
LEMMA QuietTypes ==
  ASSUME CallTypeOK, UNCHANGED menuVars
  PROVE  CallTypeOK'
BY DEF CallTypeOK, menuVars, callVars, envVars, Running

-----------------------------------------------------------------------------
\* Order.  Requests keep the menus orderly, because a move never names a row twice
\* nor puts one in front of itself.

Placed(x) ==
  x.op = "move" => x.order \in Seq(Nat) /\ Distinct(x.order) /\ ~In(x.before, x.order)
MenusOrderly == \A t \in Targets : Orderly(dev[t])
StepsPlaced  == \A i \in todo : Placed(steps[i])
MenuInv      == MenusOrderly /\ StepsPlaced

\* A move the router accepts can be carried out.
LEMMA PlacedPlaceable ==
  ASSUME NEW m, NEW spc, NEW x, x.op = "move", Accepts(m, spc, x), Placed(x)
  PROVE  Placeable(m, x.order, x.before)
<1>1. Range(x.order) \cup ({x.before} \ {NoID}) \subseteq DOMAIN m.rows
  BY DEF Accepts
<1>2. x.order \in Seq(Nat) /\ Distinct(x.order) /\ ~In(x.before, x.order)
  BY DEF Placed
<1>3. \A i \in 1 .. Len(x.order) : x.order[i] \in DOMAIN m.rows
  BY <1>1, <1>2 DEF Range
<1>4. x.order \in Seq(DOMAIN m.rows)
  BY <1>2, <1>3, SeqIn
<1> QED BY <1>1, <1>2, <1>4 DEF Placeable

\* One request.
LEMMA PerformOrderly ==
  ASSUME NEW m, Orderly(m), NEW spc, NEW x, Accepts(m, spc, x), Placed(x)
  PROVE  Orderly(Perform(m, x))
<1>1. x.op \in {"create", "update", "delete", "move"}
  BY DEF Accepts
<1>2. CASE x.op = "create"
  BY <1>2, OrderlyCreate DEF Perform
<1>3. CASE x.op = "update"
  BY <1>3, OrderlyUpdate DEF Perform
<1>4. CASE x.op = "delete"
  BY <1>4, OrderlyDelete DEF Perform
<1>5. CASE x.op = "move"
  BY <1>5, PlacedPlaceable, OrderlyMove DEF Perform
<1> QED BY <1>1, <1>2, <1>3, <1>4, <1>5

\* The steps of a fresh plan.
LEMMA FreshSound ==
  ASSUME NEW t, Orderly(dev[t]), NEW s, NEW W, NEW d \in Seq(W)
  PROVE  /\ \A i \in DOMAIN Fresh(t, s, d).steps :
              Sound(s, d, List(dev[t]), Fresh(t, s, d).steps[i]) /\ Placed(Fresh(t, s, d).steps[i])
         /\ (/\ Fresh(t, s, d).err = "none" /\ Len(d) = 0 /\ s.unlisted = "prune"
             /\ ~HasDelete(Fresh(t, s, d).steps))
              => Ours(s, List(dev[t])) = {} /\ Fresh(t, s, d).steps = <<>>
<1> DEFINE c == List(dev[t])
           p == Fresh(t, s, d)
           R == Range(c)
<1>1. c \in Seq(R) /\ \A k \in 1 .. Len(c) : c[k].id \in Nat
  BY ListIs
<1>2. p = Plan(s, d, c)
  BY DEF Fresh
<1>3. Ours(s, c) \subseteq DOMAIN dev[t].rows
  BY ListIs
<1>4. \A id \in DOMAIN dev[t].rows : id \in Nat /\ id # NoID
  BY DEF Orderly, NoID
<1> HIDE DEF c, p, R
<1>5. \A i \in DOMAIN p.steps : Sound(s, d, c, p.steps[i])
  BY <1>1, <1>2, PlanSound
<1>6. (p.err = "none" /\ Len(d) = 0 /\ s.unlisted = "prune" /\ ~HasDelete(p.steps))
        => Ours(s, c) = {} /\ p.steps = <<>>
  BY <1>1, <1>2, PlanSound
<1>7. ASSUME NEW x, Sound(s, d, c, x) PROVE Placed(x)
  <2> SUFFICES ASSUME x.op = "move" PROVE x.order \in Seq(Nat) /\ Distinct(x.order) /\ ~In(x.before, x.order)
    BY DEF Placed
  <2>1. /\ x.order \in Seq(Ours(s, c)) /\ Distinct(x.order)
        /\ x.before = NoID \/ ~In(x.before, x.order)
    BY <1>7 DEF Sound
  <2>2. \A i \in 1 .. Len(x.order) : x.order[i] \in Nat /\ x.order[i] # NoID
    BY <1>3, <1>4, <2>1
  <2>3. x.order \in Seq(Nat)
    BY <2>1, <2>2, SeqIn
  <2>4. ~In(NoID, x.order)
    BY <2>2 DEF In
  <2> QED BY <2>1, <2>3, <2>4
<1> QED BY <1>5, <1>6, <1>7 DEF c, p

\* The start of a call.
LEMMA BeginOrderly ==
  ASSUME MenuInv, NEW t \in Targets, NEW s, NEW W, NEW d \in Seq(W), NEW p, p = Fresh(t, s, d),
         Begin(t, s, d, p)
  PROVE  MenuInv'
<1>1. \A i \in DOMAIN p.steps : Placed(p.steps[i])
  BY FreshSound DEF MenuInv, MenusOrderly
<1>2. todo' \subseteq DOMAIN p.steps /\ steps' = p.steps /\ UNCHANGED dev
  BY DEF Begin, FirstPass
<1>3. MenusOrderly'
  BY <1>2 DEF MenuInv, MenusOrderly
<1>4. StepsPlaced'
  BY <1>1, <1>2 DEF StepsPlaced
<1> QED BY <1>3, <1>4 DEF MenuInv

\* A step of a call.
LEMMA CallStepOrderly ==
  ASSUME CallTypeOK, MenuInv, NEW W, want \in Seq(W), CallStep
  PROVE  MenuInv'
<1>1. ASSUME NEW i \in todo, Accepts(dev[at], spec, steps[i]),
             dev' = [dev EXCEPT ![at] = Perform(dev[at], steps[i])]
      PROVE  MenusOrderly'
  <2>1. Orderly(Perform(dev[at], steps[i]))
    BY <1>1, PerformOrderly DEF CallTypeOK, MenuInv, MenusOrderly, StepsPlaced
  <2> QED BY <1>1, <2>1 DEF CallTypeOK, MenuInv, MenusOrderly
<1>2. ASSUME NEW i \in todo, StepDone(i) PROVE MenuInv'
  <2>1. MenusOrderly'
    BY <1>1, <1>2 DEF StepDone
  <2>2. StepsPlaced'
    BY <1>2 DEF StepDone, MenuInv, StepsPlaced
  <2> QED BY <2>1, <2>2 DEF MenuInv
<1>3. ASSUME NEW i \in todo, StepRefused(i) PROVE MenuInv'
  BY <1>3 DEF StepRefused, Fail, MenuInv, MenusOrderly, StepsPlaced
<1>4. ASSUME NEW i \in todo, StepLost(i) PROVE MenuInv'
  <2>1. MenusOrderly'
    <3>1. CASE UNCHANGED dev
      BY <3>1 DEF MenuInv, MenusOrderly
    <3>2. CASE dev' # dev
      BY <1>1, <1>4, <3>2 DEF StepLost
    <3> QED BY <3>1, <3>2
  <2>2. StepsPlaced'
    BY <1>4 DEF StepLost, Fail, StepsPlaced
  <2> QED BY <2>1, <2>2 DEF MenuInv
<1>5. CASE Replan
  <2>1. MenusOrderly'
    BY <1>5 DEF Replan, MenuInv, MenusOrderly
  <2>2. todo' = {} \/ (steps' = Fresh(at, spec, want).steps /\ todo' = DOMAIN steps')
    BY <1>5 DEF Replan, Fail
  <2>3. \A i \in DOMAIN Fresh(at, spec, want).steps : Placed(Fresh(at, spec, want).steps[i])
    BY FreshSound DEF MenuInv, MenusOrderly, CallTypeOK
  <2>4. StepsPlaced'
    BY <2>2, <2>3 DEF StepsPlaced
  <2> QED BY <2>1, <2>4 DEF MenuInv
<1>6. CASE ReplanLost
  BY <1>6 DEF ReplanLost, Fail, MenuInv, MenusOrderly, StepsPlaced
<1>7. CASE Finish
  BY <1>7 DEF Finish, MenuInv, MenusOrderly, StepsPlaced
<1> QED BY <1>2, <1>3, <1>4, <1>5, <1>6, <1>7 DEF CallStep

\* People and traffic.
LEMMA RouterOrderly ==
  ASSUME CallTypeOK, MenuInv, HandStep \/ \E t \in Targets : Traffic(t)
  PROVE  MenuInv'
<1>1. \E t \in Targets : \E menu : Orderly(menu) /\ dev' = [dev EXCEPT ![t] = menu] /\ UNCHANGED <<todo, steps>>
  <2>1. CASE HandStep
    <3>1. PICK t \in Targets : HandAdd(t) \/ HandRemove(t) \/ HandEdit(t) \/ HandMove(t)
      BY <2>1 DEF HandStep
    <3>2. Orderly(dev[t])
      BY DEF MenuInv, MenusOrderly
    <3>3. \A menu : ByHand(t, menu) => dev' = [dev EXCEPT ![t] = menu] /\ UNCHANGED <<todo, steps>>
      BY DEF ByHand, callVars
    <3>4. CASE HandAdd(t)
      BY <3>2, <3>3, <3>4, OrderlyCreate DEF HandAdd
    <3>5. CASE HandRemove(t)
      BY <3>2, <3>3, <3>5, OrderlyDelete DEF HandRemove
    <3>6. CASE HandEdit(t)
      BY <3>2, <3>3, <3>6, OrderlyUpdate DEF HandEdit
    <3>7. CASE HandMove(t)
      <4>0. PICK id \in Static(t) : \E before \in (Static(t) \ {id}) \cup {NoID} :
              ByHand(t, Move(dev[t], <<id>>, before))
        BY <3>7 DEF HandMove
      <4>1. PICK before \in (Static(t) \ {id}) \cup {NoID} : ByHand(t, Move(dev[t], <<id>>, before))
        BY <4>0
      <4>2. id \in DOMAIN dev[t].rows /\ (before = NoID \/ (before \in DOMAIN dev[t].rows /\ before # id))
        BY DEF Static
      <4>5. Placeable(dev[t], <<id>>, before)
        BY <4>2, OnePlaceable
      <4>6. Orderly(Move(dev[t], <<id>>, before))
        BY <3>2, <4>5, OrderlyMove
      <4> QED BY <3>3, <4>1, <4>6
    <3> QED BY <3>1, <3>4, <3>5, <3>6, <3>7
  <2>2. CASE \E t \in Targets : Traffic(t)
    <3>0. PICK t \in Targets : Traffic(t)
      BY <2>2
    <3>1. PICK id, fields : dev' = [dev EXCEPT ![t] = Update(dev[t], id, fields)] /\ UNCHANGED <<todo, steps>>
      BY <3>0 DEF Traffic, callVars
    <3>2. Orderly(dev[t])
      BY DEF MenuInv, MenusOrderly
    <3> QED BY <3>1, <3>2, OrderlyUpdate
  <2> QED BY <2>1, <2>2
<1>2. MenusOrderly'
  BY <1>1 DEF CallTypeOK, MenuInv, MenusOrderly
<1>3. StepsPlaced'
  BY <1>1 DEF MenuInv, StepsPlaced
<1> QED BY <1>2, <1>3 DEF MenuInv

\* The menus as they are found.
LEMMA InitOrderly ==
  ASSUME MenuInit
  PROVE  MenuInv
<1>1. PICK start \in [Targets -> StartRows] : dev = [t \in Targets |-> MenuOf(start[t])]
  BY DEF MenuInit
<1>2. ASSUME NEW t \in Targets PROVE Orderly(dev[t])
  <2>1. start[t] \in Seq(Range(start[t]))
    BY StartRowsAssumption
  <2> QED BY <1>1, <2>1, OrderlyFound
<1> QED BY <1>2 DEF MenuInit, MenuInv, MenusOrderly, StepsPlaced
=============================================================================
