------------------------ MODULE PruneAuthorityProofs ------------------------
(***************************************************************************)
(* FirewallFilterReconciler implements PruneAuthority: the caches, copies, *)
(* plans and crashes of the controller are invisible in the authority it   *)
(* acts with.                                                              *)
(***************************************************************************)
EXTENDS FirewallFilterReconcilerProofs

\* What one request does to the ids on a menu: a create adds one, a delete takes
\* away the one it names, an update and a move leave them.
LEMMA PerformIds ==
  ASSUME NEW menu, NEW spc, NEW s, Accepts(menu, spc, s)
  PROVE  \/ DOMAIN Perform(menu, s).rows = DOMAIN menu.rows
         \/ \E id : DOMAIN Perform(menu, s).rows = DOMAIN menu.rows \cup {id}
         \/ /\ s.op = "delete" /\ s.id \in DOMAIN menu.rows
            /\ DOMAIN Perform(menu, s).rows = DOMAIN menu.rows \ {s.id}
<1>1. s.op \in {"create", "update", "delete", "move"}
  BY DEF Accepts
<1>2. CASE s.op = "create"
  BY <1>2 DEF Perform, Create
<1>3. CASE s.op = "update"
  BY <1>3 DEF Perform, Update
<1>4. CASE s.op = "delete"
  <2>1. s.id \in DOMAIN menu.rows
    BY <1>4 DEF Accepts
  <2> QED BY <1>4, <2>1 DEF Perform, Delete
<1>5. CASE s.op = "move"
  BY <1>5 DEF Perform, Move
<1> QED BY <1>1, <1>2, <1>3, <1>4, <1>5

\* A session that adopts is one under Prune.
AdoptsUnderPrune ==
  /\ pc \in {"preview", "apply"} /\ mode = "adopt" => snap.spec.unlisted = "prune"
  /\ pc = "applying" /\ mode = "adopt" => spec.unlisted = "prune"
  /\ pc = "applying" => spec.unlisted \in {"tolerate", "prune"}

\* Adoption is only ever entered for a Prune object, whose spec is the copy the
\* worker keeps.
LEMMA NextAdopts == TypeOK /\ AdoptsUnderPrune /\ [Next]_vars => AdoptsUnderPrune'
<1> SUFFICES ASSUME TypeOK, AdoptsUnderPrune, [Next]_vars PROVE AdoptsUnderPrune'
  OBVIOUS
<1> USE DEF AdoptsUnderPrune, statusVars, objVars, workVars, histVars, boundVars, worldVars,
            menuVars, callVars, envVars, Idle
<1>1. CASE \E m \in Menus : Start(m)
  BY <1>1 DEF Start, AddFinalizer, ReleaseOrphan, Get
<1>2. CASE Connect
  BY <1>2 DEF Connect
<1>3. CASE Elect
  BY <1>3 DEF Elect, NeedsAdoption, TypeOK
<1>4. CASE Preview
  BY <1>4 DEF Preview
<1>5. CASE StartApply
  <2> DEFINE s == IF mode = "delete" THEN DeleteAllStaticSpec ELSE MenuSpecFor(snap.spec.unlisted)
             d == IF mode = "delete" THEN <<>> ELSE snap.spec.rows
  <2>1. \/ pc' = "idle"
        \/ \E p : Begin(Target, s, d, p) /\ pc' = "applying" /\ UNCHANGED workVars
    BY <1>5 DEF StartApply
  <2>2. s.unlisted \in {"tolerate", "prune"} /\ (mode = "adopt" => s.unlisted = "prune")
    BY <1>5, MenuSpecsAssumption DEF StartApply, DeleteAllStaticSpec, MenuSpecFor, TypeOK
  <2>3. CASE pc' = "idle"
    BY <2>3
  <2>4. CASE \E p : Begin(Target, s, d, p) /\ pc' = "applying" /\ UNCHANGED workVars
    <3>1. spec' = s
      BY <2>4 DEF Begin
    <3> QED BY <2>2, <2>4, <3>1
  <2> QED BY <2>1, <2>3, <2>4
<1>6. CASE Applying
  BY <1>6, CallStepDeletes DEF Applying
<1>7. CASE Return \/ WorkerFails
  BY <1>7 DEF Return, WorkerFails, TrackUsageFails, ReadFails, Crash
<1>8. CASE OnRouter
  BY <1>8, RouterTypes DEF OnRouter, TypeOK
<1>9. CASE Environment /\ ~OnRouter
  BY <1>9 DEF Environment, UserCreate, UserEdit, UserApprove, UserDelete, LetGo, ConfChange, Sync, ByUser
<1>10. CASE UNCHANGED vars
  BY <1>10 DEF vars
<1> QED BY <1>1, <1>2, <1>3, <1>4, <1>5, <1>6, <1>7, <1>8, <1>9, <1>10
           DEF Next, Worker, WorkerStep, Environment

-----------------------------------------------------------------------------
\* The refinement mapping, by name.
Present  == [t \in Targets |-> DOMAIN dev[t].rows]
Sessions == IF pc = "applying" THEN {Session} ELSE {}

\* A step of the worker outside Apply shows at most another plan.
LEMMA Shows ==
  ASSUME TypeOK, UNCHANGED <<dev, edits, approved, completed>>, pc # "applying", pc' # "applying",
         \A k \in Menus \ {cur} : pending'[k] = pending[k]
  PROVE  Authority!Show
<1>1. Present' = Present
  BY DEF Present
<1>2. Sessions = {} /\ Sessions' = {}
  BY DEF Sessions
<1>3. cur \in Menus
  BY DEF TypeOK
<1> QED BY <1>1, <1>2, <1>3 DEF Authority!Show, Present, Sessions

\* setStatus writes one object.
LEMMA StatusShows ==
  ASSUME TypeOK,
         \/ UNCHANGED statusVars
         \/ \E r : SetReady(r)
         \/ \E r, b, a, p : SetStatus(r, b, a, p)
  PROVE  \A k \in Menus \ {cur} : pending'[k] = pending[k]
BY DEF TypeOK, SetReady, SetStatus, statusVars

\* A request of Apply adds or takes away one row of the router of the session.
LEMMA CallWorks ==
  ASSUME TypeOK, Authorised, AdoptsUnderPrune, Applying
  PROVE  [Authority!Next]_(Authority!vars)
<1> USE DEF statusVars, workVars, histVars, worldVars, boundVars
<1>1. /\ Session' = Session /\ pc = "applying" /\ pc' = "applying"
      /\ UNCHANGED <<pending, approved, completed>>
  BY CallStepDeletes DEF Applying, Session
<1>2. edits' = edits
  BY DEF Applying, CallStep, StepDone, StepRefused, StepLost, Replan, ReplanLost, Finish, envVars
<1>3. Sessions = {Session} /\ Sessions' = {Session}
  BY <1>1 DEF Sessions
<1> PICK s : s = Session
  OBVIOUS
<1>4. /\ s.owner = cur /\ s.conn = fp /\ s.conn[2] = at
      /\ s.kind = "prune" /\ mode # "delete" => spec.unlisted = "prune"
      /\ mode = "delete" => s.kind # "prune"
  BY <1>1 DEF Session, TypeOK, Target
<1>5. at \in Targets /\ DOMAIN dev = Targets
  BY DEF TypeOK, CallTypeOK
<1>6. CASE UNCHANGED dev
  BY <1>1, <1>2, <1>3, <1>6 DEF Authority!vars, Sessions
<1>7. CASE dev' # dev
  <2>1. PICK i \in todo : /\ Accepts(dev[at], spec, steps[i])
                          /\ dev' = [dev EXCEPT ![at] = Perform(dev[at], steps[i])]
    BY <1>7 DEF Applying, CallStep, StepDone, StepRefused, StepLost, Replan, ReplanLost, Finish
  <2> DEFINE new == DOMAIN Perform(dev[at], steps[i]).rows
  <2>2. Present' = [Present EXCEPT ![at] = new] /\ Present[at] = DOMAIN dev[at].rows
    BY <1>5, <2>1 DEF Present
  <2>3. \/ new = DOMAIN dev[at].rows
        \/ \E id : new = DOMAIN dev[at].rows \cup {id}
        \/ /\ steps[i].op = "delete" /\ steps[i].id \in DOMAIN dev[at].rows
           /\ new = DOMAIN dev[at].rows \ {steps[i].id}
    BY <2>1, PerformIds
  <2> HIDE DEF new
  <2>4. CASE new = DOMAIN dev[at].rows
    <3>1. Present' = Present
      BY <1>5, <2>2, <2>4 DEF Present
    <3> QED BY <1>1, <1>2, <1>3, <3>1 DEF Authority!vars, Sessions, Present
  <2>5. CASE \E id : new = DOMAIN dev[at].rows \cup {id}
    <3>1. PICK id : new = DOMAIN dev[at].rows \cup {id}
      BY <2>5
    <3>2. id \in Present'[at] /\ Present' = [Present EXCEPT ![at] = @ \cup {id}]
      BY <1>5, <2>2, <3>1 DEF Present
    <3>3. Authority!Insert(s)
      BY <1>1, <1>2, <1>3, <1>4, <3>2 DEF Authority!Insert, Authority!RouterOf, Present, Sessions
    <3>4. Authority!AtWork
      BY <1>1, <3>3 DEF Authority!AtWork
    <3> QED BY <3>4 DEF Authority!Next
  <2>6. CASE /\ steps[i].op = "delete" /\ steps[i].id \in DOMAIN dev[at].rows
             /\ new = DOMAIN dev[at].rows \ {steps[i].id}
    <3>1. /\ steps[i].id \in Present[at]
          /\ Present' = [Present EXCEPT ![at] = @ \ {steps[i].id}]
      BY <1>5, <2>2, <2>6 DEF Present
    <3>2. s.kind = "prune" => Authority!Granted(s, steps[i].id)
      <4> SUFFICES ASSUME s.kind = "prune" PROVE Authority!Granted(s, steps[i].id)
        OBVIOUS
      <4>1. MayDelete(cur, fp, steps[i].id)
        BY <1>1, <1>4, <2>6 DEF Authorised, DeletesApproved
      <4> QED BY <1>4, <4>1 DEF MayDelete, Authority!Granted, Authority!Names
    <3>3. Authority!Remove(s)
      BY <1>1, <1>2, <1>3, <1>4, <3>1, <3>2 DEF Authority!Remove, Authority!RouterOf, Present, Sessions
    <3>4. Authority!AtWork
      BY <1>1, <3>3 DEF Authority!AtWork
    <3> QED BY <3>4 DEF Authority!Next
  <2> QED BY <2>3, <2>4, <2>5, <2>6
<1> QED BY <1>6, <1>7

\* The worker's other steps: it opens a session, closes it, or shows a plan.
LEMMA WorkerWorks ==
  ASSUME TypeOK, Authorised, AdoptsUnderPrune, Worker \/ WorkerFails
  PROVE  [Authority!Next]_(Authority!vars)
<1> USE DEF statusVars, objVars, workVars, histVars, boundVars, worldVars, menuVars, envVars
<1>1. CASE \E m \in Menus : Start(m)
  BY <1>1, Shows DEF Start, AddFinalizer, ReleaseOrphan, Get, Authority!Next
<1>2. CASE Connect
  <2>1. \A k \in Menus \ {cur} : pending'[k] = pending[k]
    BY <1>2, StatusShows DEF Connect
  <2> QED BY <1>2, <2>1, Shows DEF Connect, Idle, Authority!Next
<1>3. CASE Elect
  <2>1. \A k \in Menus \ {cur} : pending'[k] = pending[k]
    BY <1>3, StatusShows DEF Elect
  <2> QED BY <1>3, <2>1, Shows DEF Elect, Idle, Authority!Next
<1>4. CASE Preview
  <2>1. \A k \in Menus \ {cur} : pending'[k] = pending[k]
    BY <1>4, StatusShows DEF Preview
  <2> QED BY <1>4, <2>1, Shows DEF Preview, Idle, Authority!Next
<1>5. CASE StartApply
  <2> DEFINE s == IF mode = "delete" THEN DeleteAllStaticSpec ELSE MenuSpecFor(snap.spec.unlisted)
             d == IF mode = "delete" THEN <<>> ELSE snap.spec.rows
  <2> PICK p :
        \/ /\ SetStatus("AdoptionPending", FALSE, snap.adoptedAt, PlanToken(fp, p.steps))
           /\ Idle /\ UNCHANGED <<dev, callVars, disturbed>>
        \/ Begin(Target, s, d, p) /\ pc' = "applying" /\ UNCHANGED <<statusVars, workVars>>
    BY <1>5 DEF StartApply
  <2>1. CASE /\ SetStatus("AdoptionPending", FALSE, snap.adoptedAt, PlanToken(fp, p.steps))
             /\ Idle /\ UNCHANGED <<dev, callVars, disturbed>>
    <3>1. \A k \in Menus \ {cur} : pending'[k] = pending[k]
      BY <2>1, StatusShows
    <3> QED BY <1>5, <2>1, <3>1, Shows DEF StartApply, Idle, Authority!Next
  <2>2. CASE Begin(Target, s, d, p) /\ pc' = "applying" /\ UNCHANGED <<statusVars, workVars>>
    <3>1. Present' = Present /\ UNCHANGED <<pending, approved, completed, edits>>
      BY <1>5, <2>2 DEF StartApply, Begin, Present
    <3>2. Sessions = {} /\ Sessions' = {Session'}
      BY <1>5, <2>2 DEF StartApply, Sessions
    <3>3. AdoptsUnderPrune' /\ TypeOK'
      BY <1>5, NextAdopts, NextTypes DEF Next, Worker, WorkerStep
    <3>4. /\ Session'.owner \in Menus /\ Session'.conn[2] \in Targets
          /\ Session'.kind \in {"tolerate", "prune", "teardown"}
      BY <2>2, <3>3 DEF Session, TypeOK, Target, AdoptsUnderPrune
    <3>5. Authority!Open
      BY <3>1, <3>2, <3>4 DEF Authority!Open, Authority!RouterOf, Authority!Kinds, Present, Sessions
    <3> QED BY <3>5 DEF Authority!Next
  <2> QED BY <2>1, <2>2
<1>6. CASE Applying
  BY <1>6, CallWorks
<1>7. CASE Return
  <2>1. /\ UNCHANGED <<dev, edits, approved>> /\ pc = "applying" /\ pc' = "idle"
    BY <1>7 DEF Return, Forget, Idle
  <2>2. \A k \in Menus \ {cur} : pending'[k] = pending[k]
    BY <1>7, StatusShows DEF Return, TypeOK
  <2>3. \/ UNCHANGED completed
        \/ mode = "adopt" /\ completed' = [completed EXCEPT ![cur] = @ \cup {fp}]
    BY <1>7 DEF Return, TypeOK
  <2>4. Present' = Present /\ Sessions = {Session} /\ Sessions' = {}
    BY <2>1 DEF Present, Sessions
  <2>5. Session.owner = cur /\ Session.conn = fp /\ (mode = "adopt" => Session.kind = "prune")
    BY <2>1 DEF Session, AdoptsUnderPrune
  <2>6. Authority!Close(Session)
    BY <2>1, <2>2, <2>3, <2>4, <2>5 DEF Authority!Close, Present, Sessions
  <2> QED BY <2>4, <2>6 DEF Authority!Next, Authority!AtWork, Sessions
<1>8. CASE TrackUsageFails \/ ReadFails
  <2>1. UNCHANGED statusVars \/ \E r : SetReady(r)
    BY <1>8 DEF TrackUsageFails, ReadFails
  <2>2. \A k \in Menus \ {cur} : pending'[k] = pending[k]
    BY <2>1, StatusShows
  <2> QED BY <1>8, <2>2, Shows DEF TrackUsageFails, ReadFails, Idle, Authority!Next
<1>9. CASE Crash
  <2>1. /\ UNCHANGED <<dev, edits, pending, approved, completed>> /\ pc' = "idle"
    BY <1>9 DEF Crash, Forget, Idle
  <2>2. CASE pc # "applying"
    BY <2>1, <2>2, Shows DEF Authority!Next
  <2>3. CASE pc = "applying"
    <3>1. Present' = Present /\ Sessions = {Session} /\ Sessions' = {}
      BY <2>1, <2>3 DEF Present, Sessions
    <3>2. Authority!Close(Session)
      BY <2>1, <3>1 DEF Authority!Close, Present, Sessions
    <3> QED BY <3>1, <3>2 DEF Authority!Next, Authority!AtWork, Sessions
  <2> QED BY <2>2, <2>3
<1> QED BY <1>1, <1>2, <1>3, <1>4, <1>5, <1>6, <1>7, <1>8, <1>9
           DEF Worker, WorkerStep, WorkerFails

\* People approve what is shown or change a router; the rest is invisible.
LEMMA EnvironmentWorks ==
  ASSUME TypeOK, Environment
  PROVE  [Authority!Next]_(Authority!vars)
<1> USE DEF statusVars, objVars, workVars, histVars, boundVars, worldVars, menuVars, callVars, envVars
<1>q. ASSUME UNCHANGED <<dev, pending, approved, completed, pc, cur, fp, mode, spec, edits>>
      PROVE  UNCHANGED Authority!vars
  BY <1>q DEF Authority!vars, Session
<1>1. ASSUME NEW m \in Menus, UserApprove(m) PROVE [Authority!Next]_(Authority!vars)
  <2>1. Present' = Present /\ Sessions' = Sessions
    BY <1>1 DEF UserApprove, ByUser, Present, Sessions, Session
  <2>2. Authority!Approve(m)
    BY <1>1, <2>1 DEF UserApprove, ByUser, Authority!Approve, Present, Sessions
  <2> QED BY <2>2 DEF Authority!Next, Authority!People
<1>2. ASSUME NEW m \in Menus, UserCreate(m) \/ UserEdit(m) \/ UserDelete(m) \/ LetGo(m)
      PROVE  [Authority!Next]_(Authority!vars)
  BY <1>2, <1>q DEF UserCreate, UserEdit, UserDelete, LetGo, ByUser
<1>3. ASSUME NEW c \in Configs, ConfChange(c) PROVE [Authority!Next]_(Authority!vars)
  BY <1>3, <1>q DEF ConfChange
<1>4. CASE Sync
  BY <1>4, <1>q DEF Sync
<1>5. CASE OnRouter /\ HandStep
  <2>1. PICK t \in Targets : \E menu : ByHand(t, menu)
    BY <1>5 DEF HandStep, HandAdd, HandRemove, HandEdit, HandMove
  <2>2. DOMAIN dev = Targets
    BY DEF TypeOK, CallTypeOK
  <2>3. /\ edits' = edits + 1
        /\ \A q \in Targets \ {t} : Present'[q] = Present[q]
    BY <2>1, <2>2 DEF ByHand, Present
  <2>4. Sessions' = Sessions /\ UNCHANGED <<pending, approved, completed>>
    BY <1>5, <2>1 DEF OnRouter, ByHand, Sessions, Session
  <2>5. Authority!ByHand(t)
    BY <2>3, <2>4 DEF Authority!ByHand, Present, Sessions
  <2> QED BY <2>5 DEF Authority!Next, Authority!People
<1>6. CASE OnRouter /\ \E t \in Targets : Traffic(t)
  <2>0. PICK t \in Targets : Traffic(t)
    BY <1>6
  <2>1. PICK id, f : dev' = [dev EXCEPT ![t] = Update(dev[t], id, f)]
    BY <2>0 DEF Traffic
  <2>2. \A q \in Targets : DOMAIN dev'[q].rows = DOMAIN dev[q].rows
    BY <2>1 DEF Update, TypeOK, CallTypeOK
  <2>3. Present' = Present
    BY <2>2 DEF Present
  <2>4. Sessions' = Sessions /\ UNCHANGED <<pending, approved, completed, edits>>
    BY <1>6 DEF OnRouter, Traffic, Sessions, Session
  <2> QED BY <2>3, <2>4 DEF Authority!vars, Present, Sessions
<1> QED BY <1>1, <1>2, <1>3, <1>4, <1>5, <1>6 DEF Environment, OnRouter

\* The controller implements the pruning protocol of ADR 0004 for every value of
\* the constants.
THEOREM ImplementsAuthority == Spec => PrunesByAuthority
<1>1. Init => AdoptsUnderPrune /\ Authority!Init
  BY DEF Init, MenuInit, AdoptsUnderPrune, Authority!Init
<1>2. TypeOK /\ AdoptsUnderPrune /\ [Next]_vars => AdoptsUnderPrune'
  BY NextAdopts
<1>3. TypeOK /\ Authorised /\ AdoptsUnderPrune /\ [Next]_vars => [Authority!Next]_(Authority!vars)
  <2> SUFFICES ASSUME TypeOK, Authorised, AdoptsUnderPrune, [Next]_vars
               PROVE  [Authority!Next]_(Authority!vars)
    OBVIOUS
  <2>1. CASE Worker \/ WorkerFails
    BY <2>1, WorkerWorks
  <2>2. CASE Environment
    BY <2>2, EnvironmentWorks
  <2>3. CASE UNCHANGED vars
    BY <2>3 DEF vars, menuVars, callVars, envVars, statusVars, histVars, workVars, Authority!vars, Session
  <2> QED BY <2>1, <2>2, <2>3 DEF Next
<1> QED BY <1>1, <1>2, <1>3, TypeCorrect, AuthorityKept, PTL
           DEF Spec, PrunesByAuthority, Authority!Spec
=============================================================================
