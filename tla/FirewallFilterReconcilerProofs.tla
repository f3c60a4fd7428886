------------------- MODULE FirewallFilterReconcilerProofs -------------------
(***************************************************************************)
(* What FirewallFilterReconciler guarantees for any set of objects, of     *)
(* ProviderConfigs and of routers, any specs and any number of edits,      *)
(* faults and retries: its types, that a prune deletes only what was       *)
(* approved or what an adopted connection owns, and that an object goes    *)
(* away only when the menu it owned is empty.                              *)
(*                                                                         *)
(* For approval the plan is opaque: what counts is the token of the plan   *)
(* that is run being the token of the plan that was approved.  Teardown    *)
(* needs to know what an empty plan means, from MenuLemmas.                *)
(***************************************************************************)
EXTENDS FirewallFilterReconciler, MenuApplyProofs

\* planToken keeps the operation and the id of every step.
LEMMA TokenFields ==
  ASSUME NEW f, NEW stps
  PROVE  /\ PlanToken(f, stps)[1] = f
         /\ DOMAIN PlanToken(f, stps)[2] = DOMAIN stps
         /\ \A i \in DOMAIN stps : /\ PlanToken(f, stps)[2][i].op = stps[i].op
                                   /\ PlanToken(f, stps)[2][i].id = stps[i].id
BY DEF PlanToken

-----------------------------------------------------------------------------
\* Types.

\* setStatus writes types.
LEMMA StatusTypes ==
  ASSUME TypeOK, NEW r, NEW b \in BOOLEAN, NEW a, NEW p, SetStatus(r, b, a, p)
  PROVE  /\ adopted' \in [Menus -> BOOLEAN]
         /\ DOMAIN adoptedAt' = Menus /\ DOMAIN pending' = Menus /\ DOMAIN ready' = Menus
BY DEF TypeOK, SetStatus, Merged, statusVars

\* setReady writes the status through SetStatus, so it keeps the same types.
LEMMA ReadyTypes ==
  ASSUME TypeOK, NEW r, SetReady(r)
  PROVE  /\ adopted' \in [Menus -> BOOLEAN]
         /\ DOMAIN adoptedAt' = Menus /\ DOMAIN pending' = Menus /\ DOMAIN ready' = Menus
BY DEF TypeOK, SetReady, SetStatus, Merged, statusVars

\* So does removeFinalizer.
LEMMA RemovalTypes ==
  ASSUME TypeOK, NEW m \in Menus, RemoveFinalizer(m)
  PROVE  life' \in [Menus -> Lives]
BY DEF TypeOK, RemoveFinalizer, Lives

\* The initial state is typed.
LEMMA InitTypes == Init => TypeOK
<1> SUFFICES ASSUME Init PROVE TypeOK
  OBVIOUS
<1>1. DOMAIN dev = Targets
  <2> PICK start \in [Targets -> StartRows] : dev = [t \in Targets |-> MenuOf(start[t])]
    BY DEF Init, MenuInit
  <2> QED OBVIOUS
<1>2. CallTypeOK
  <2>1. at \in Targets /\ phase = "idle" /\ todo = {} /\ disturbed = FALSE /\ edits = 0 /\ faults = 0
    BY DEF Init, MenuInit
  <2>2. edits \in 0 .. MaxEdits /\ faults \in 0 .. MaxFaults
    BY <2>1, BoundsAssumption
  <2>3. disturbed \in BOOLEAN
    BY <2>1
  <2> QED BY <1>1, <2>1, <2>2, <2>3 DEF CallTypeOK
<1>3. cur \in Menus
  BY SomeObject DEF Init
<1>4. mspec \in [Menus -> MenuSpecs]
  BY SomeObject DEF Init
<1>5. conf \in [Configs -> ConfValues]
  BY DEF Init
<1>6. life \in [Menus -> Lives] /\ adopted \in [Menus -> BOOLEAN]
  BY DEF Init, Lives
<1>7. seen.life = life /\ seen.mspec = mspec /\ seen.adopted = adopted
  BY DEF Init, Objects
<1> QED BY <1>2, <1>3, <1>4, <1>5, <1>6, <1>7, ReconcilerBounds DEF Init, TypeOK

\* Every action keeps the types.
LEMMA NextTypes == TypeOK /\ [Next]_vars => TypeOK'
<1> SUFFICES ASSUME TypeOK, [Next]_vars PROVE TypeOK'
  OBVIOUS
<1> USE MenuSpecsAssumption, ConfValuesAssumption, BoundsAssumption, ReconcilerBounds
<1> USE DEF statusVars, objVars, workVars, histVars, boundVars, worldVars, Lives
<1>c. CallTypeOK
  BY DEF TypeOK
<1>1. ASSUME NEW m \in Menus, AddFinalizer(m) PROVE TypeOK'
  BY <1>1, <1>c, QuietTypes DEF AddFinalizer, TypeOK, Target, menuVars, callVars
<1>2. ASSUME NEW m \in Menus, ReleaseOrphan(m) PROVE TypeOK'
  BY <1>2, <1>c, QuietTypes DEF ReleaseOrphan, RemoveFinalizer, TypeOK, Target, menuVars, callVars
<1>3. ASSUME NEW m \in Menus, Get(m) PROVE TypeOK'
  BY <1>3, <1>c, QuietTypes DEF Get, TypeOK, Target
<1>4. CASE Connect
  <2>1. snap.spec.config \in Configs
    BY <1>4 DEF Connect, TypeOK
  <2>2. CallTypeOK'
    BY <1>4, <1>c, QuietTypes DEF Connect
  <2>3. CASE conf[snap.spec.config].ok
    <3>1. Target' \in Targets
      BY <1>4, <2>1, <2>3 DEF Connect, TypeOK, Target, Fingerprint
    <3> QED BY <1>4, <2>1, <2>2, <2>3, <3>1 DEF Connect, TypeOK
  <2>4. CASE ~conf[snap.spec.config].ok
    <3>1. /\ adopted' \in [Menus -> BOOLEAN]
          /\ DOMAIN adoptedAt' = Menus /\ DOMAIN pending' = Menus /\ DOMAIN ready' = Menus
      BY <1>4, <2>4, ReadyTypes DEF Connect, TypeOK
    <3> QED BY <1>4, <2>1, <2>2, <2>4, <3>1 DEF Connect, TypeOK, Idle
  <2> QED BY <2>3, <2>4
<1>5. CASE TrackUsageFails
  <2>1. CallTypeOK'
    BY <1>5, <1>c DEF TrackUsageFails, CallTypeOK, Running, callVars
  <2> QED BY <1>5, <2>1, ReadyTypes DEF TrackUsageFails, TypeOK, Idle
<1>6. CASE Elect
  <2>1. CallTypeOK'
    BY <1>6, <1>c, QuietTypes DEF Elect
  <2>2. CASE OwnedByOther(cur, Target)
    <3>1. CASE mode = "delete"
      BY <1>6, <2>1, <2>2, <3>1 DEF Elect, TypeOK, Idle, RemoveFinalizer
    <3>2. CASE mode # "delete"
      BY <1>6, <2>1, <2>2, <3>2, ReadyTypes DEF Elect, TypeOK, Idle
    <3> QED BY <3>1, <3>2
  <2>3. CASE ~OwnedByOther(cur, Target)
    BY <1>6, <2>1, <2>3 DEF Elect, TypeOK, Target, menuVars, callVars
  <2> QED BY <2>2, <2>3
<1>7. CASE Preview
  <2>1. CallTypeOK'
    BY <1>7, <1>c, QuietTypes DEF Preview
  <2> PICK p :
        \/ SetReady("PlanError") /\ Idle
        \/ SetStatus("AdoptionPending", FALSE, snap.adoptedAt, PlanToken(fp, p.steps)) /\ Idle
        \/ /\ pc' = "apply" /\ token' = PlanToken(fp, p.steps)
           /\ UNCHANGED <<statusVars, cur, snap, fp, mode>>
    BY <1>7 DEF Preview
  <2>2. CASE SetReady("PlanError") /\ Idle
    BY <1>7, <2>1, <2>2, ReadyTypes DEF Preview, TypeOK, Idle
  <2>3. CASE SetStatus("AdoptionPending", FALSE, snap.adoptedAt, PlanToken(fp, p.steps)) /\ Idle
    <3>1. /\ adopted' \in [Menus -> BOOLEAN]
          /\ DOMAIN adoptedAt' = Menus /\ DOMAIN pending' = Menus /\ DOMAIN ready' = Menus
      BY <2>3, StatusTypes
    <3> QED BY <1>7, <2>1, <2>3, <3>1 DEF Preview, TypeOK, Idle
  <2>4. CASE /\ pc' = "apply" /\ token' = PlanToken(fp, p.steps)
             /\ UNCHANGED <<statusVars, cur, snap, fp, mode>>
    BY <1>7, <2>1, <2>4 DEF Preview, TypeOK, Target
  <2> QED BY <2>2, <2>3, <2>4
<1>8. CASE ReadFails
  <2>1. CallTypeOK'
    BY <1>8, <1>c DEF ReadFails, CallTypeOK, Running, callVars
  <2>2. UNCHANGED statusVars \/ \E r : SetReady(r)
    BY <1>8 DEF ReadFails, TypeOK
  <2> QED BY <1>8, <2>1, <2>2, ReadyTypes DEF ReadFails, TypeOK, Idle
<1>9. CASE StartApply
  <2> DEFINE s == IF mode = "delete" THEN DeleteAllStaticSpec ELSE MenuSpecFor(snap.spec.unlisted)
             d == IF mode = "delete" THEN <<>> ELSE snap.spec.rows
  <2> PICK p :
        \/ /\ SetStatus("AdoptionPending", FALSE, snap.adoptedAt, PlanToken(fp, p.steps))
           /\ Idle
           /\ UNCHANGED <<dev, callVars, disturbed>>
        \/ /\ Begin(Target, s, d, p)
           /\ pc' = "applying"
           /\ UNCHANGED <<statusVars, workVars>>
    BY <1>9 DEF StartApply
  <2>1. CASE /\ SetStatus("AdoptionPending", FALSE, snap.adoptedAt, PlanToken(fp, p.steps))
             /\ Idle
             /\ UNCHANGED <<dev, callVars, disturbed>>
    <3>1. /\ adopted' \in [Menus -> BOOLEAN]
          /\ DOMAIN adoptedAt' = Menus /\ DOMAIN pending' = Menus /\ DOMAIN ready' = Menus
      BY <2>1, StatusTypes
    <3>2. CallTypeOK'
      BY <1>9, <2>1, <1>c, QuietTypes DEF StartApply, menuVars
    <3> QED BY <1>9, <2>1, <3>1, <3>2 DEF StartApply, TypeOK, Idle
  <2>2. CASE /\ Begin(Target, s, d, p)
             /\ pc' = "applying"
             /\ UNCHANGED <<statusVars, workVars>>
    <3>1. Target \in Targets
      BY <1>9 DEF StartApply, TypeOK
    <3>2. CallTypeOK'
      BY <1>9, <2>2, <3>1, <1>c, BeginTypes DEF StartApply
    <3>3. at' = Target'
      BY <2>2 DEF Begin, Target
    <3> QED BY <1>9, <2>2, <3>1, <3>2, <3>3 DEF StartApply, TypeOK, Target
  <2> QED BY <2>1, <2>2
<1>10. CASE Applying
  <2>1. CallTypeOK' /\ at' = at
    BY <1>10, <1>c, CallStepTypes DEF Applying
  <2> QED BY <1>10, <2>1 DEF Applying, TypeOK, Target
<1>11. CASE Return
  <2>1. CallTypeOK'
    BY <1>11, <1>c, ForgetTypes DEF Return, CallTypeOK, envVars
  <2>2. life' \in [Menus -> Lives]
    <3>1. UNCHANGED life \/ RemoveFinalizer(cur)
      BY <1>11 DEF Return, TypeOK
    <3> QED BY <3>1, RemovalTypes DEF TypeOK
  <2>3. \/ UNCHANGED statusVars
        \/ SetReady("ApplyError")
        \/ SetStatus("Available", snap.adopted /\ snap.adoptedAt = fp, snap.adoptedAt, Nil)
        \/ SetStatus("Available", TRUE, fp, Nil)
    BY <1>11 DEF Return, TypeOK
  <2>4. /\ adopted' \in [Menus -> BOOLEAN]
        /\ DOMAIN adoptedAt' = Menus /\ DOMAIN pending' = Menus /\ DOMAIN ready' = Menus
    BY <2>3, ReadyTypes, StatusTypes DEF TypeOK
  <2>5. DOMAIN completed' = Menus
    BY <1>11 DEF Return, TypeOK
  <2> QED BY <1>11, <2>1, <2>2, <2>4, <2>5 DEF Return, TypeOK, Idle
<1>12. CASE Crash
  <2>1. CallTypeOK'
    BY <1>12, <1>c, ForgetTypes DEF Crash, CallTypeOK
  <2> QED BY <1>12, <2>1 DEF Crash, TypeOK, Idle
<1>13. ASSUME NEW m \in Menus,
              UserCreate(m) \/ UserEdit(m) \/ UserApprove(m) \/ UserDelete(m) \/ LetGo(m)
       PROVE  TypeOK'
  <2>1. UNCHANGED menuVars
    BY <1>13 DEF UserCreate, UserEdit, UserApprove, UserDelete, LetGo, ByUser
  <2>2. CallTypeOK'
    BY <2>1, <1>c, QuietTypes
  <2>3. at' = at
    BY <2>1 DEF menuVars, callVars
  <2>4. CASE LetGo(m)
    BY <2>2, <2>3, <2>4 DEF LetGo, TypeOK, Target
  <2>5. CASE UserCreate(m)
    BY <2>2, <2>3, <2>5 DEF UserCreate, ByUser, TypeOK, Target
  <2>6. CASE UserEdit(m) \/ UserApprove(m)
    BY <2>2, <2>3, <2>6 DEF UserEdit, UserApprove, ByUser, TypeOK, Target
  <2>7. CASE UserDelete(m)
    <3>1. life' \in [Menus -> Lives]
      BY <2>7 DEF UserDelete, TypeOK
    <3> QED BY <2>2, <2>3, <2>7, <3>1 DEF UserDelete, ByUser, TypeOK, Target
  <2> QED BY <1>13, <2>4, <2>5, <2>6, <2>7
<1>14. ASSUME NEW c \in Configs, ConfChange(c) PROVE TypeOK'
  <2>1. CallTypeOK' /\ at' = at
    BY <1>14, <1>c, QuietTypes DEF ConfChange, menuVars, callVars
  <2> QED BY <1>14, <2>1 DEF ConfChange, TypeOK, Target
<1>15. CASE OnRouter
  <2>1. CallTypeOK' /\ at' = at
    BY <1>15, <1>c, RouterTypes DEF OnRouter, callVars
  <2> QED BY <1>15, <2>1 DEF OnRouter, TypeOK, Target
<1>17. CASE Sync
  <2>1. CallTypeOK' /\ at' = at
    BY <1>17, <1>c, QuietTypes DEF Sync, menuVars, callVars
  <2>2. seen'.life = life /\ seen'.mspec = mspec /\ seen'.adopted = adopted
    BY <1>17 DEF Sync, Objects
  <2> QED BY <1>17, <2>1, <2>2 DEF Sync, TypeOK, Target
<1>16. CASE UNCHANGED vars
  <2>1. CallTypeOK' /\ at' = at
    BY <1>16, <1>c, QuietTypes DEF vars, menuVars, callVars
  <2> QED BY <1>16, <2>1 DEF vars, TypeOK, Target
<1> QED
  BY <1>1, <1>2, <1>3, <1>4, <1>5, <1>6, <1>7, <1>8, <1>9, <1>10, <1>11, <1>12, <1>13, <1>14, <1>15, <1>16, <1>17
  DEF Next, Worker, Start, WorkerStep, WorkerFails, Environment

\* Types hold in every state of every behaviour: in particular a call is only
\* ever made to the router the fingerprint was taken from.
THEOREM TypeCorrect == Spec => []TypeOK
BY InitTypes, NextTypes, PTL DEF Spec

-----------------------------------------------------------------------------
\* Authority.

\* What setStatus may be asked to write keeps Adopted earned, whatever the API
\* server holds by then: the connection stays as the worker read it and Adopted is
\* left or taken back ...
LEMMA StatusEarned ==
  ASSUME TypeOK, AdoptedEarned, NEW r, NEW b \in BOOLEAN, NEW p,
         SetStatus(r, b, snap.adoptedAt, p),
         b => snap.adopted, snap.adopted \in BOOLEAN, completed' = completed
  PROVE  AdoptedEarned' /\ \A m \in Menus : adoptedAt'[m] = adoptedAt[m]
BY DEF TypeOK, AdoptedEarned, SetStatus, Merged, statusVars

\* ... or both are set, once the adoption has run to its end.
LEMMA AdoptionEarned ==
  ASSUME TypeOK, AdoptedEarned, NEW r, NEW p,
         SetStatus(r, TRUE, fp, p),
         snap.adopted => snap.adoptedAt \in completed[cur],
         snap.adoptedAt # Nil => adoptedAt[cur] \in completed[cur],
         snap.adopted \in BOOLEAN,
         completed' = [completed EXCEPT ![cur] = @ \cup {fp}]
  PROVE  /\ AdoptedEarned'
         /\ \A m \in Menus : adoptedAt[m] \in completed[m] => adoptedAt'[m] \in completed'[m]
         /\ \A m \in Menus : completed[m] \subseteq completed'[m]
BY DEF TypeOK, AdoptedEarned, SetStatus, Merged, statusVars

\* Setting the condition alone keeps it earned.
LEMMA ReadyEarned ==
  ASSUME TypeOK, AdoptedEarned, NEW r, SetReady(r), completed' = completed
  PROVE  AdoptedEarned' /\ \A m \in Menus : adoptedAt'[m] = adoptedAt[m]
BY DEF TypeOK, AdoptedEarned, SetReady, SetStatus, Merged, statusVars

\* The store stays earned while it is not refreshed.
LEMMA SeenKept ==
  ASSUME SeenEarned, seen' = seen,
         \A m \in Menus : completed[m] \subseteq completed'[m],
         \A m \in Menus : approved[m] \subseteq approved'[m],
         \A m \in Menus : adoptedAt[m] \in completed[m] => adoptedAt'[m] \in completed'[m]
  PROVE  SeenEarned'
BY DEF SeenEarned

\* A worker that returns holds nothing that needs authority.
LEMMA IdleAuthorised ==
  ASSUME AdoptedEarned', NotesApproved, SeenEarned', Idle, UNCHANGED <<note, approved>>
  PROVE  Authorised'
BY DEF Authorised, NotesApproved, SnapshotEarned, TokenApproved, PlainPruneEarned,
       DeletesApproved, Idle

\* A step of a call never adds a delete to the plan: the second reading is
\* refused unless it asks for moves only.
LEMMA CallStepDeletes ==
  ASSUME CallStep
  PROVE  /\ spec' = spec
         /\ \A i \in todo' : steps'[i].op = "delete" => i \in todo /\ steps'[i] = steps[i]
<1>1. CASE \E i \in todo : StepDone(i)
  BY <1>1 DEF StepDone
<1>2. CASE \E i \in todo : StepRefused(i) \/ StepLost(i)
  BY <1>2 DEF StepRefused, StepLost, Fail
<1>3. CASE Replan
  <2> PICK ordered : \/ Fail
                     \/ /\ \A i \in DOMAIN ordered.steps : ordered.steps[i].op = "move"
                        /\ steps' = ordered.steps
                        /\ todo' = DOMAIN ordered.steps
                        /\ spec' = spec
    BY <1>3 DEF Replan
  <2> QED BY DEF Fail
<1>4. CASE ReplanLost \/ Finish
  BY <1>4 DEF ReplanLost, Finish, Fail
<1> QED BY <1>1, <1>2, <1>3, <1>4 DEF CallStep

\* A step of a call takes a row off a router only by running a delete of the plan
\* against the router the call is for.
LEMMA CallStepKeepsRows ==
  ASSUME CallTypeOK, CallStep, NEW t \in Targets,
         NEW id \in DOMAIN dev[t].rows \ DOMAIN dev'[t].rows
  PROVE  t = at /\ \E i \in todo : steps[i].op = "delete" /\ steps[i].id = id
<1>1. dev' # dev
  OBVIOUS
<1>2. PICK i \in todo : /\ Accepts(dev[at], spec, steps[i])
                        /\ dev' = [dev EXCEPT ![at] = Perform(dev[at], steps[i])]
  BY <1>1 DEF CallStep, StepDone, StepRefused, StepLost, Replan, ReplanLost, Finish
<1>3. t = at
  BY <1>2 DEF CallTypeOK
<1>4. id \in DOMAIN dev[at].rows \ DOMAIN Perform(dev[at], steps[i]).rows
  BY <1>2, <1>3 DEF CallTypeOK
<1> QED BY <1>2, <1>3, <1>4, PerformKeepsRows

\* Nothing is authorised at the start, and nothing needs to be.
LEMMA InitAuthorised == Init => Authorised
BY DEF Init, Objects, Authorised, AdoptedEarned, NotesApproved, SeenEarned, SnapshotEarned,
       TokenApproved, PlainPruneEarned, DeletesApproved

\* Every action keeps the authority.
LEMMA NextAuthorised == TypeOK /\ Authorised /\ [Next]_vars => Authorised'
<1> SUFFICES ASSUME TypeOK, Authorised, [Next]_vars PROVE Authorised'
  OBVIOUS
<1> USE DEF statusVars, objVars, workVars, histVars, boundVars, worldVars
<1>a. /\ AdoptedEarned /\ NotesApproved /\ SeenEarned /\ SnapshotEarned
      /\ TokenApproved /\ PlainPruneEarned /\ DeletesApproved
  BY DEF Authorised
\* Steps that leave the worker, the status and the call alone.
<1>q. ASSUME UNCHANGED <<statusVars, pc, workVars, callVars, completed>>,
             \A m \in Menus : approved[m] \subseteq approved'[m],
             NotesApproved', SeenEarned'
      PROVE  Authorised'
  BY <1>a, <1>q DEF Authorised, AdoptedEarned, SnapshotEarned, TokenApproved, PlainPruneEarned,
     DeletesApproved, MayDelete, TypeOK, callVars
\* Steps of the worker that write no connection keep the store earned.
<1>s. ASSUME UNCHANGED <<seen, approved, completed>>,
             \A m \in Menus : adoptedAt'[m] = adoptedAt[m]
      PROVE  SeenEarned'
  BY <1>a, <1>s DEF SeenEarned
\* A worker that returns with at most its condition written.
<1>r. ASSUME UNCHANGED statusVars \/ \E r : SetReady(r), Idle,
             UNCHANGED <<note, seen, approved, completed>>
      PROVE  Authorised'
  <2>1. AdoptedEarned' /\ \A m \in Menus : adoptedAt'[m] = adoptedAt[m]
    BY <1>a, <1>r, ReadyEarned DEF AdoptedEarned
  <2> QED BY <1>a, <1>r, <1>s, <2>1, IdleAuthorised
\* A worker that returns with a plan to approve.
<1>p. ASSUME NEW tok, SetStatus("AdoptionPending", FALSE, snap.adoptedAt, tok), Idle,
             snap.adopted \in BOOLEAN, UNCHANGED <<note, seen, approved, completed>>
      PROVE  Authorised'
  <2>1. AdoptedEarned' /\ \A m \in Menus : adoptedAt'[m] = adoptedAt[m]
    BY <1>a, <1>p, StatusEarned
  <2> QED BY <1>a, <1>p, <1>s, <2>1, IdleAuthorised
<1>1. ASSUME NEW m \in Menus, AddFinalizer(m) \/ ReleaseOrphan(m) PROVE Authorised'
  BY <1>1, <1>a, <1>q, <1>s DEF AddFinalizer, ReleaseOrphan, NotesApproved, menuVars
<1>2. ASSUME NEW m \in Menus, Get(m) PROVE Authorised'
  <2>1. SnapshotEarned'
    BY <1>2, <1>a DEF Get, SnapshotEarned, SeenEarned
  <2> QED BY <1>2, <1>a, <1>s, <2>1 DEF Get, Authorised, AdoptedEarned, NotesApproved, TokenApproved,
             PlainPruneEarned, DeletesApproved
<1>3. CASE Connect
  <2>1. CASE conf[snap.spec.config].ok
    BY <1>3, <1>a, <1>s, <2>1 DEF Connect, Authorised, AdoptedEarned, NotesApproved, SnapshotEarned,
       TokenApproved, PlainPruneEarned, DeletesApproved
  <2>2. CASE ~conf[snap.spec.config].ok
    BY <1>3, <1>r, <2>2 DEF Connect
  <2> QED BY <2>1, <2>2
<1>4. CASE TrackUsageFails
  BY <1>4, <1>r DEF TrackUsageFails
<1>5. CASE Elect
  <2>1. CASE OwnedByOther(cur, Target)
    BY <1>5, <1>r, <2>1 DEF Elect
  <2>2. CASE ~OwnedByOther(cur, Target)
    <3>1. PlainPruneEarned'
      BY <1>5, <1>a, <2>2 DEF Elect, PlainPruneEarned, SnapshotEarned, NeedsAdoption, TypeOK
    <3>2. TokenApproved'
      BY <1>5, <2>2 DEF Elect, TokenApproved, TypeOK
    <3> QED BY <1>5, <1>a, <1>s, <2>2, <3>1, <3>2 DEF Elect, Authorised, AdoptedEarned, NotesApproved,
               SnapshotEarned, DeletesApproved
  <2> QED BY <2>1, <2>2
<1>6. CASE Preview
  <2> PICK p :
        \/ SetReady("PlanError") /\ Idle
        \/ SetStatus("AdoptionPending", FALSE, snap.adoptedAt, PlanToken(fp, p.steps)) /\ Idle
        \/ /\ HasDelete(p.steps) => PlanToken(fp, p.steps) \in snap.note
           /\ pc' = "apply" /\ token' = PlanToken(fp, p.steps)
           /\ UNCHANGED <<statusVars, cur, snap, fp, mode>>
    BY <1>6 DEF Preview
  <2>1. CASE SetReady("PlanError") /\ Idle
    BY <1>6, <1>r, <2>1 DEF Preview
  <2>2. CASE SetStatus("AdoptionPending", FALSE, snap.adoptedAt, PlanToken(fp, p.steps)) /\ Idle
    BY <1>6, <1>p, <2>2 DEF Preview, TypeOK
  <2>3. CASE /\ HasDelete(p.steps) => PlanToken(fp, p.steps) \in snap.note
             /\ pc' = "apply" /\ token' = PlanToken(fp, p.steps)
             /\ UNCHANGED <<statusVars, cur, snap, fp, mode>>
    <3>1. TokenDeletes(PlanToken(fp, p.steps)) => HasDelete(p.steps)
      BY TokenFields DEF TokenDeletes, HasDelete
    <3>2. TokenApproved'
      BY <1>6, <1>a, <2>3, <3>1 DEF Preview, TokenApproved, SnapshotEarned, TokenDeletes
    <3>3. mode = "adopt"
      BY <1>6 DEF Preview, TypeOK
    <3> QED BY <1>6, <1>a, <1>s, <2>3, <3>2, <3>3 DEF Preview, Authorised, AdoptedEarned, NotesApproved,
               SnapshotEarned, PlainPruneEarned, DeletesApproved
  <2> QED BY <2>1, <2>2, <2>3
<1>7. CASE ReadFails
  <2>1. UNCHANGED statusVars \/ \E r : SetReady(r)
    BY <1>7 DEF ReadFails, TypeOK
  <2> QED BY <1>7, <1>r, <2>1 DEF ReadFails
<1>8. CASE StartApply
  <2> DEFINE s == IF mode = "delete" THEN DeleteAllStaticSpec ELSE MenuSpecFor(snap.spec.unlisted)
             d == IF mode = "delete" THEN <<>> ELSE snap.spec.rows
  <2> PICK p :
        \/ /\ SetStatus("AdoptionPending", FALSE, snap.adoptedAt, PlanToken(fp, p.steps))
           /\ Idle
        \/ /\ mode = "adopt" /\ p.err = "none" => PlanToken(fp, p.steps) = token
           /\ Begin(Target, s, d, p)
           /\ pc' = "applying"
           /\ UNCHANGED <<statusVars, workVars>>
    BY <1>8 DEF StartApply
  <2>1. CASE SetStatus("AdoptionPending", FALSE, snap.adoptedAt, PlanToken(fp, p.steps)) /\ Idle
    BY <1>8, <1>p, <2>1 DEF StartApply, TypeOK
  <2>2. CASE /\ mode = "adopt" /\ p.err = "none" => PlanToken(fp, p.steps) = token
             /\ Begin(Target, s, d, p)
             /\ pc' = "applying"
             /\ UNCHANGED <<statusVars, workVars>>
    <3>1. DeletesApproved'
      <4> SUFFICES ASSUME mode # "delete", s.unlisted = "prune",
                          NEW i \in todo', steps'[i].op = "delete"
                   PROVE  MayDelete(cur, fp, steps[i].id)'
        BY <1>8, <2>2 DEF StartApply, DeletesApproved, Begin
      <4>1. p.err = "none" /\ i \in DOMAIN p.steps /\ steps' = p.steps
        BY <2>2 DEF Begin, FirstPass
      <4>2. UNCHANGED <<approved, completed, cur, fp>>
        BY <1>8, <2>2 DEF StartApply
      <4>3. CASE mode = "adopt"
        <5>1. token[1] = fp /\ i \in DOMAIN token[2]
              /\ token[2][i].op = "delete" /\ token[2][i].id = p.steps[i].id
          BY <2>2, <4>1, <4>3, TokenFields
        <5>2. token \in approved[cur]
          BY <1>8, <1>a, <4>3, <5>1 DEF StartApply, TokenApproved, TokenDeletes
        <5> QED BY <4>1, <4>2, <5>1, <5>2 DEF MayDelete
      <4>4. CASE mode = "apply"
        <5>1. snap.spec.unlisted = "prune"
          BY <4>4 DEF MenuSpecFor
        <5> QED BY <1>8, <1>a, <4>2, <4>4, <5>1 DEF StartApply, PlainPruneEarned, MayDelete
      <4> QED BY <4>3, <4>4 DEF TypeOK
    <3> QED BY <1>8, <1>a, <1>s, <2>2, <3>1 DEF StartApply, Authorised, AdoptedEarned, NotesApproved,
               SnapshotEarned, TokenApproved, PlainPruneEarned
  <2> QED BY <2>1, <2>2
<1>9. CASE Applying
  <2>1. DeletesApproved'
    BY <1>9, <1>a, CallStepDeletes DEF Applying, DeletesApproved, MayDelete
  <2> QED BY <1>9, <1>a, <1>s, <2>1 DEF Applying, Authorised, AdoptedEarned, NotesApproved, SnapshotEarned,
             TokenApproved, PlainPruneEarned
<1>10. CASE Return
  <2>1. \/ UNCHANGED <<statusVars, completed>>
        \/ SetReady("ApplyError") /\ UNCHANGED completed
        \/ /\ SetStatus("Available", snap.adopted /\ snap.adoptedAt = fp, snap.adoptedAt, Nil)
           /\ UNCHANGED completed
        \/ /\ SetStatus("Available", TRUE, fp, Nil)
           /\ completed' = [completed EXCEPT ![cur] = @ \cup {fp}]
    BY <1>10 DEF Return, TypeOK
  <2>2. snap.adopted \in BOOLEAN /\ UNCHANGED <<note, seen, approved>> /\ Idle
    BY <1>10 DEF Return, TypeOK
  <2>3. CASE UNCHANGED completed /\ (UNCHANGED statusVars \/ SetReady("ApplyError"))
    BY <1>r, <2>2, <2>3
  <2>4. CASE /\ SetStatus("Available", snap.adopted /\ snap.adoptedAt = fp, snap.adoptedAt, Nil)
             /\ UNCHANGED completed
    <3> DEFINE b == snap.adopted /\ snap.adoptedAt = fp
    <3>1. b \in BOOLEAN /\ (b => snap.adopted)
      OBVIOUS
    <3> HIDE DEF b
    <3>2. SetStatus("Available", b, snap.adoptedAt, Nil)
      BY <2>4 DEF b
    <3>3. AdoptedEarned' /\ \A m \in Menus : adoptedAt'[m] = adoptedAt[m]
      BY <1>a, <2>2, <2>4, <3>1, <3>2, StatusEarned
    <3> QED BY <1>a, <1>s, <2>2, <2>4, <3>3, IdleAuthorised
  <2>5. CASE /\ SetStatus("Available", TRUE, fp, Nil)
             /\ completed' = [completed EXCEPT ![cur] = @ \cup {fp}]
    <3>1. /\ snap.adopted => snap.adoptedAt \in completed[cur]
          /\ snap.adoptedAt # Nil => adoptedAt[cur] \in completed[cur]
      BY <1>10, <1>a DEF Return, SnapshotEarned
    <3>2. /\ AdoptedEarned'
          /\ \A m \in Menus : adoptedAt[m] \in completed[m] => adoptedAt'[m] \in completed'[m]
          /\ \A m \in Menus : completed[m] \subseteq completed'[m]
      BY <1>a, <2>2, <2>5, <3>1, AdoptionEarned
    <3>3. SeenEarned'
      BY <1>a, <2>2, <3>2, SeenKept
    <3> QED BY <1>a, <2>2, <3>2, <3>3, IdleAuthorised
  <2> QED BY <2>1, <2>3, <2>4, <2>5
<1>11. CASE Crash
  BY <1>11, <1>r DEF Crash
<1>12. ASSUME NEW m \in Menus, UserApprove(m) PROVE Authorised'
  <2>1. NotesApproved' /\ \A n \in Menus : approved[n] \subseteq approved'[n]
    BY <1>12, <1>a DEF UserApprove, NotesApproved, TypeOK
  <2>2. SeenEarned'
    BY <1>12, <1>a, <2>1, SeenKept DEF UserApprove, ByUser
  <2> QED BY <1>12, <1>q, <2>1, <2>2 DEF UserApprove, ByUser, menuVars
<1>13. ASSUME NEW m \in Menus, UserCreate(m) \/ UserEdit(m) \/ UserDelete(m) \/ LetGo(m)
       PROVE  Authorised'
  BY <1>13, <1>a, <1>q, <1>s DEF UserCreate, UserEdit, UserDelete, LetGo, ByUser, NotesApproved, menuVars
<1>14. ASSUME NEW c \in Configs, ConfChange(c) PROVE Authorised'
  BY <1>14, <1>a, <1>q, <1>s DEF ConfChange, NotesApproved, menuVars
<1>15. CASE OnRouter
  <2>1. UNCHANGED callVars
    BY <1>15, RouterTypes DEF OnRouter, TypeOK
  <2> QED BY <1>15, <1>a, <1>q, <1>s, <2>1 DEF OnRouter, NotesApproved
<1>16. CASE Sync
  <2>1. SeenEarned'
    BY <1>16, <1>a DEF Sync, Objects, SeenEarned, AdoptedEarned, NotesApproved
  <2> QED BY <1>16, <1>a, <1>q, <2>1 DEF Sync, NotesApproved, menuVars
<1>17. CASE UNCHANGED vars
  BY <1>17, <1>a, <1>q, <1>s DEF vars, NotesApproved, menuVars
<1> QED
  BY <1>1, <1>2, <1>3, <1>4, <1>5, <1>6, <1>7, <1>8, <1>9, <1>10, <1>11, <1>12, <1>13, <1>14, <1>15, <1>16, <1>17
  DEF Next, Worker, Start, WorkerStep, WorkerFails, Environment

\* The authority to prune survives every interleaving of the worker with people,
\* configuration changes, hand edits, faults and crashes.
THEOREM AuthorityKept == Spec => []Authorised
BY TypeCorrect, InitAuthorised, NextAuthorised, PTL DEF Spec

\* A step of the worker that takes a row away had the authority to.
LEMMA NextPrunesApproved ==
  TypeOK /\ Authorised /\ [Next]_vars => [PruneStepApproved]_vars
<1> SUFFICES ASSUME TypeOK, Authorised, Next, ~UNCHANGED vars,
                    NEW t \in Targets, NEW id \in DOMAIN dev[t].rows \ DOMAIN dev'[t].rows,
                    todo' # todo, mode # "delete", spec.unlisted = "prune"
             PROVE  t = Target /\ MayDelete(cur, fp, id)
  BY DEF PruneStepApproved
<1>1. dev' # dev
  OBVIOUS
<1>2. Applying
  <2>1. ~OnRouter
    BY RouterTypes DEF OnRouter, TypeOK, callVars
  <2>2. ~StartApply
    BY <1>1 DEF StartApply, Begin
  <2>3. ~(Return \/ Crash)
    BY <1>1 DEF Return, Crash, Forget
  <2>4. ~(Connect \/ Elect \/ Preview \/ TrackUsageFails \/ ReadFails)
    BY <1>1 DEF Connect, Elect, Preview, TrackUsageFails, ReadFails, menuVars
  <2>5. ~(\E m \in Menus : Start(m))
    BY <1>1 DEF Start, AddFinalizer, ReleaseOrphan, Get, menuVars
  <2>6. ~(\E m \in Menus : UserCreate(m) \/ UserEdit(m) \/ UserApprove(m) \/ UserDelete(m) \/ LetGo(m))
    BY <1>1 DEF UserCreate, UserEdit, UserApprove, UserDelete, LetGo, ByUser, menuVars
  <2>7. ~((\E c \in Configs : ConfChange(c)) \/ Sync)
    BY <1>1 DEF ConfChange, Sync, menuVars
  <2> QED BY <2>1, <2>2, <2>3, <2>4, <2>5, <2>6, <2>7
             DEF Next, Worker, WorkerStep, WorkerFails, Environment
<1>3. t = at /\ \E i \in todo : steps[i].op = "delete" /\ steps[i].id = id
  BY <1>2, CallStepKeepsRows DEF Applying, TypeOK
<1> QED BY <1>2, <1>3 DEF Applying, TypeOK, Authorised, DeletesApproved

\* ADR 0004 for every value of the constants: the first destructive prune over a
\* connection needs an approval that names the row.
THEOREM FirstPruneNeedsApproval == Spec => FirstPruneApproved
BY TypeCorrect, AuthorityKept, NextPrunesApproved, PTL DEF Spec, FirstPruneApproved

-----------------------------------------------------------------------------
\* Ownership.

\* Every ProviderConfig resolves, and all of them to one router.
OneTarget == \A v, w \in ConfValues : v.ok /\ v.target = w.target

\* Objects come in the order of their seniority, in the API server and in the
\* store, which may be behind but knows nothing the API server does not.
InOrder(lives) ==
  \A m, k \in Menus : Seniority[m] < Seniority[k] /\ lives[k] # "absent" => lives[m] # "absent"
StoreBehind ==
  \A m \in Menus : /\ seen.life[m] # "absent" => life[m] # "absent"
                   /\ seen.life[m] \in {"released", "gone"} => life[m] \in {"released", "gone"}

\* SoleWriter from the election on: the object at work was in the store when it
\* was elected, so every older one was too, and lost its say before that.
Elected ==
  /\ InOrder(life) /\ InOrder(seen.life) /\ StoreBehind
  /\ pc # "idle" => seen.life[cur] # "absent"
  /\ pc = "elect" => \E v \in ConfValues : Target = v.target
  /\ pc \in {"preview", "apply", "applying"} =>
       \A k \in Menus : life[k] \in HasSay => Seniority[cur] <= Seniority[k]

\* Once created, an object only moves towards its end.
LEMMA LifeForward ==
  ASSUME TypeOK, [Next]_vars, \A m \in Menus : ~UserCreate(m), NEW m \in Menus
  PROVE  /\ life[m] = "absent" <=> life'[m] = "absent"
         /\ life[m] \in {"released", "gone"} => life'[m] \in {"released", "gone"}
<1> USE DEF TypeOK, Lives, statusVars, objVars, workVars, histVars, boundVars, worldVars
<1>1. ASSUME NEW k \in Menus, RemoveFinalizer(k)
      PROVE  /\ life[m] = "absent" <=> life'[m] = "absent"
             /\ life[m] \in {"released", "gone"} => life'[m] \in {"released", "gone"}
  BY <1>1 DEF RemoveFinalizer
<1>2. CASE UNCHANGED life
  BY <1>2
<1>3. ASSUME NEW k \in Menus, AddFinalizer(k)
      PROVE  /\ life[m] = "absent" <=> life'[m] = "absent"
             /\ life[m] \in {"released", "gone"} => life'[m] \in {"released", "gone"}
  BY <1>3 DEF AddFinalizer
<1>4. ASSUME NEW k \in Menus, UserDelete(k)
      PROVE  /\ life[m] = "absent" <=> life'[m] = "absent"
             /\ life[m] \in {"released", "gone"} => life'[m] \in {"released", "gone"}
  BY <1>4 DEF UserDelete
<1>5. ASSUME NEW k \in Menus, LetGo(k)
      PROVE  /\ life[m] = "absent" <=> life'[m] = "absent"
             /\ life[m] \in {"released", "gone"} => life'[m] \in {"released", "gone"}
  BY <1>5 DEF LetGo
<1>6. CASE WorkerStep
  <2>1. UNCHANGED life \/ RemoveFinalizer(cur)
    BY <1>6 DEF WorkerStep, Connect, Elect, Preview, StartApply, Applying, Return
  <2> QED BY <1>1, <1>2, <2>1
<1>7. CASE WorkerFails \/ OnRouter \/ Sync \/ (\E c \in Configs : ConfChange(c))
  BY <1>2, <1>7 DEF WorkerFails, TrackUsageFails, ReadFails, Crash, OnRouter, Sync, ConfChange
<1>8. ASSUME NEW k \in Menus, ReleaseOrphan(k) \/ Get(k) \/ UserEdit(k) \/ UserApprove(k)
      PROVE  UNCHANGED life \/ RemoveFinalizer(k)
  BY <1>8 DEF ReleaseOrphan, Get, UserEdit, UserApprove
<1>9. CASE UNCHANGED vars
  BY <1>2, <1>9 DEF vars
<1> QED BY <1>1, <1>2, <1>3, <1>4, <1>5, <1>6, <1>7, <1>8, <1>9
           DEF Next, Worker, Start, Environment

\* Nothing exists at the start.
LEMMA InitElected == Init => Elected
BY DEF Init, Objects, Elected, InOrder, StoreBehind, HasSay

\* What the steps other than Get, Elect, Sync and UserCreate leave alone.
LEMMA KeepsWork ==
  ASSUME TypeOK, [Next]_vars,
         \A m \in Menus : ~UserCreate(m) /\ ~Get(m), ~Elect, ~Sync
  PROVE  /\ seen' = seen
         /\ pc' # "idle" => pc # "idle" /\ cur' = cur
         /\ pc' = "elect" => Connect \/ (pc = "elect" /\ fp' = fp)
         /\ pc' \in {"preview", "apply", "applying"} => pc \in {"preview", "apply", "applying"}
<1> USE DEF statusVars, objVars, workVars, histVars, boundVars, worldVars, Idle
<1>1. CASE \E m \in Menus : Start(m)
  BY <1>1 DEF Start, AddFinalizer, ReleaseOrphan
<1>2. CASE Connect
  BY <1>2 DEF Connect
<1>3. CASE Preview
  BY <1>3 DEF Preview
<1>4. CASE StartApply
  BY <1>4 DEF StartApply
<1>5. CASE Applying
  BY <1>5 DEF Applying
<1>6. CASE Return
  BY <1>6 DEF Return
<1>7. CASE WorkerFails
  BY <1>7 DEF WorkerFails, TrackUsageFails, ReadFails, Crash
<1>8. CASE Environment
  BY <1>8 DEF Environment, UserEdit, UserApprove, UserDelete, LetGo, ConfChange, OnRouter, ByUser
<1>9. CASE UNCHANGED vars
  BY <1>9 DEF vars
<1> QED BY <1>1, <1>2, <1>3, <1>4, <1>5, <1>6, <1>7, <1>8, <1>9 DEF Next, Worker, WorkerStep

\* Every action keeps the election's outcome.
LEMMA NextElected == OneTarget /\ TypeOK /\ Elected /\ [Next]_vars => Elected'
<1> SUFFICES ASSUME OneTarget, TypeOK, Elected, [Next]_vars PROVE Elected'
  OBVIOUS
<1> USE SeniorityAssumption
<1> USE DEF statusVars, objVars, workVars, histVars, boundVars, worldVars
<1>a. /\ InOrder(life) /\ InOrder(seen.life) /\ StoreBehind
      /\ pc # "idle" => seen.life[cur] # "absent"
      /\ pc = "elect" => \E v \in ConfValues : Target = v.target
      /\ pc \in {"preview", "apply", "applying"} =>
           \A k \in Menus : life[k] \in HasSay => Seniority[cur] <= Seniority[k]
  BY DEF Elected
<1>t. life \in [Menus -> Lives] /\ seen.life \in [Menus -> Lives] /\ cur \in Menus
  BY DEF TypeOK
<1>1. ASSUME NEW m \in Menus, UserCreate(m) PROVE Elected'
  <2>1. /\ life' = [life EXCEPT ![m] = "new"] /\ life[m] = "absent"
        /\ \A k \in Menus : Seniority[k] < Seniority[m] => life[k] # "absent"
        /\ UNCHANGED <<seen, pc, cur>>
    BY <1>1 DEF UserCreate, ByUser
  <2>2. InOrder(life')
    BY <1>a, <1>t, <2>1 DEF InOrder
  <2>3. StoreBehind'
    BY <1>a, <1>t, <2>1 DEF StoreBehind
  <2>4. ASSUME pc \in {"preview", "apply", "applying"}, NEW k \in Menus, life'[k] \in HasSay
        PROVE  Seniority[cur] <= Seniority[k]
    <3>1. CASE k # m
      BY <1>a, <1>t, <2>1, <2>4, <3>1
    <3>2. CASE k = m
      <4>1. life[cur] # "absent"
        BY <1>a, <1>t, <2>4 DEF StoreBehind
      <4> QED BY <1>a, <1>t, <2>1, <3>2, <4>1 DEF InOrder
    <3> QED BY <3>1, <3>2
  <2>5. Target' = Target
    BY <1>1 DEF UserCreate, ByUser, Target
  <2> QED BY <1>a, <2>1, <2>2, <2>3, <2>4, <2>5 DEF Elected
<1> SUFFICES ASSUME \A m \in Menus : ~UserCreate(m) PROVE Elected'
  BY <1>1
<1>f. \A m \in Menus : /\ life[m] = "absent" <=> life'[m] = "absent"
                       /\ life[m] \in {"released", "gone"} => life'[m] \in {"released", "gone"}
  BY LifeForward
<1>t2. life' \in [Menus -> Lives]
  BY NextTypes DEF TypeOK
<1>2. InOrder(life')
  BY <1>a, <1>f DEF InOrder
<1>3. \A k \in Menus : life'[k] \in HasSay => life[k] \in HasSay
  BY <1>f, <1>t, <1>t2 DEF HasSay, Lives
<1>4. seen' = seen => StoreBehind'
  BY <1>a, <1>f, <1>t DEF StoreBehind
<1>5. CASE Sync
  <2>1. seen'.life = life /\ UNCHANGED <<life, pc, cur>> /\ Target' = Target
    BY <1>5 DEF Sync, Objects, Target
  <2> QED BY <1>a, <1>t, <2>1 DEF Elected, StoreBehind, InOrder
<1>6. ASSUME NEW m \in Menus, Get(m) PROVE Elected'
  <2>1. seen' = seen /\ pc' = "connect" /\ cur' = m /\ seen.life[m] # "absent"
    BY <1>6 DEF Get
  <2> QED BY <1>a, <1>2, <1>4, <2>1 DEF Elected
<1>7. CASE Elect
  <2>1. seen' = seen /\ pc = "elect" /\ cur' = cur
    BY <1>7 DEF Elect, Idle
  <2>2. CASE OwnedByOther(cur, Target)
    <3>1. pc' = "idle"
      BY <1>7, <2>2 DEF Elect, Idle
    <3> QED BY <1>a, <1>2, <1>4, <2>1, <3>1 DEF Elected
  <2>3. CASE ~OwnedByOther(cur, Target)
    <3>1. ASSUME NEW k \in Menus, life[k] \in HasSay, Seniority[k] < Seniority[cur]
          PROVE  FALSE
      <4>1. k # cur
        BY <3>1, <1>t
      <4>2. seen.life[k] # "absent"
        BY <1>a, <1>t, <2>1, <3>1 DEF InOrder
      <4>3. seen.life[k] \in HasSay
        BY <1>a, <1>t, <3>1, <4>2 DEF StoreBehind, HasSay, Lives
      <4>4. conf[seen.mspec[k].config] \in ConfValues
        BY MenuSpecsAssumption DEF TypeOK
      <4>5. \E v \in ConfValues : Target = v.target
        BY <1>a, <2>1
      <4>6. Claims(cur, k, Target)
        BY <4>1, <4>3, <4>4, <4>5 DEF Claims, OneTarget
      <4> QED BY <2>3, <3>1, <4>1, <4>6 DEF OwnedByOther
    <3>2. \A k \in Menus : life[k] \in HasSay => Seniority[cur] <= Seniority[k]
      BY <1>t, <3>1
    <3>3. pc' \in {"preview", "apply"}
      BY <1>7, <2>3 DEF Elect
    <3> QED BY <1>a, <1>2, <1>3, <1>4, <2>1, <3>2, <3>3 DEF Elected
  <2> QED BY <2>2, <2>3
<1>8. CASE ~Sync /\ ~Elect /\ \A m \in Menus : ~Get(m)
  <2>1. /\ seen' = seen
        /\ pc' # "idle" => pc # "idle" /\ cur' = cur
        /\ pc' = "elect" => Connect \/ (pc = "elect" /\ fp' = fp)
        /\ pc' \in {"preview", "apply", "applying"} => pc \in {"preview", "apply", "applying"}
    BY <1>8, KeepsWork
  <2>2. ASSUME Connect, pc' = "elect" PROVE \E v \in ConfValues : Target' = v.target
    <3>1. conf[snap.spec.config] \in ConfValues
      BY <2>2, MenuSpecsAssumption DEF Connect, TypeOK
    <3> QED BY <2>2, <3>1 DEF Connect, Idle, Fingerprint, Target
  <2>3. pc' = "elect" => \E v \in ConfValues : Target' = v.target
    BY <1>a, <2>1, <2>2 DEF Target
  <2>4. pc' # "idle" => seen'.life[cur'] # "absent"
    BY <1>a, <2>1
  <2>5. pc' \in {"preview", "apply", "applying"} =>
          \A k \in Menus : life'[k] \in HasSay => Seniority[cur'] <= Seniority[k]
    BY <1>a, <1>3, <2>1
  <2> QED BY <1>a, <1>2, <1>4, <2>1, <2>3, <2>4, <2>5 DEF Elected
<1> QED BY <1>5, <1>6, <1>7, <1>8

\* The router has one writer at a time, the oldest object with a say, whatever the
\* number of objects, the lag of the store and the edits, deletions and crashes,
\* as long as every ProviderConfig resolves to that router.
THEOREM OneWriter == ASSUME OneTarget PROVE Spec => []SoleWriter
<1>1. Init => Elected
  BY InitElected
<1>2. TypeOK /\ Elected /\ [Next]_vars => Elected'
  BY NextElected
<1>3. Elected /\ TypeOK => SoleWriter
  BY SeniorityAssumption DEF Elected, SoleWriter
<1> QED BY <1>1, <1>2, <1>3, TypeCorrect, PTL DEF Spec

-----------------------------------------------------------------------------
\* Teardown.  Here the plan is not opaque: a plan that wants nothing, prunes and
\* finds nothing to delete has seen a menu with no static row.

\* The rows a deletion is called with, and what each phase of it knows.
TearingDown == pc = "applying" /\ mode = "delete"
Emptied ==
  TearingDown => /\ spec = DeleteAllStaticSpec /\ want = <<>>
                 /\ phase \in {"steps", "ordering", "ok"} => todo = {} /\ (~disturbed => Static(at) = {})
TeardownInv == MenuInv /\ want \in Seq(Range(want)) /\ Emptied

\* Before any call.
LEMMA InitTeardown == Init => TeardownInv
<1> SUFFICES ASSUME Init PROVE TeardownInv
  OBVIOUS
<1>1. MenuInv
  BY InitOrderly DEF Init
<1>2. want = <<>> /\ pc = "idle"
  BY DEF Init
<1>3. want \in Seq(Range(want))
  BY <1>2
<1> QED BY <1>1, <1>2, <1>3 DEF TeardownInv, Emptied, TearingDown

\* A reading that calls for no delete shows that no static row is left.
LEMMA NothingToDelete ==
  ASSUME NEW t, Orderly(dev[t]), Fresh(t, DeleteAllStaticSpec, <<>>).err = "none",
         ~HasDelete(Fresh(t, DeleteAllStaticSpec, <<>>).steps)
  PROVE  /\ Fresh(t, DeleteAllStaticSpec, <<>>).steps = <<>>
         /\ {id \in DOMAIN dev[t].rows :
              ~\E sel \in DeleteAllStaticSpec.ignore : Subset(sel, dev[t].rows[id])} = {}
<1>1. <<>> \in Seq({}) /\ Len(<<>>) = 0
  OBVIOUS
<1>2. DeleteAllStaticSpec.unlisted = "prune"
  BY DEF DeleteAllStaticSpec, MenuSpecFor
<1>3. /\ Ours(DeleteAllStaticSpec, List(dev[t])) = {}
      /\ Fresh(t, DeleteAllStaticSpec, <<>>).steps = <<>>
  BY <1>1, <1>2, FreshSound
<1>4. {id \in DOMAIN dev[t].rows :
        ~\E sel \in DeleteAllStaticSpec.ignore : Subset(sel, dev[t].rows[id])} = {}
  BY <1>3, ListIs
<1> QED BY <1>3, <1>4

\* What a plan of that kind is taken for.
LEMMA NoDelete ==
  ASSUME NEW stps
  PROVE  /\ ~Structural(DeleteAllStaticSpec, stps) => ~HasDelete(stps)
         /\ (\A i \in DOMAIN stps : stps[i].op = "move") => ~HasDelete(stps)
BY DEF Structural, HasDelete, DeleteAllStaticSpec, MenuSpecFor

\* The start of a call.
LEMMA StartTeardown ==
  ASSUME TypeOK, TeardownInv, StartApply
  PROVE  TeardownInv'
<1> DEFINE s == IF mode = "delete" THEN DeleteAllStaticSpec ELSE MenuSpecFor(snap.spec.unlisted)
           d == IF mode = "delete" THEN <<>> ELSE snap.spec.rows
<1> PICK p : /\ p = Fresh(Target, s, d)
             /\ \/ /\ pc' = "idle"
                   /\ UNCHANGED <<dev, callVars, disturbed>>
                \/ /\ Begin(Target, s, d, p)
                   /\ pc' = "applying"
                   /\ UNCHANGED workVars
  BY DEF StartApply, Idle
<1>t. Target \in Targets /\ snap.spec \in MenuSpecs
  BY DEF StartApply, TypeOK
<1>d. d \in Seq(Range(d))
  <2>1. CASE mode = "delete"
    BY <2>1
  <2>2. CASE mode # "delete"
    BY <2>2, <1>t, MenuRowsAssumption
  <2> QED BY <2>1, <2>2
<1>1. CASE pc' = "idle" /\ UNCHANGED <<dev, callVars, disturbed>>
  BY <1>1 DEF TeardownInv, MenuInv, MenusOrderly, StepsPlaced, Emptied, TearingDown, callVars
<1>2. CASE /\ Begin(Target, s, d, p)
           /\ pc' = "applying"
           /\ UNCHANGED workVars
  <2>1. MenuInv'
    <3> HIDE DEF s, d
    <3> QED BY <1>2, <1>t, <1>d, BeginOrderly DEF TeardownInv
  <2>2. want' \in Seq(Range(want'))
    <3>1. want' = d
      BY <1>2 DEF Begin
    <3> HIDE DEF d
    <3> QED BY <1>d, <3>1
  <2>3. ASSUME mode = "delete"
        PROVE  /\ spec' = DeleteAllStaticSpec /\ want' = <<>>
               /\ phase' \in {"steps", "ordering", "ok"} => todo' = {} /\ Static(at)' = {}
    <3>1. /\ spec' = DeleteAllStaticSpec /\ want' = <<>> /\ at' = Target /\ dev' = dev
          /\ steps' = p.steps
          /\ phase' \in {"steps", "ordering", "ok"} =>
               /\ p.err = "none" /\ ~Structural(DeleteAllStaticSpec, p.steps)
               /\ todo' \subseteq DOMAIN p.steps
      BY <1>2, <2>3 DEF Begin, FirstPass
    <3>2. ASSUME phase' \in {"steps", "ordering", "ok"}
          PROVE  todo' = {} /\ Static(at)' = {}
      <4>1. p = Fresh(Target, DeleteAllStaticSpec, <<>>)
        BY <2>3
      <4>2. ~HasDelete(p.steps) /\ p.err = "none"
        BY <3>1, <3>2, NoDelete
      <4>3. Orderly(dev[Target])
        BY <1>t DEF TeardownInv, MenuInv, MenusOrderly
      <4>4. /\ p.steps = <<>>
            /\ {id \in DOMAIN dev[Target].rows :
                 ~\E sel \in DeleteAllStaticSpec.ignore : Subset(sel, dev[Target].rows[id])} = {}
        BY <4>1, <4>2, <4>3, NothingToDelete
      <4> QED BY <3>1, <3>2, <4>4 DEF Static, IsDynamic
    <3> QED BY <3>1, <3>2
  <2>4. Emptied'
    BY <1>2, <2>3 DEF Emptied, TearingDown, workVars
  <2> QED BY <2>1, <2>2, <2>4 DEF TeardownInv
<1> QED BY <1>1, <1>2

\* A step of a call.
LEMMA ApplyingTeardown ==
  ASSUME TypeOK, TeardownInv, Applying
  PROVE  TeardownInv'
<1> USE DEF workVars
<1>1. CallTypeOK /\ CallStep /\ UNCHANGED <<pc, mode>>
  BY DEF TypeOK, Applying
<1>2. MenuInv'
  BY <1>1, CallStepOrderly DEF TeardownInv
<1>3. UNCHANGED <<at, spec, want>>
  BY <1>1 DEF CallStep, StepDone, StepRefused, StepLost, Replan, ReplanLost, Finish, Fail
<1>4. ASSUME TearingDown, phase' \in {"steps", "ordering", "ok"}
      PROVE  todo' = {} /\ (~disturbed' => Static(at)' = {})
  <2>0. spec = DeleteAllStaticSpec /\ want = <<>>
    BY <1>4 DEF TeardownInv, Emptied
  <2>1. CASE \E i \in todo : StepDone(i) \/ StepRefused(i) \/ StepLost(i)
    BY <1>4, <2>1 DEF TeardownInv, Emptied, StepDone, StepRefused, StepLost, Fail, Running
  <2>2. CASE Replan
    <3>1. /\ Fresh(at, spec, want).err = "none" /\ UNCHANGED dev
          /\ \A i \in DOMAIN Fresh(at, spec, want).steps : Fresh(at, spec, want).steps[i].op = "move"
          /\ todo' = DOMAIN Fresh(at, spec, want).steps
      BY <1>4, <2>2 DEF Replan, Fail
    <3>2. Orderly(dev[at])
      BY <1>1 DEF TeardownInv, MenuInv, MenusOrderly, CallTypeOK
    <3>3. ~HasDelete(Fresh(at, spec, want).steps)
      BY <3>1, NoDelete
    <3>4. /\ Fresh(at, spec, want).steps = <<>>
          /\ {id \in DOMAIN dev[at].rows :
               ~\E sel \in DeleteAllStaticSpec.ignore : Subset(sel, dev[at].rows[id])} = {}
      BY <2>0, <3>1, <3>2, <3>3, NothingToDelete
    <3>5. Static(at) = {}
      BY <2>0, <3>4 DEF Static, IsDynamic
    <3> QED BY <1>3, <3>1, <3>4, <3>5 DEF Static, IsDynamic
  <2>3. CASE ReplanLost
    BY <1>4, <2>3 DEF ReplanLost, Fail
  <2>4. CASE Finish
    BY <1>3, <1>4, <2>4 DEF Finish, TeardownInv, Emptied, Static, IsDynamic
  <2> QED BY <1>1, <2>1, <2>2, <2>3, <2>4 DEF CallStep
<1>5. Emptied'
  BY <1>1, <1>3, <1>4 DEF TeardownInv, Emptied, TearingDown
<1> QED BY <1>2, <1>3, <1>5 DEF TeardownInv

\* Every action keeps it.
LEMMA NextTeardown == TypeOK /\ TeardownInv /\ [Next]_vars => TeardownInv'
<1> SUFFICES ASSUME TypeOK, TeardownInv, [Next]_vars PROVE TeardownInv'
  OBVIOUS
<1> USE DEF statusVars, objVars, workVars, histVars, boundVars, worldVars, envVars
<1>q. ASSUME UNCHANGED <<dev, callVars, disturbed>>, pc' = "applying" => UNCHANGED <<pc, mode>>
      PROVE  TeardownInv'
  BY <1>q DEF TeardownInv, MenuInv, MenusOrderly, StepsPlaced, Emptied, TearingDown, Static,
     IsDynamic, callVars
<1>f. ASSUME Forget, pc' = "idle" PROVE TeardownInv'
  BY <1>f DEF Forget, TeardownInv, MenuInv, MenusOrderly, StepsPlaced, Emptied, TearingDown
<1>1. CASE \E m \in Menus : Start(m)
  BY <1>1, <1>q DEF Start, AddFinalizer, ReleaseOrphan, Get, menuVars
<1>2. CASE Connect
  BY <1>2, <1>q DEF Connect, Idle, menuVars
<1>3. CASE Elect
  BY <1>3, <1>q DEF Elect, Idle, menuVars
<1>4. CASE Preview
  BY <1>4, <1>q DEF Preview, Idle, menuVars
<1>5. CASE StartApply
  BY <1>5, StartTeardown
<1>6. CASE Applying
  BY <1>6, ApplyingTeardown
<1>7. CASE Return
  BY <1>7, <1>f DEF Return, Idle
<1>8. CASE TrackUsageFails \/ ReadFails
  BY <1>8, <1>q DEF TrackUsageFails, ReadFails, Idle
<1>9. CASE Crash
  BY <1>9, <1>f DEF Crash, Idle
<1>10. CASE OnRouter
  <2>1. MenuInv' /\ UNCHANGED callVars
    BY <1>10, RouterOrderly, RouterTypes DEF OnRouter, TypeOK, TeardownInv
  <2>2. disturbed' = TRUE
    BY <1>10 DEF OnRouter, HandStep, HandAdd, HandRemove, HandEdit, HandMove, ByHand, Traffic
  <2> QED BY <1>10, <2>1, <2>2 DEF OnRouter, TeardownInv, Emptied, TearingDown, callVars
<1>11. CASE Environment /\ ~OnRouter
  BY <1>11, <1>q
  DEF Environment, UserCreate, UserEdit, UserApprove, UserDelete, LetGo, ConfChange, Sync, ByUser, menuVars
<1>12. CASE UNCHANGED vars
  BY <1>12, <1>q DEF vars, menuVars
<1> QED
  BY <1>1, <1>2, <1>3, <1>4, <1>5, <1>6, <1>7, <1>8, <1>9, <1>10, <1>11, <1>12
  DEF Next, Worker, WorkerStep, WorkerFails

\* reconcileDelete: the finalizer of an object deleted with its rows comes off only
\* when the last reading showed no static row, whatever was on the router, whatever
\* people did before that reading, and however often the deletion was interrupted.
THEOREM TeardownComplete == Spec => DeleteLeavesNothing
<1>1. Init => TeardownInv
  BY InitTeardown
<1>2. TypeOK /\ TeardownInv /\ [Next]_vars => TeardownInv'
  BY NextTeardown
<1>3. TypeOK /\ TeardownInv /\ [Next]_vars =>
        [(pc = "applying" /\ mode = "delete" /\ life'[cur] # life[cur] /\ cur' = cur
            /\ pc' = "idle" /\ ~disturbed) => Static(Target) = {}]_vars
  <2> SUFFICES ASSUME TypeOK, TeardownInv, Next, pc = "applying", mode = "delete",
                      life'[cur] # life[cur], pc' = "idle", ~disturbed
               PROVE  Static(Target) = {}
    OBVIOUS
  <2>1. Return
    BY DEF Next, Worker, Start, WorkerStep, WorkerFails, Environment, AddFinalizer, ReleaseOrphan, Get,
       Connect, Elect, Preview, StartApply, Applying, TrackUsageFails, ReadFails, Crash, UserCreate,
       UserEdit, UserApprove, UserDelete, LetGo, ByUser, ConfChange, OnRouter, Sync, objVars
  <2>2. phase = "ok"
    BY <2>1 DEF Return
  <2> QED BY <2>2 DEF TypeOK, TeardownInv, Emptied, TearingDown
<1> QED BY <1>1, <1>2, <1>3, TypeCorrect, PTL DEF Spec, DeleteLeavesNothing
=============================================================================
