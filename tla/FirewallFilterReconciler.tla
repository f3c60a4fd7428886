---------------------- MODULE FirewallFilterReconciler ----------------------
(***************************************************************************)
(* native/internal/controller/firewallfilter/reconciler.go: the controller *)
(* of FirewallFilterMenu objects.  It has one worker (controller-runtime's *)
(* default), which may be stopped between any two steps.  Around it people *)
(* create, edit, approve and delete objects, change ProviderConfigs and    *)
(* Secrets, and edit the router by hand.  Requests to the router are the   *)
(* steps of MenuApply.                                                     *)
(*                                                                         *)
(* An object is split into functions over Menus:                           *)
(*   life     "absent"; "new" (no finalizer yet); "live"; "deleting" (with *)
(*            the finalizer); "released" (deleting, finalizer removed, held*)
(*            by another one); "gone"                                      *)
(*   mspec    its spec: [unlisted, policy, config, rows]                   *)
(*   note     the approve-prune annotation: a set of at most one token     *)
(*   adopted, adoptedAt, pending, ready   its status                       *)
(*   usage    the ProviderConfig its ProviderConfigUsage names             *)
(* conf holds what a ProviderConfig and its Secret resolve to:             *)
(*   [target, cred, ok].                                                   *)
(*                                                                         *)
(* The worker reads objects from an informer's store, which lags behind    *)
(* the API server: seen is an earlier state of all of them.  It writes to  *)
(* the API server, with merge patches of what it changed in its copy.      *)
(***************************************************************************)
EXTENDS MenuApply

CONSTANTS Menus, Configs,
          Seniority,    \* creation order: timestamp, then namespaced name
          MenuSpecs,    \* specs an object may be given
          ConfValues,   \* what a ProviderConfig may be made to resolve to
          Selectors,    \* dynamicIgnore
          Nil,
          MaxUser,      \* bound on what people do to objects
          MaxConf       \* bound on ProviderConfig and Secret changes

ASSUME SeniorityAssumption ==
  /\ Seniority \in [Menus -> Nat]
  /\ \A m, n \in Menus : Seniority[m] = Seniority[n] => m = n
ASSUME MenuSpecsAssumption ==
  \A s \in MenuSpecs : /\ s.unlisted \in {"tolerate", "prune"}
                       /\ s.policy \in {"Orphan", "Delete"}
                       /\ s.config \in Configs
ASSUME MenuRowsAssumption == \A s \in MenuSpecs : s.rows \in Seq(Range(s.rows))
ASSUME ConfValuesAssumption ==
  \A c \in ConfValues : c.target \in Targets /\ c.ok \in BOOLEAN
ASSUME SomeObject == Menus # {} /\ MenuSpecs # {}
ASSUME ReconcilerBounds == MaxUser \in Nat /\ MaxConf \in Nat

VARIABLES life, mspec, note, adopted, adoptedAt, pending, ready, usage,
          conf,
          seen,         \* the informer's store
          pc, cur, snap, fp, mode, token,   \* the worker
          approved,     \* history: tokens people have put on the object
          completed,    \* history: connections whose adoption ran to its end
          userOps, confOps

statusVars == <<adopted, adoptedAt, pending, ready>>
objVars    == <<life, mspec, note, usage>>
workVars   == <<cur, snap, fp, mode, token>>
histVars   == <<approved, completed>>
boundVars  == <<userOps, confOps>>
vars == <<menuVars, statusVars, objVars, conf, seen, pc, workVars, histVars, boundVars>>

\* What stays put in a step of the worker, unless the step says otherwise.
worldVars == <<mspec, note, conf, seen, approved, boundVars>>

\* The objects as the API server has them.
Objects == [life |-> life, mspec |-> mspec, note |-> note, adopted |-> adopted,
            adoptedAt |-> adoptedAt, pending |-> pending, ready |-> ready]

-----------------------------------------------------------------------------
\* connection.Connection.Fingerprint: everything a client is built from.
Fingerprint(c) == <<c, conf[c].target, conf[c].cred>>

MenuSpecFor(unlisted) ==
  [unlisted |-> unlisted, ordered |-> TRUE, key |-> NoKey, ignore |-> Selectors]
DeleteAllStaticSpec == MenuSpecFor("prune")

\* Mutant: counters count towards the token.
VolatileNone == {}

\* volatileApprovalFields
Volatile == Counters \cup {"dynamic", "invalid"}

\* planToken: an injective digest of the connection and of every step, without
\* the fields that change under live traffic.
PlanToken(fprint, stps) ==
  <<fprint, [i \in DOMAIN stps |->
      [op |-> stps[i].op, id |-> stps[i].id, before |-> stps[i].before,
       order |-> stps[i].order,
       row |-> [k \in DOMAIN stps[i].row \ Volatile |-> stps[i].row[k]]]]>>

HasSay == {"new", "live", "deleting"}

\* ownerFor: the objects in the store that still have a say and resolve to the
\* target.  An object that does not resolve right now is passed over.
Claims(m, k, target) ==
  /\ seen.life[k] \in HasSay
  /\ k # m => LET c == seen.mspec[k].config IN conf[c].ok /\ conf[c].target = target

\* Mutant: objects compete only if they name the same ProviderConfig.
OwnedByOtherByRef(m, target) ==
  \E k \in Menus \ {m} :
    /\ Claims(m, k, target) /\ seen.mspec[k].config = seen.mspec[m].config
    /\ Claims(m, m, target) => Seniority[k] < Seniority[m]

\* The oldest claimant is another object: one older than m, or any at all if m
\* itself has no say any more.
OwnedByOther(m, target) ==
  \E k \in Menus \ {m} :
    /\ Claims(m, k, target)
    /\ Claims(m, m, target) => Seniority[k] < Seniority[m]

-----------------------------------------------------------------------------
\* client.MergeFrom: a field is written only if it differs from the worker's copy.
Merged(stored, copied, new) == IF new = copied THEN stored ELSE new

\* setStatus; a patch of an object that is gone changes nothing.
SetStatus(reason, isAdopted, at2, plan) ==
  IF life[cur] = "gone" THEN UNCHANGED statusVars
  ELSE /\ ready'     = [ready EXCEPT ![cur] = Merged(@, snap.ready, reason)]
       /\ adopted'   = [adopted EXCEPT ![cur] = Merged(@, snap.adopted, isAdopted)]
       /\ adoptedAt' = [adoptedAt EXCEPT ![cur] = Merged(@, snap.adoptedAt, at2)]
       /\ pending'   = [pending EXCEPT ![cur] = Merged(@, snap.pending, plan)]

\* setStatus without a mutate function: only the condition changes.
SetReady(reason) == SetStatus(reason, snap.adopted, snap.adoptedAt, snap.pending)

\* Mutant: the finalizer is taken off the copy and never patched.
RemoveFinalizerUnpatched(m) == UNCHANGED life

\* removeFinalizer: the object goes, unless another finalizer holds it.  The
\* patch of an object that is gone, or has lost the finalizer, changes nothing.
RemoveFinalizer(m) ==
  IF life[m] # "deleting" THEN UNCHANGED life
  ELSE \E l \in {"gone", "released"} : life' = [life EXCEPT ![m] = l]

\* The worker returns, and its locals with it.
Idle ==
  /\ pc' = "idle" /\ snap' = Nil /\ fp' = Nil /\ token' = Nil /\ mode' = "apply"
  /\ UNCHANGED cur

-----------------------------------------------------------------------------
\* Reconcile, from the Get on.

\* An object that already has the finalizer keeps it; one that is being deleted
\* is not given it.
AddFinalizer(m) ==
  /\ pc = "idle" /\ seen.life[m] = "new"
  /\ life' = [life EXCEPT ![m] = IF @ = "new" THEN "live" ELSE @]
  /\ UNCHANGED <<menuVars, statusVars, usage, pc, workVars, completed, worldVars>>

\* reconcileDelete of an Orphan object.
ReleaseOrphan(m) ==
  /\ pc = "idle" /\ seen.life[m] = "deleting" /\ seen.mspec[m].policy = "Orphan"
  /\ RemoveFinalizer(m)
  /\ UNCHANGED <<menuVars, statusVars, usage, pc, workVars, completed, worldVars>>

\* Get: the worker keeps the object as the store had it until it returns.  A
\* deleting object without Prune is refused before anything else happens.
Get(m) ==
  /\ pc = "idle"
  /\ \/ seen.life[m] = "live"
     \/ /\ seen.life[m] = "deleting"
        /\ seen.mspec[m].policy = "Delete" /\ seen.mspec[m].unlisted = "prune"
  /\ pc' = "connect"
  /\ cur' = m
  /\ snap' = [spec |-> seen.mspec[m], note |-> seen.note[m], adopted |-> seen.adopted[m],
              adoptedAt |-> seen.adoptedAt[m], pending |-> seen.pending[m],
              ready |-> seen.ready[m]]
  /\ mode' = IF seen.life[m] = "deleting" THEN "delete" ELSE "apply"
  /\ UNCHANGED <<menuVars, statusVars, life, usage, fp, token, completed, worldVars>>

\* trackProviderConfigUsage, then Connect.
Connect ==
  /\ pc = "connect"
  /\ usage' = IF mode = "delete" THEN usage ELSE [usage EXCEPT ![cur] = snap.spec.config]
  /\ IF conf[snap.spec.config].ok
     THEN /\ pc' = "elect"
          /\ fp' = Fingerprint(snap.spec.config)
          /\ UNCHANGED <<statusVars, cur, snap, mode, token>>
     ELSE /\ IF mode = "delete" THEN UNCHANGED statusVars ELSE SetReady("ConnectionError")
          /\ Idle
  /\ UNCHANGED <<menuVars, life, completed, worldVars>>

TrackUsageFails ==
  /\ pc = "connect" /\ mode # "delete" /\ faults < MaxFaults
  /\ faults' = faults + 1
  /\ SetReady("UsageTrackingError")
  /\ Idle
  /\ UNCHANGED <<dev, callVars, disturbed, edits, life, usage, completed, worldVars>>

Target == fp[2]

\* Mutant: Adopted is not tied to the connection it was earned over.
NeedsAdoptionOnce == snap.spec.unlisted = "prune" /\ ~snap.adopted

NeedsAdoption ==
  snap.spec.unlisted = "prune" /\ (~snap.adopted \/ snap.adoptedAt # fp)

\* The ownership election and what follows from it.
Elect ==
  /\ pc = "elect"
  /\ IF OwnedByOther(cur, Target)
     THEN /\ IF mode = "delete" THEN RemoveFinalizer(cur) /\ UNCHANGED statusVars
             ELSE SetReady("OwnershipConflict") /\ UNCHANGED life
          /\ Idle
     ELSE /\ mode' = IF mode # "delete" /\ NeedsAdoption THEN "adopt" ELSE mode
          /\ pc' = IF mode # "delete" /\ NeedsAdoption THEN "preview" ELSE "apply"
          /\ UNCHANGED <<statusVars, life, cur, snap, fp, token>>
  /\ UNCHANGED <<menuVars, usage, completed, worldVars>>

\* reconcileAdoption up to ApplyChecked.
Preview ==
  /\ pc = "preview"
  /\ \E p \in {Fresh(Target, MenuSpecFor("prune"), snap.spec.rows)} :
       LET tok == PlanToken(fp, p.steps)
       IN  \/ /\ p.err # "none"
              /\ SetReady("PlanError") /\ Idle
           \/ /\ p.err = "none" /\ HasDelete(p.steps) /\ tok \notin snap.note
              /\ SetStatus("AdoptionPending", FALSE, snap.adoptedAt, tok) /\ Idle
           \/ /\ p.err = "none" /\ (HasDelete(p.steps) => tok \in snap.note)
              /\ pc' = "apply" /\ token' = tok
              /\ UNCHANGED <<statusVars, cur, snap, fp, mode>>
  /\ UNCHANGED <<menuVars, life, usage, completed, worldVars>>

\* A List or plan of the router fails before anything is written.
ReadFails ==
  /\ pc \in {"preview", "apply"} /\ faults < MaxFaults
  /\ faults' = faults + 1
  /\ CASE mode = "delete" -> UNCHANGED statusVars
       [] pc = "preview"  -> SetReady("PlanError")
       [] OTHER           -> SetReady("ApplyError")
  /\ Idle
  /\ UNCHANGED <<dev, callVars, disturbed, edits, life, usage, completed, worldVars>>

\* Mutant: Apply instead of ApplyChecked, so the plan run is not the one previewed.
StartApplyUnchecked ==
  /\ pc = "apply"
  /\ LET s == IF mode = "delete" THEN DeleteAllStaticSpec ELSE MenuSpecFor(snap.spec.unlisted)
         d == IF mode = "delete" THEN <<>> ELSE snap.spec.rows
     IN  \E p \in {Fresh(Target, s, d)} : Begin(Target, s, d, p)
  /\ pc' = "applying"
  /\ UNCHANGED <<statusVars, workVars, envVars, life, usage, completed, worldVars>>

\* The call to Apply, to ApplyChecked when adopting, or to Apply with no rows
\* wanted when deleting: its reading, and the approval function on that plan.
StartApply ==
  /\ pc = "apply"
  /\ LET s == IF mode = "delete" THEN DeleteAllStaticSpec ELSE MenuSpecFor(snap.spec.unlisted)
         d == IF mode = "delete" THEN <<>> ELSE snap.spec.rows
     IN  \E p \in {Fresh(Target, s, d)} :
           IF mode = "adopt" /\ p.err = "none" /\ PlanToken(fp, p.steps) # token
           THEN /\ SetStatus("AdoptionPending", FALSE, snap.adoptedAt, PlanToken(fp, p.steps))
                /\ Idle
                /\ UNCHANGED <<dev, callVars, disturbed>>
           ELSE /\ Begin(Target, s, d, p)
                /\ pc' = "applying"
                /\ UNCHANGED <<statusVars, workVars>>
  /\ UNCHANGED <<envVars, life, usage, completed, worldVars>>

\* A step inside Apply.
Applying ==
  /\ pc = "applying" /\ CallStep
  /\ UNCHANGED <<statusVars, life, usage, pc, workVars, completed, worldVars>>

\* Apply has returned: the status, or the finalizer.
Return ==
  /\ pc = "applying" /\ Returned
  /\ Idle
  /\ CASE mode = "delete" ->
            /\ IF phase = "ok" THEN RemoveFinalizer(cur) ELSE UNCHANGED life
            /\ UNCHANGED <<statusVars, completed>>
       [] mode # "delete" /\ phase # "ok" ->
            SetReady("ApplyError") /\ UNCHANGED <<life, completed>>
       [] mode = "apply" /\ phase = "ok" ->
            /\ SetStatus("Available", snap.adopted /\ snap.adoptedAt = fp, snap.adoptedAt, Nil)
            /\ UNCHANGED <<life, completed>>
       [] mode = "adopt" /\ phase = "ok" ->
            /\ SetStatus("Available", TRUE, fp, Nil)
            /\ completed' = [completed EXCEPT ![cur] = @ \cup {fp}]
            /\ UNCHANGED life
  /\ Forget
  /\ UNCHANGED <<envVars, usage, worldVars>>

\* The process stops, or an API call the worker needs fails: everything it held
\* is lost, everything it wrote stays.
Crash ==
  /\ pc # "idle" /\ faults < MaxFaults
  /\ faults' = faults + 1
  /\ Idle
  /\ Forget
  /\ UNCHANGED <<edits, statusVars, life, usage, completed, worldVars>>

\* What the worker does with a request it takes from the queue, and afterwards.
Start(m)    == AddFinalizer(m) \/ ReleaseOrphan(m) \/ Get(m)
WorkerStep  == Connect \/ Elect \/ Preview \/ StartApply \/ Applying \/ Return
WorkerFails == TrackUsageFails \/ ReadFails \/ Crash
Worker      == (\E m \in Menus : Start(m)) \/ WorkerStep

-----------------------------------------------------------------------------
\* People and the cluster.

ByUser ==
  /\ userOps < MaxUser /\ userOps' = userOps + 1
  /\ UNCHANGED <<menuVars, statusVars, usage, conf, seen, pc, workVars, completed, confOps>>

UserCreate(m) ==
  /\ life[m] = "absent"
  /\ \A k \in Menus : Seniority[k] < Seniority[m] => life[k] # "absent"
  /\ \E s \in MenuSpecs : mspec' = [mspec EXCEPT ![m] = s]
  /\ life' = [life EXCEPT ![m] = "new"]
  /\ ByUser /\ UNCHANGED <<note, approved>>

UserEdit(m) ==
  /\ life[m] \in HasSay
  /\ \E s \in MenuSpecs \ {mspec[m]} : mspec' = [mspec EXCEPT ![m] = s]
  /\ ByUser /\ UNCHANGED <<life, note, approved>>

\* kubectl annotate with the token the status shows.
UserApprove(m) ==
  /\ life[m] = "live" /\ pending[m] # Nil /\ pending[m] \notin note[m]
  /\ note' = [note EXCEPT ![m] = {pending[m]}]
  /\ approved' = [approved EXCEPT ![m] = @ \cup {pending[m]}]
  /\ ByUser /\ UNCHANGED <<life, mspec>>

UserDelete(m) ==
  /\ life[m] \in {"new", "live"}
  /\ \E l \in IF life[m] = "new" THEN {"gone", "released"} ELSE {"deleting"} :
       life' = [life EXCEPT ![m] = l]
  /\ ByUser /\ UNCHANGED <<mspec, note, approved>>

\* The other finalizer is removed too.
LetGo(m) ==
  /\ life[m] = "released"
  /\ life' = [life EXCEPT ![m] = "gone"]
  /\ UNCHANGED <<menuVars, statusVars, mspec, note, usage, conf, seen, pc, workVars, histVars, boundVars>>

\* A ProviderConfig or a Secret behind it changes, breaks or comes back.
ConfChange(c) ==
  /\ confOps < MaxConf /\ confOps' = confOps + 1
  /\ \E v \in ConfValues \ {conf[c]} : conf' = [conf EXCEPT ![c] = v]
  /\ UNCHANGED <<menuVars, statusVars, objVars, seen, pc, workVars, histVars, userOps>>

\* An edit by hand, or traffic through a rule.
OnRouter ==
  /\ HandStep \/ \E t \in Targets : Traffic(t)
  /\ UNCHANGED <<statusVars, objVars, conf, seen, pc, workVars, histVars, boundVars>>

\* The informer's store catches up.
Sync ==
  /\ seen # Objects
  /\ seen' = Objects
  /\ UNCHANGED <<menuVars, statusVars, objVars, conf, pc, workVars, histVars, boundVars>>

Environment ==
  \/ \E m \in Menus : UserCreate(m) \/ UserEdit(m) \/ UserApprove(m) \/ UserDelete(m) \/ LetGo(m)
  \/ \E c \in Configs : ConfChange(c)
  \/ OnRouter
  \/ Sync

-----------------------------------------------------------------------------
Init ==
  /\ MenuInit /\ spec = DeleteAllStaticSpec /\ want = <<>>
  /\ life = [m \in Menus |-> "absent"]
  /\ mspec = [m \in Menus |-> CHOOSE s \in MenuSpecs : TRUE]
  /\ note = [m \in Menus |-> {}]
  /\ adopted = [m \in Menus |-> FALSE]
  /\ adoptedAt = [m \in Menus |-> Nil]
  /\ pending = [m \in Menus |-> Nil]
  /\ ready = [m \in Menus |-> Nil]
  /\ usage = [m \in Menus |-> Nil]
  /\ conf \in [Configs -> {v \in ConfValues : v.ok}]
  /\ seen = Objects
  /\ pc = "idle" /\ cur = (CHOOSE m \in Menus : TRUE) /\ snap = Nil /\ fp = Nil /\ mode = "apply" /\ token = Nil
  /\ approved = [m \in Menus |-> {}]
  /\ completed = [m \in Menus |-> {}]
  /\ userOps = 0 /\ confOps = 0

Next == Worker \/ WorkerFails \/ Environment
Spec == Init /\ [][Next]_vars

\* The worker goes on with what it has begun, and the work queue hands it every
\* object again and again: a watch event, a requeue or the poll interval puts it
\* back, and the queue is first in, first out.  The informer's watch goes on.
FairSpec == /\ Spec
            /\ WF_vars(WorkerStep)
            /\ WF_vars(Sync)
            /\ \A m \in Menus : SF_vars(Start(m))

-----------------------------------------------------------------------------
(***************************************************************************)
(* Properties                                                              *)
(***************************************************************************)

\* Types of the objects, of the cluster and of the worker, whose locals have a
\* meaning only from the step that assigns them until it returns.
Lives == {"absent", "new", "live", "deleting", "released", "gone"}
TypeOK ==
  /\ CallTypeOK
  /\ life \in [Menus -> Lives] /\ seen.life \in [Menus -> Lives]
  /\ mspec \in [Menus -> MenuSpecs] /\ seen.mspec \in [Menus -> MenuSpecs]
  /\ usage \in [Menus -> Configs \cup {Nil}]
  /\ adopted \in [Menus -> BOOLEAN] /\ seen.adopted \in [Menus -> BOOLEAN]
  /\ DOMAIN note = Menus /\ DOMAIN adoptedAt = Menus
  /\ DOMAIN pending = Menus /\ DOMAIN ready = Menus
  /\ DOMAIN approved = Menus /\ DOMAIN completed = Menus
  /\ conf \in [Configs -> ConfValues]
  /\ pc \in {"idle", "connect", "elect", "preview", "apply", "applying"}
  /\ cur \in Menus
  /\ mode \in {"apply", "adopt", "delete"}
  /\ pc # "idle" => snap.spec \in MenuSpecs /\ snap.adopted \in BOOLEAN
  /\ pc \in {"connect", "elect"} => mode # "adopt"
  /\ pc = "preview" => mode = "adopt"
  /\ pc \in {"elect", "preview", "apply", "applying"} => Target \in Targets
  /\ pc = "applying" => at = Target
  /\ userOps \in 0 .. MaxUser /\ confOps \in 0 .. MaxConf

\* A person has approved the deletion of the row over this connection, or an
\* adoption over this connection has run to its end.
MayDelete(m, fprint, id) ==
  \/ fprint \in completed[m]
  \/ \E tok \in approved[m] :
       /\ tok[1] = fprint
       /\ \E i \in DOMAIN tok[2] : tok[2][i].op = "delete" /\ tok[2][i].id = id

\* A request of a prune takes a row off a router only with that authority.
PruneStepApproved ==
  \A t \in Targets : \A id \in DOMAIN dev[t].rows \ DOMAIN dev'[t].rows :
    (todo' # todo /\ mode # "delete" /\ spec.unlisted = "prune")
      => t = Target /\ MayDelete(cur, fp, id)

\* ADR 0004: the first destructive prune needs an approval of the exact plan.
\* Whatever is edited, repointed, approved or interrupted in between, a prune
\* takes a row off a router only if its object was adopted over that very
\* connection, or a person approved a plan for that connection that names it.
FirstPruneApproved == [][PruneStepApproved]_vars

\* The session the worker has with a router while Apply runs.
Session == [owner |-> cur, conn |-> fp,
            kind |-> IF mode = "delete" THEN "teardown" ELSE spec.unlisted]

Authority == INSTANCE PruneAuthority
  WITH Owners <- Menus, Routers <- Targets, Nobody <- Nil,
       present  <- [t \in Targets |-> DOMAIN dev[t].rows],
       shown    <- pending,
       adopted  <- completed,
       sessions <- IF pc = "applying" THEN {Session} ELSE {},
       hands    <- edits

\* Everything the controller does amounts to the pruning protocol of ADR 0004, in
\* which there are no caches, copies, plans or crashes: it works for one object on
\* one router at a time, one row at a time, and takes a row away under Prune only
\* with an authority that came from a person or from an adoption that was completed.
PrunesByAuthority == Authority!Spec

TokenDeletes(tok) == \E i \in DOMAIN tok[2] : tok[2][i].op = "delete"

\* Adopted and the annotation mean what they say, on the object as the API server
\* has it, on the informer's copy ...
AdoptedEarned ==
  \A m \in Menus : /\ adopted[m] => adoptedAt[m] \in completed[m]
                   /\ adoptedAt[m] \in completed[m] \cup {Nil}
NotesApproved == \A m \in Menus : note[m] \subseteq approved[m]
SeenEarned ==
  \A m \in Menus : /\ seen.adopted[m] => seen.adoptedAt[m] \in completed[m]
                   /\ seen.adoptedAt[m] # Nil => adoptedAt[m] \in completed[m]
                   /\ seen.note[m] \subseteq approved[m]

\* ... and on the object as the worker read it.  A connection once recorded is
\* never blank again, so a patch that leaves it out leaves one that was earned.
SnapshotEarned ==
  pc # "idle" => /\ snap.adopted => snap.adoptedAt \in completed[cur]
                 /\ snap.adoptedAt # Nil => adoptedAt[cur] \in completed[cur]
                 /\ snap.note \subseteq approved[cur]

\* A plan gets past the preview only with its own token approved; without a
\* preview, a prune gets to Apply only over a connection that was adopted.
TokenApproved ==
  (pc = "apply" /\ mode = "adopt" /\ TokenDeletes(token)) => token \in approved[cur]
PlainPruneEarned ==
  (pc = "apply" /\ mode = "apply" /\ snap.spec.unlisted = "prune") => fp \in completed[cur]

\* The deletes left in the plan the worker is running have that authority.
DeletesApproved ==
  (pc = "applying" /\ mode # "delete" /\ spec.unlisted = "prune") =>
    \A i \in todo : steps[i].op = "delete" => MayDelete(cur, fp, steps[i].id)

\* How the authority to prune reaches a request, from the object through the
\* informer's copy, the worker's copy and the approved token to the plan being run:
\* at no point does reconcileAdoption, a crash, a credential change, a stale copy or
\* a patch made from one lose it.
Authorised ==
  /\ AdoptedEarned /\ NotesApproved /\ SeenEarned /\ SnapshotEarned
  /\ TokenApproved /\ PlainPruneEarned
  /\ DeletesApproved

\* While every object resolves and keeps its router, only the oldest object with
\* a say writes to it, however far the informer lags behind: not its successor
\* while it is being deleted, not a second object in another namespace.
SoleWriter ==
  pc = "applying" =>
    \A k \in Menus :
      (life[k] \in HasSay /\ conf[mspec[k].config].ok /\ conf[mspec[k].config].target = Target)
        => Seniority[cur] <= Seniority[k]

\* An object that is deleted with its rows is let go only once no static row is
\* left, unless somebody was at the router since the controller last looked.
DeleteLeavesNothing ==
  [][(pc = "applying" /\ mode = "delete" /\ life'[cur] # life[cur] /\ cur' = cur
        /\ pc' = "idle" /\ ~disturbed)
       => Static(Target) = {}]_vars

\* An approval of the plan on show is honoured, however much traffic goes
\* through the rules it names: once the ProviderConfig resolves for good, it leads
\* to adoption.
ApprovalHonoured ==
  \A m \in Menus :
    <>[](\A c \in Configs : conf[c].ok) =>
      ((life[m] = "live" /\ pending[m] # Nil /\ note[m] = {pending[m]})
         ~> (adopted[m] \/ life[m] # "live"))

\* A deleted object goes away once its ProviderConfig resolves for good.
DeletionCompletes ==
  \A m \in Menus :
    <>[](\A c \in Configs : conf[c].ok) =>
      (life[m] = "deleting" ~> life[m] \in {"released", "gone"})

\* ADR 0004: "Merely spelling prune in a new object is not sufficient authority
\* to delete an existing menu": the same authority is needed when the object is
\* deleted with its rows.
DeletionApproved ==
  [][\A t \in Targets : \A id \in DOMAIN dev[t].rows \ DOMAIN dev'[t].rows :
       (todo' # todo /\ mode = "delete") => MayDelete(cur, fp, id)]_vars

\* reconciler.go: "A waiting object must never mutate the active owner's menu
\* merely because it is being deleted with a destructive policy": while an older
\* object, made Available on this router and not deleted, is there.
WaitingObjectKeepsOut ==
  (pc = "applying" /\ mode = "delete" /\ todo # {}) =>
    \A k \in Menus \ {cur} :
      ~ (/\ Seniority[k] < Seniority[cur] /\ life[k] = "live" /\ adopted[k]
         /\ conf[mspec[k].config].target = Target)
=============================================================================
