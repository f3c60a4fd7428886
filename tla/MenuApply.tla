----------------------------- MODULE MenuApply ------------------------------
(***************************************************************************)
(* Client.Apply and Client.ApplyChecked of rest/menu.go: one call at a     *)
(* time drives a menu towards the desired rows with one HTTP request per   *)
(* step, while people edit the same menu by hand and requests or their     *)
(* replies are lost.  A caller retries by calling again.                   *)
(*                                                                         *)
(* This module is the call itself; MenuClient and FirewallFilterReconciler *)
(* are its callers.                                                        *)
(*                                                                         *)
(* The state of a call is what `apply` keeps in its locals:                *)
(*   phase  "steps"      the steps of a plan without creates or deletes    *)
(*          "mutations"  the structural steps, moves left out              *)
(*          "ordering"   the moves planned after them                      *)
(*          "ok", "failed"  the call has returned;  "idle"  none was made  *)
(*   at, spec, want  the arguments                                         *)
(*   steps, todo     the plan being run, and the indices still to run      *)
(***************************************************************************)
EXTENDS RouterMenu

CONSTANTS Targets,     \* the routers
          StartRows,   \* menus a router may start with: sequences of rows
          HandRows,    \* rows a person adds, or turns a row into
          Counters,    \* fields live traffic changes: bytes and packets
          MaxEdits,    \* bound on edits by hand
          MaxFaults    \* bound on requests or replies lost

ASSUME BoundsAssumption == MaxEdits \in Nat /\ MaxFaults \in Nat
ASSUME StartRowsAssumption == \A rows \in StartRows : rows \in Seq(Range(rows))

VARIABLES dev,         \* the menu of every router
          phase, at, spec, want, steps, todo,
          disturbed,   \* history: an edit by hand or traffic since the last reading
          edits, faults

callVars == <<phase, at, spec, want, steps, todo>>
envVars  == <<edits, faults>>
menuVars == <<dev, callVars, disturbed, envVars>>

Running  == phase \in {"steps", "mutations", "ordering"}
Returned == phase \in {"idle", "ok", "failed"}

\* The plan a fresh reading of the router gives.
Fresh(t, s, d) == Plan(s, d, List(dev[t]))

Structural(s, stps) == s.ordered /\ \E i \in DOMAIN stps : stps[i].op \in {"create", "delete"}

\* The indices the first pass over a plan runs.
FirstPass(s, stps) == {i \in DOMAIN stps : Structural(s, stps) => stps[i].op # "move"}

\* apply from its first reading to its first request: p is the plan of that
\* reading, which the approval function, if there is one, has let through.
Begin(t, s, d, p) ==
  /\ Returned
  /\ at' = t /\ spec' = s /\ want' = d
  /\ steps' = p.steps
  /\ phase' = IF p.err # "none" THEN "failed"
              ELSE IF Structural(s, p.steps) THEN "mutations" ELSE "steps"
  /\ todo' = IF p.err # "none" THEN {} ELSE FirstPass(s, p.steps)
  /\ disturbed' = FALSE
  /\ UNCHANGED dev

\* The next step of the plan; plan order, never past an error.
IsNext(i) == i \in todo /\ \A j \in todo : i <= j

StepDone(i) ==
  /\ Running /\ IsNext(i) /\ Accepts(dev[at], spec, steps[i])
  /\ dev' = [dev EXCEPT ![at] = Perform(dev[at], steps[i])]
  /\ todo' = todo \ {i}
  /\ UNCHANGED <<phase, at, spec, want, steps, disturbed, envVars>>

\* Mutants: the steps after a failed one still run; the error is swallowed.
FailKeepsTodo ==
  /\ phase' = "failed"
  /\ UNCHANGED <<todo, at, spec, want, steps, disturbed>>
FailSwallowed ==
  /\ phase' = "ok" /\ todo' = {}
  /\ UNCHANGED <<at, spec, want, steps, disturbed>>

\* The call returns an error and leaves the menu as it is.
Fail ==
  /\ phase' = "failed" /\ todo' = {}
  /\ UNCHANGED <<at, spec, want, steps, disturbed>>

StepRefused(i) ==
  /\ Running /\ IsNext(i) /\ ~Accepts(dev[at], spec, steps[i])
  /\ Fail
  /\ UNCHANGED <<dev, envVars>>

\* The exchange fails in transit: the request never arrived, or the router
\* carried it out and the reply was lost.
StepLost(i) ==
  /\ Running /\ IsNext(i) /\ faults < MaxFaults
  /\ \/ UNCHANGED dev
     \/ /\ Accepts(dev[at], spec, steps[i])
        /\ dev' = [dev EXCEPT ![at] = Perform(dev[at], steps[i])]
  /\ faults' = faults + 1
  /\ Fail
  /\ UNCHANGED edits

\* Mutant: the moves of the second reading are run, its other steps ignored.
ReplanTakesMoves ==
  /\ phase = "mutations" /\ todo = {}
  /\ \E ordered \in {Fresh(at, spec, want)} :
       IF ordered.err # "none" THEN Fail
       ELSE /\ phase' = "ordering"
            /\ steps' = ordered.steps
            /\ todo' = {i \in DOMAIN ordered.steps : ordered.steps[i].op = "move"}
            /\ disturbed' = FALSE
            /\ UNCHANGED <<at, spec, want>>
  /\ UNCHANGED <<dev, envVars>>

\* The second reading: order is planned again from what the structural steps left.
Replan ==
  /\ phase = "mutations" /\ todo = {}
  /\ \E ordered \in {Fresh(at, spec, want)} :
       IF ordered.err # "none" \/ \E i \in DOMAIN ordered.steps : ordered.steps[i].op # "move"
       THEN Fail
       ELSE /\ phase' = "ordering"
            /\ steps' = ordered.steps
            /\ todo' = DOMAIN ordered.steps
            /\ disturbed' = FALSE
            /\ UNCHANGED <<at, spec, want>>
  /\ UNCHANGED <<dev, envVars>>

ReplanLost ==
  /\ phase = "mutations" /\ todo = {} /\ faults < MaxFaults
  /\ faults' = faults + 1
  /\ Fail
  /\ UNCHANGED <<dev, edits>>

Finish ==
  /\ phase \in {"steps", "ordering"} /\ todo = {}
  /\ phase' = "ok"
  /\ UNCHANGED <<dev, at, spec, want, steps, todo, disturbed, envVars>>

\* Mutant: an interrupted call leaves its plan behind.
ForgetKeepsPlan ==
  /\ phase' = "idle" /\ disturbed' = FALSE
  /\ UNCHANGED <<dev, at, spec, want, steps, todo>>

\* The caller has returned as well: the plan is forgotten.
Forget ==
  /\ phase' = "idle" /\ steps' = <<>> /\ todo' = {} /\ disturbed' = FALSE
  /\ UNCHANGED <<dev, at, spec, want>>

\* One step of the call in progress.
CallStep ==
  \/ \E i \in todo : StepDone(i) \/ StepRefused(i) \/ StepLost(i)
  \/ Replan \/ ReplanLost \/ Finish

-----------------------------------------------------------------------------
\* People and other tools on the router.

IsDynamic(fields) == \E sel \in spec.ignore : Subset(sel, fields)
Static(t) == {id \in DOMAIN dev[t].rows : ~IsDynamic(dev[t].rows[id])}

ByHand(t, menu) ==
  /\ edits < MaxEdits
  /\ dev' = [dev EXCEPT ![t] = menu]
  /\ edits' = edits + 1
  /\ disturbed' = TRUE
  /\ UNCHANGED <<callVars, faults>>

HandAdd(t)    == \E row \in HandRows : ByHand(t, Create(dev[t], row))
HandRemove(t) == \E id \in Static(t) : ByHand(t, Delete(dev[t], id))
HandEdit(t)   == \E id \in Static(t), row \in HandRows :
                   /\ Stored(row) # dev[t].rows[id]
                   /\ ByHand(t, Update(dev[t], id, row))
HandMove(t)   == \E id \in Static(t) : \E before \in (Static(t) \ {id}) \cup {NoID} :
                   ByHand(t, Move(dev[t], <<id>>, before))

\* Packets match a rule: a counter shows another value.
Traffic(t) ==
  \E id \in DOMAIN dev[t].rows : \E k \in Counters \cap DOMAIN dev[t].rows[id] :
    /\ dev' = [dev EXCEPT ![t] = Update(dev[t], id,
                 [x \in {k} |-> IF dev[t].rows[id][k] = "0" THEN "1" ELSE "0"])]
    /\ disturbed' = TRUE
    /\ UNCHANGED <<callVars, envVars>>

HandStep == \E t \in Targets : HandAdd(t) \/ HandRemove(t) \/ HandEdit(t) \/ HandMove(t)

-----------------------------------------------------------------------------
\* The routers as they are found, and no call made yet.
MenuInit ==
  /\ \E start \in [Targets -> StartRows] : dev = [t \in Targets |-> MenuOf(start[t])]
  /\ at \in Targets
  /\ phase = "idle" /\ steps = <<>> /\ todo = {}
  /\ disturbed = FALSE
  /\ edits = 0 /\ faults = 0

\* Types of everything but the plan itself: which phase a call is in, which
\* steps it has left, and how much the environment has done.
CallTypeOK ==
  /\ phase \in {"idle", "steps", "mutations", "ordering", "ok", "failed"}
  /\ at \in Targets
  /\ todo \subseteq DOMAIN steps
  /\ todo # {} => Running
  /\ disturbed \in BOOLEAN
  /\ edits \in 0 .. MaxEdits
  /\ faults \in 0 .. MaxFaults
  /\ DOMAIN dev = Targets
=============================================================================
