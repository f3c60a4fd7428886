--------------------------- MODULE PruneAuthority ---------------------------
(***************************************************************************)
(* What ADR 0004 promises of pruning, without the controller that keeps    *)
(* the promise: there is no informer, no work queue, no worker, no plan    *)
(* being run and no crash, only                                            *)
(*   present   the ids of the rows on every router                         *)
(*   shown     the plan every object puts up for approval, or Nobody       *)
(*   approved  the plans people have approved for it                       *)
(*   adopted   the connections it has been adopted over                    *)
(*   sessions  the controller at work on a router, for one object and over *)
(*             one connection: [owner, conn, kind], at most one of them    *)
(*   hands     how often people have changed a router themselves           *)
(* FirewallFilterReconciler implements it.                                 *)
(***************************************************************************)
EXTENDS Integers

CONSTANTS Owners, Routers, Nobody

VARIABLES present, shown, approved, adopted, sessions, hands

vars == <<present, shown, approved, adopted, sessions, hands>>

Kinds == {"tolerate", "prune", "teardown"}

\* A connection is <<ProviderConfig, router, credentials>>, a plan the connection
\* it was made over and its steps.
RouterOf(s) == s.conn[2]
Names(plan, conn, id) ==
  plan[1] = conn /\ \E i \in DOMAIN plan[2] : plan[2][i].op = "delete" /\ plan[2][i].id = id

\* An object may take a row away over a connection it was adopted over, or when a
\* person has approved a plan for that connection that names the row.
Granted(s, id) ==
  s.conn \in adopted[s.owner] \/ \E plan \in approved[s.owner] : Names(plan, s.conn, id)

-----------------------------------------------------------------------------
Open ==
  /\ sessions = {}
  /\ \E s \in sessions' : /\ sessions' = {s}
                          /\ s.owner \in Owners /\ RouterOf(s) \in Routers /\ s.kind \in Kinds
  /\ UNCHANGED <<present, shown, approved, adopted, hands>>

Insert(s) ==
  /\ \E id \in present'[RouterOf(s)] :
       present' = [present EXCEPT ![RouterOf(s)] = @ \cup {id}]
  /\ UNCHANGED <<shown, approved, adopted, sessions, hands>>

\* One row at a time, from the router of the session, and under Prune only with
\* the authority to.
Remove(s) ==
  /\ \E id \in present[RouterOf(s)] :
       /\ present' = [present EXCEPT ![RouterOf(s)] = @ \ {id}]
       /\ s.kind = "prune" => Granted(s, id)
  /\ UNCHANGED <<shown, approved, adopted, sessions, hands>>

\* A session ends, however it went.  Only one under Prune adopts its connection.
Close(s) ==
  /\ sessions' = {}
  /\ \/ UNCHANGED adopted
     \/ s.kind = "prune" /\ adopted' = [adopted EXCEPT ![s.owner] = @ \cup {s.conn}]
  /\ \A o \in Owners \ {s.owner} : shown'[o] = shown[o]
  /\ UNCHANGED <<present, approved, hands>>

\* An object shows another plan, while nobody is at work.
Show ==
  /\ sessions = {} /\ sessions' = {}
  /\ \E o \in Owners : \A k \in Owners \ {o} : shown'[k] = shown[k]
  /\ UNCHANGED <<present, approved, adopted, hands>>

\* A person approves the plan an object shows.
Approve(o) ==
  /\ shown[o] # Nobody
  /\ approved' = [approved EXCEPT ![o] = @ \cup {shown[o]}]
  /\ UNCHANGED <<present, shown, adopted, sessions, hands>>

\* People and other tools change a router.
ByHand(r) ==
  /\ hands' = hands + 1
  /\ \A q \in Routers \ {r} : present'[q] = present[q]
  /\ UNCHANGED <<shown, approved, adopted, sessions>>

\* What the controller does, and what people do.
AtWork == \E s \in sessions : Insert(s) \/ Remove(s) \/ Close(s)
People == (\E o \in Owners : Approve(o)) \/ (\E r \in Routers : ByHand(r))

Init ==
  /\ shown = [o \in Owners |-> Nobody]
  /\ approved = [o \in Owners |-> {}]
  /\ adopted = [o \in Owners |-> {}]
  /\ sessions = {} /\ hands = 0

Next == Open \/ AtWork \/ Show \/ People
Spec == Init /\ [][Next]_vars
=============================================================================
