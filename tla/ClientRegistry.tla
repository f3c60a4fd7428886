--------------------------- MODULE ClientRegistry ---------------------------
(***************************************************************************)
(* What internal/routerosruntime promises to the controllers and to the    *)
(* upstream provider, without mutexes, without a package-global version    *)
(* and without the steps in between: clients are obtained, used and closed *)
(* in single steps.                                                        *)
(*   wanted   the configuration every worker asks for                      *)
(*   held     the client every worker has: a set of at most one            *)
(*   made     every client there has been, opened the ones still connected *)
(*   calls    the callbacks running, each with the version it sees         *)
(*   closing  Close has been called                                        *)
(*   ran      the versions every router has run                            *)
(* ClientCache implements it.                                              *)
(***************************************************************************)
CONSTANTS Users, Routers,
          ClientAt      \* the type of client a router's address asks for

VARIABLES wanted, held, made, opened, calls, closing, ran

vars == <<wanted, held, made, opened, calls, closing, ran>>

RouterOf(c) == c.key["hosturl"].val
Type(c) == ClientAt[RouterOf(c)]

-----------------------------------------------------------------------------
Ask(w) ==
  /\ held[w] = {}
  /\ \A v \in Users \ {w} : wanted'[v] = wanted[v]
  /\ UNCHANGED <<held, made, opened, calls, closing, ran>>

\* A worker gets a client of its configuration that is connected: the one there
\* is, or a new one if there has never been one.
Obtain(w) ==
  /\ held[w] = {} /\ ~closing
  /\ \E c \in opened' :
       /\ c.key = wanted[w]
       /\ held' = [held EXCEPT ![w] = {c}]
       /\ \/ UNCHANGED <<made, opened>>
          \/ /\ \A d \in made : d.key # wanted[w]
             /\ made' = made \cup {c} /\ opened' = opened \cup {c}
  /\ UNCHANGED <<wanted, calls, closing, ran>>

\* Callbacks run one at a time, each with a version its own router has run, and
\* with a client that is connected unless Close was called.
Invoke(w) ==
  /\ calls = {}
  /\ \E c \in held[w] : /\ calls' = {[worker |-> w, version |-> c.version]}
                        /\ c.version \in ran[RouterOf(c)]
                        /\ c \in opened \/ closing
  /\ UNCHANGED <<wanted, held, made, opened, closing, ran>>

\* A callback uses a REST client, which connects when it is not connected.
Reconnect(w) ==
  /\ \E call \in calls : call.worker = w
  /\ \E c \in held[w] : Type(c) = "rest" /\ opened' = opened \cup {c}
  /\ UNCHANGED <<wanted, held, made, calls, closing, ran>>

\* A callback returns, and the worker may be done with its client.
Finish(w) ==
  /\ \E call \in calls : call.worker = w /\ calls' = {}
  /\ UNCHANGED held \/ held' = [held EXCEPT ![w] = {}]
  /\ UNCHANGED <<wanted, made, opened, closing, ran>>

StartClosing ==
  /\ ~closing /\ closing' = TRUE
  /\ UNCHANGED <<wanted, held, made, opened, calls, ran>>

\* The connections of API and REST clients are closed, and under no callback.
CloseAll ==
  /\ closing /\ calls = {}
  /\ opened' = {c \in opened : Type(c) = "other"}
  /\ UNCHANGED <<wanted, held, made, calls, closing, ran>>

Upgrade(h) ==
  /\ \A g \in Routers : IF g = h THEN ran[g] \subseteq ran'[g] ELSE ran'[g] = ran[g]
  /\ UNCHANGED <<wanted, held, made, opened, calls, closing>>

Init ==
  /\ held = [w \in Users |-> {}]
  /\ made = {} /\ opened = {} /\ calls = {}
  /\ closing = FALSE

Next == \/ \E w \in Users : Ask(w) \/ Obtain(w) \/ Invoke(w) \/ Reconnect(w) \/ Finish(w)
        \/ StartClosing \/ CloseAll
        \/ \E h \in Routers : Upgrade(h)
Spec == Init /\ [][Next]_vars
=============================================================================
