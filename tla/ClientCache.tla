----------------------------- MODULE ClientCache ----------------------------
(***************************************************************************)
(* internal/routerosruntime: the clients of the upstream Terraform         *)
(* provider, shared by the reconcile workers of the generated controllers. *)
(*                                                                         *)
(* Upstream keeps the RouterOS version of "the" router in a package-global *)
(* variable and expects one client per process; here many clients live in  *)
(* one process.  ClientCache.Configure makes each client once under the    *)
(* cache's mutex, WrapProvider runs every resource callback under          *)
(* operationMu with the version of its own client in the global, and Close *)
(* shuts the clients when the process is told to stop.                     *)
(*                                                                         *)
(* pc says where a goroutine is:                                           *)
(*   idle, cacheLock, lookup, opLock, configure, store   Configure         *)
(*   ready, assign, callback        a worker with its Meta, and acquireMeta*)
(*   open, closing, closeOps, shutting, done             Close             *)
(***************************************************************************)
EXTENDS Integers, FiniteSets

CONSTANTS Workers, Closers,
          Raws,         \* configurations as decoded from credentials
          FieldType,    \* the type upstream's schema gives a field
          ParsedBool,   \* strconv.ParseBool, on the texts that parse
          ParsedInt,    \* strconv.Atoi, on the texts that parse
          Hosts,        \* the routers
          ClientAt,     \* the type of client upstream makes for a router's address
          Versions,     \* RouterOS versions
          FirstVersions,\* what the routers may run to begin with
          Nil,
          MaxUpgrades   \* bound on routers changing their version

ASSUME ProcsAssumption    == Workers \cap Closers = {} /\ Nil \notin Workers \cup Closers
ASSUME UpgradesAssumption == MaxUpgrades \in Nat
ASSUME VersionsAssumption == FirstVersions \subseteq [Hosts -> Versions]
ASSUME ClientsAssumption  == ClientAt \in [Hosts -> {"api", "rest", "other"}]
ASSUME HostAssumption ==
  /\ "hosturl" \in DOMAIN FieldType /\ FieldType["hosturl"] = "string"
  /\ \A raw \in Raws : "hosturl" \in DOMAIN raw /\ raw["hosturl"].val \in Hosts

VARIABLES pc,
          key,              \* per worker: the normalized configuration it asks for
          meta,             \* per worker: the Meta it was given
          clients, closed,  \* ClientCache
          cacheMu, operationMu,
          RouterOSVersion,  \* upstream's global
          running,          \* what every router runs now
          ran,              \* history: what every router has run
          made,             \* history: every Meta made
          opened,           \* the Metas with an open connection
          upgrades

lockVars  == <<cacheMu, operationMu>>
cacheVars == <<clients, closed, made, opened>>
hostVars  == <<running, ran, upgrades>>
vars == <<pc, key, meta, cacheVars, lockVars, RouterOSVersion, hostVars>>

Procs == Workers \cup Closers

-----------------------------------------------------------------------------
\* normalizeConfiguration: a value is [type, val], as JSON has it; json.Number
\* keeps the digits.
toString(v) == IF v.type = "string" THEN v ELSE Nil
toBool(v) ==
  IF v.type = "bool" THEN v
  ELSE IF v.type = "string" /\ v.val \in DOMAIN ParsedBool
  THEN [type |-> "bool", val |-> ParsedBool[v.val]] ELSE Nil
toInt(v) ==
  IF v.type \in {"number", "string"} /\ v.val \in DOMAIN ParsedInt
  THEN [type |-> "int", val |-> ParsedInt[v.val]] ELSE Nil

Convert(f, v) ==
  IF f \notin DOMAIN FieldType \/ v.type = "null" THEN v
  ELSE CASE FieldType[f] = "string" -> toString(v)
         [] FieldType[f] = "bool"   -> toBool(v)
         [] FieldType[f] = "int"    -> toInt(v)
         [] OTHER                   -> v

\* The cache key: an injective digest of the converted fields, or Nil when one
\* of them does not convert.
NormalizeConfiguration(raw) ==
  LET normal == [f \in DOMAIN raw |-> Convert(f, raw[f])]
  IN  IF \E f \in DOMAIN raw : normal[f] = Nil THEN Nil ELSE normal

Host(k) == k["hosturl"].val
ClientType(m) == ClientAt[Host(m.key)]

Goto(p, l) == pc' = [pc EXCEPT ![p] = l]

-----------------------------------------------------------------------------
\* ClientCache.Configure

Setup(w) ==
  /\ pc[w] = "idle"
  /\ \E raw \in Raws :
       LET k == NormalizeConfiguration(raw)
       IN  \/ k = Nil /\ UNCHANGED <<pc, key>>
           \/ k # Nil /\ key' = [key EXCEPT ![w] = k] /\ Goto(w, "cacheLock")
  /\ UNCHANGED <<meta, cacheVars, lockVars, RouterOSVersion, hostVars>>

LockCache(w) ==
  /\ pc[w] = "cacheLock" /\ cacheMu = Nil
  /\ cacheMu' = w
  /\ Goto(w, "lookup")
  /\ UNCHANGED <<key, meta, cacheVars, operationMu, RouterOSVersion, hostVars>>

\* Mutants: the closed flag is not looked at; a closed cache is asked again; the
\* mutex is released before a missing client is made.
LookupIgnoresClosed(w) ==
  /\ pc[w] = "lookup"
  /\ IF key[w] \in DOMAIN clients
     THEN meta' = [meta EXCEPT ![w] = clients[key[w]]] /\ Goto(w, "ready") /\ cacheMu' = Nil
     ELSE Goto(w, "opLock") /\ UNCHANGED <<meta, cacheMu>>
  /\ UNCHANGED <<key, cacheVars, operationMu, RouterOSVersion, hostVars>>
LookupRetries(w) ==
  /\ pc[w] = "lookup"
  /\ IF closed THEN Goto(w, "cacheLock") /\ cacheMu' = Nil /\ UNCHANGED meta
     ELSE IF key[w] \in DOMAIN clients
     THEN meta' = [meta EXCEPT ![w] = clients[key[w]]] /\ Goto(w, "ready") /\ cacheMu' = Nil
     ELSE Goto(w, "opLock") /\ UNCHANGED <<meta, cacheMu>>
  /\ UNCHANGED <<key, cacheVars, operationMu, RouterOSVersion, hostVars>>
LookupUnlocks(w) ==
  /\ pc[w] = "lookup" /\ cacheMu' = Nil
  /\ IF closed THEN Goto(w, "idle") /\ UNCHANGED meta
     ELSE IF key[w] \in DOMAIN clients
     THEN meta' = [meta EXCEPT ![w] = clients[key[w]]] /\ Goto(w, "ready")
     ELSE Goto(w, "opLock") /\ UNCHANGED meta
  /\ UNCHANGED <<key, cacheVars, operationMu, RouterOSVersion, hostVars>>

\* Under the cache's mutex: an error once closed, the cached Meta, or a miss.
Lookup(w) ==
  /\ pc[w] = "lookup"
  /\ IF closed THEN Goto(w, "idle") /\ cacheMu' = Nil /\ UNCHANGED meta
     ELSE IF key[w] \in DOMAIN clients
     THEN meta' = [meta EXCEPT ![w] = clients[key[w]]] /\ Goto(w, "ready") /\ cacheMu' = Nil
     ELSE Goto(w, "opLock") /\ UNCHANGED <<meta, cacheMu>>
  /\ UNCHANGED <<key, cacheVars, operationMu, RouterOSVersion, hostVars>>

LockForConfigure(w) ==
  /\ pc[w] = "opLock" /\ operationMu = Nil
  /\ operationMu' = w
  /\ Goto(w, "configure")
  /\ UNCHANGED <<key, meta, cacheVars, cacheMu, RouterOSVersion, hostVars>>

\* Upstream's Configure asks the router for its version and leaves it in the global.
ProviderConfigure(w) ==
  /\ pc[w] = "configure"
  /\ RouterOSVersion' = running[Host(key[w])]
  /\ Goto(w, "store")
  /\ UNCHANGED <<key, meta, cacheVars, lockVars, hostVars>>

\* Mutant: an error path returns with the cache still locked.
ConfigureFailsLocked(w) ==
  /\ pc[w] = "configure"
  /\ RouterOSVersion' \in {RouterOSVersion, running[Host(key[w])]}
  /\ Goto(w, "idle")
  /\ operationMu' = Nil
  /\ UNCHANGED <<key, meta, cacheVars, cacheMu, hostVars>>

\* Validate or Configure reports an error, before or after the global was set, or
\* the client is not of the expected type.
ConfigureFails(w) ==
  /\ pc[w] = "configure"
  /\ RouterOSVersion' \in {RouterOSVersion, running[Host(key[w])]}
  /\ Goto(w, "idle")
  /\ cacheMu' = Nil /\ operationMu' = Nil
  /\ UNCHANGED <<key, meta, cacheVars, hostVars>>

\* Mutant: the new client is cached but the caller gets none.
StoreDrops(w) ==
  /\ pc[w] = "store"
  /\ LET m == [id |-> Cardinality(made) + 1, key |-> key[w], version |-> RouterOSVersion]
     IN  /\ clients' = [k \in DOMAIN clients \cup {key[w]} |-> IF k = key[w] THEN m ELSE clients[k]]
         /\ made' = made \cup {m} /\ opened' = opened \cup {m}
  /\ Goto(w, "ready")
  /\ cacheMu' = Nil /\ operationMu' = Nil
  /\ UNCHANGED <<key, meta, closed, RouterOSVersion, hostVars>>

\* The Meta captures the global; both mutexes are released on return.
Store(w) ==
  /\ pc[w] = "store"
  /\ LET m == [id |-> Cardinality(made) + 1, key |-> key[w], version |-> RouterOSVersion]
     IN  /\ clients' = [k \in DOMAIN clients \cup {key[w]} |-> IF k = key[w] THEN m ELSE clients[k]]
         /\ meta' = [meta EXCEPT ![w] = m]
         /\ made' = made \cup {m} /\ opened' = opened \cup {m}
  /\ Goto(w, "ready")
  /\ cacheMu' = Nil /\ operationMu' = Nil
  /\ UNCHANGED <<key, closed, RouterOSVersion, hostVars>>

-----------------------------------------------------------------------------
\* A wrapped callback: acquireMeta, the original, and the deferred Unlock.

AcquireMeta(w) ==
  /\ pc[w] = "ready" /\ operationMu = Nil
  /\ operationMu' = w
  /\ Goto(w, "assign")
  /\ UNCHANGED <<key, meta, cacheVars, cacheMu, RouterOSVersion, hostVars>>

\* Mutant: the global is left as the last client set it.
AssignNothing(w) ==
  /\ pc[w] = "assign"
  /\ Goto(w, "callback")
  /\ UNCHANGED <<key, meta, cacheVars, lockVars, RouterOSVersion, hostVars>>

AssignVersion(w) ==
  /\ pc[w] = "assign"
  /\ RouterOSVersion' = meta[w].version
  /\ Goto(w, "callback")
  /\ UNCHANGED <<key, meta, cacheVars, lockVars, hostVars>>

\* Upstream sends a request.  A REST client connects again when it has no
\* connection left; an API client that was closed returns an error.
Request(w) ==
  /\ pc[w] = "callback" /\ ClientType(meta[w]) = "rest"
  /\ opened' = opened \cup {meta[w]}
  /\ UNCHANGED <<pc, key, meta, clients, closed, made, lockVars, RouterOSVersion, hostVars>>

\* The callback returns: another one of the same reconciliation may follow.
CallbackReturns(w) ==
  /\ pc[w] = "callback"
  /\ operationMu' = Nil
  /\ \/ Goto(w, "ready") /\ UNCHANGED meta
     \/ Goto(w, "idle") /\ meta' = [meta EXCEPT ![w] = Nil]
  /\ UNCHANGED <<key, cacheVars, cacheMu, RouterOSVersion, hostVars>>

-----------------------------------------------------------------------------
\* ClientCache.Close

ContextDone(c) ==
  /\ pc[c] = "open"
  /\ Goto(c, "closing")
  /\ UNCHANGED <<key, meta, cacheVars, lockVars, RouterOSVersion, hostVars>>

LockToClose(c) ==
  /\ pc[c] = "closing" /\ cacheMu = Nil
  /\ IF closed THEN Goto(c, "done") /\ UNCHANGED <<closed, cacheMu>>
     ELSE Goto(c, "closeOps") /\ closed' = TRUE /\ cacheMu' = c
  /\ UNCHANGED <<key, meta, clients, made, opened, operationMu, RouterOSVersion, hostVars>>

\* Mutants: Close does not wait for the callback in progress; Close waits until
\* no worker holds a Meta.
CloseBargesIn(c) ==
  /\ pc[c] = "closeOps"
  /\ operationMu' = c
  /\ Goto(c, "shutting")
  /\ UNCHANGED <<key, meta, cacheVars, cacheMu, RouterOSVersion, hostVars>>
CloseWaitsForAll(c) ==
  /\ pc[c] = "closeOps" /\ operationMu = Nil
  /\ \A w \in Workers : meta[w] = Nil
  /\ operationMu' = c
  /\ Goto(c, "shutting")
  /\ UNCHANGED <<key, meta, cacheVars, cacheMu, RouterOSVersion, hostVars>>

LockOpsToClose(c) ==
  /\ pc[c] = "closeOps" /\ operationMu = Nil
  /\ operationMu' = c
  /\ Goto(c, "shutting")
  /\ UNCHANGED <<key, meta, cacheVars, cacheMu, RouterOSVersion, hostVars>>

\* API clients are closed, an error from one or not, REST clients drop their
\* connections, which are idle since no callback runs, clients of another type
\* are left alone, and the map is dropped.
CloseClients(c) ==
  /\ pc[c] = "shutting"
  /\ opened' = opened \ {m \in {clients[k] : k \in DOMAIN clients} : ClientType(m) \in {"api", "rest"}}
  /\ clients' = [k \in {} |-> Nil]
  /\ Goto(c, "done")
  /\ cacheMu' = Nil /\ operationMu' = Nil
  /\ UNCHANGED <<key, meta, closed, made, RouterOSVersion, hostVars>>

-----------------------------------------------------------------------------
\* A router is upgraded.
Upgrade(h) ==
  /\ upgrades < MaxUpgrades /\ upgrades' = upgrades + 1
  /\ \E v \in Versions \ {running[h]} :
       /\ running' = [running EXCEPT ![h] = v]
       /\ ran' = [ran EXCEPT ![h] = @ \cup {v}]
  /\ UNCHANGED <<pc, key, meta, cacheVars, lockVars, RouterOSVersion>>

Init ==
  /\ pc = [p \in Procs |-> IF p \in Workers THEN "idle" ELSE "open"]
  /\ key = [w \in Workers |-> Nil]
  /\ meta = [w \in Workers |-> Nil]
  /\ clients = [k \in {} |-> Nil] /\ closed = FALSE
  /\ made = {} /\ opened = {}
  /\ cacheMu = Nil /\ operationMu = Nil
  /\ running \in FirstVersions
  /\ ran = [h \in Hosts |-> {running[h]}]
  /\ RouterOSVersion = Nil
  /\ upgrades = 0

\* What a goroutine does next by itself, and where it waits for a mutex.
WorkerRuns(w) == Lookup(w) \/ ProviderConfigure(w) \/ ConfigureFails(w) \/ Store(w)
                   \/ AssignVersion(w) \/ CallbackReturns(w)
WorkerLocks(w) == LockCache(w) \/ LockForConfigure(w)
CloserLocks(c) == LockToClose(c) \/ LockOpsToClose(c)

Worker(w) == Setup(w) \/ WorkerLocks(w) \/ WorkerRuns(w) \/ AcquireMeta(w) \/ Request(w)
Closer(c) == ContextDone(c) \/ CloserLocks(c) \/ CloseClients(c)

Next == \/ \E w \in Workers : Worker(w)
        \/ \E c \in Closers : Closer(c)
        \/ \E h \in Hosts : Upgrade(h)
Spec == Init /\ [][Next]_vars

\* Goroutines are scheduled, callbacks return, and sync.Mutex starves nobody
\* (a waiter is handed the lock after a millisecond).
FairSpec ==
  /\ Spec
  /\ \A w \in Workers : WF_vars(WorkerRuns(w)) /\ SF_vars(WorkerLocks(w))
  /\ \A c \in Closers : WF_vars(CloseClients(c)) /\ SF_vars(CloserLocks(c))

-----------------------------------------------------------------------------
(***************************************************************************)
(* Properties                                                              *)
(***************************************************************************)

HoldsCache == {"lookup", "opLock", "configure", "store", "closeOps", "shutting"}
HoldsOps   == {"configure", "store", "assign", "callback", "shutting"}

\* Types, and that a worker past Configure has a Meta.
TypeOK ==
  /\ pc \in [Procs -> {"idle", "cacheLock", "ready", "open", "closing", "done"}
                        \cup HoldsCache \cup HoldsOps]
  /\ DOMAIN key = Workers /\ DOMAIN meta = Workers
  /\ closed \in BOOLEAN
  /\ cacheMu \in Procs \cup {Nil} /\ operationMu \in Procs \cup {Nil}
  /\ opened \subseteq made /\ \A k \in DOMAIN clients : clients[k] \in made
  /\ \A w \in Workers :
       /\ pc[w] \in {"ready", "assign", "callback"} => meta[w] \in made
       /\ pc[w] \notin {"open", "closing", "closeOps", "shutting", "done"}
       /\ pc[w] \in {"cacheLock"} \cup HoldsCache => Host(key[w]) \in Hosts
  /\ \A c \in Closers : pc[c] \in {"open", "closing", "closeOps", "shutting", "done"}
  /\ running \in [Hosts -> Versions] /\ DOMAIN ran = Hosts
  /\ \A h \in Hosts : running[h] \in ran[h]
  /\ upgrades \in 0 .. MaxUpgrades

\* Each mutex is held by exactly the goroutine that is inside its section, on
\* every path out of Configure, of a callback and of Close.
LocksHeld ==
  \A p \in Procs : /\ cacheMu = p <=> pc[p] \in HoldsCache
                   /\ operationMu = p <=> pc[p] \in HoldsOps

\* A callback runs with the version of its own router in upstream's global, not
\* with the one another worker's Configure or callback has put there.
VersionCoherent ==
  \A w \in Workers : pc[w] = "callback" =>
    /\ RouterOSVersion = meta[w].version
    /\ RouterOSVersion \in ran[Host(meta[w].key)]

\* Workers whose configurations come to the same key share one client, however
\* their calls to Configure interleave with one another and with Close: no second
\* client of a configuration is ever made.
OneClient == \A a, b \in made : a.key = b.key => a = b

Returned == \E c \in Closers : pc[c] = "done"

\* When a call to Close returns, every API and REST connection is closed; from then
\* on no client is made and nobody is given one.  What may still be opened is a
\* REST connection, by a worker that has kept its client: acquireMeta does not ask
\* whether the cache is closed.  An API client stays closed.
ClosedForGood ==
  [][/\ ~Returned /\ Returned' => \A m \in opened' : ClientType(m) = "other"
     /\ Returned => /\ made' = made
                    /\ \A w \in Workers : meta'[w] \in {meta[w], Nil}
                    /\ \A m \in opened' \ opened :
                         ClientType(m) = "rest" /\ \E w \in Workers : meta[w] = m]_vars

\* No connection is closed under a callback that is using one.
CallbackKeepsClient ==
  [][opened \subseteq opened' \/ \A w \in Workers : pc[w] # "callback"]_vars

\* The workers that have their Meta, and the callbacks in progress.
HeldBy(w) == IF pc[w] \in {"ready", "assign", "callback"} THEN {meta[w]} ELSE {}
Calls == {[worker |-> w, version |-> RouterOSVersion] : w \in {v \in Workers : pc[v] = "callback"}}

Registry == INSTANCE ClientRegistry
  WITH Users <- Workers, Routers <- Hosts,
       wanted <- key, held <- [w \in Workers |-> HeldBy(w)], calls <- Calls, closing <- closed

\* To the workers and to upstream the cache, its two mutexes and the guarded global
\* amount to a registry that hands out clients in single steps: a client of one's
\* own configuration, connected, and never a second one for it; callbacks one at a
\* time, each seeing its own router's version and keeping its connection.
ActsAsRegistry == Registry!Spec

\* A call to Configure returns, and so does Close: nobody waits forever on the
\* two mutexes, which Configure and Close take in the same order.
ConfigureReturns == \A w \in Workers : pc[w] = "cacheLock" ~> pc[w] \in {"idle", "ready"}
CloseReturns == \A c \in Closers : pc[c] = "closing" ~> pc[c] = "done"
=============================================================================
