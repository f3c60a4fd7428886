-------------------------- MODULE ClientCacheProofs -------------------------
(***************************************************************************)
(* What ClientCache guarantees for any number of workers, of calls to      *)
(* Close, of configurations and of routers.                                *)
(***************************************************************************)
EXTENDS ClientCache, TLAPS

\* normalizeConfiguration leaves the address of the router as it is.
LEMMA NormalizeKeepsHost ==
  ASSUME NEW raw \in Raws, NormalizeConfiguration(raw) # Nil
  PROVE  Host(NormalizeConfiguration(raw)) \in Hosts
<1> DEFINE v == raw["hosturl"]
<1>1. "hosturl" \in DOMAIN raw /\ v.val \in Hosts
  BY HostAssumption
<1>2. /\ NormalizeConfiguration(raw) = [f \in DOMAIN raw |-> Convert(f, raw[f])]
      /\ Convert("hosturl", v) # Nil
  BY <1>1 DEF NormalizeConfiguration
<1>3. Convert("hosturl", v) = v
  BY <1>2, HostAssumption DEF Convert, toString
<1> QED BY <1>1, <1>2, <1>3 DEF Host

-----------------------------------------------------------------------------
\* Types and mutual exclusion.

\* No lock is held to begin with.
LEMMA InitLocks == Init => TypeOK /\ LocksHeld
<1> SUFFICES ASSUME Init PROVE TypeOK /\ LocksHeld
  OBVIOUS
<1>1. \A w \in Workers : pc[w] = "idle"
  BY DEF Init, Procs
<1>2. \A c \in Closers : pc[c] = "open"
  BY ProcsAssumption DEF Init, Procs
<1>3. LocksHeld
  BY <1>1, <1>2, ProcsAssumption DEF Init, LocksHeld, HoldsCache, HoldsOps, Procs
<1>4. pc \in [Procs -> {"idle", "open"}]
  BY DEF Init, Procs
<1>5. upgrades \in 0 .. MaxUpgrades
  BY UpgradesAssumption DEF Init
<1>6. \A h \in Hosts : running[h] \in ran[h]
  BY DEF Init
<1> QED BY <1>1, <1>2, <1>3, <1>4, <1>5, <1>6, VersionsAssumption DEF Init, TypeOK, HoldsCache, HoldsOps

\* Every step of a worker or a closer keeps the types, and a lock is held by one
\* process only: the one whose program counter says so.
LEMMA NextLocks == TypeOK /\ LocksHeld /\ [Next]_vars => TypeOK' /\ LocksHeld'
<1> SUFFICES ASSUME TypeOK, LocksHeld, [Next]_vars PROVE TypeOK' /\ LocksHeld'
  OBVIOUS
<1> USE ProcsAssumption, UpgradesAssumption
<1> USE DEF TypeOK, LocksHeld, HoldsCache, HoldsOps, Procs, Goto, lockVars, cacheVars, hostVars
<1>1. ASSUME NEW w \in Workers, Setup(w) PROVE TypeOK' /\ LocksHeld'
  <2>1. CASE UNCHANGED <<pc, key>>
    BY <1>1, <2>1 DEF Setup
  <2>2. CASE ~UNCHANGED <<pc, key>>
    <3>1. PICK raw \in Raws : /\ NormalizeConfiguration(raw) # Nil
                              /\ key' = [key EXCEPT ![w] = NormalizeConfiguration(raw)]
                              /\ pc' = [pc EXCEPT ![w] = "cacheLock"]
      BY <1>1, <2>2 DEF Setup
    <3>2. Host(NormalizeConfiguration(raw)) \in Hosts
      BY <3>1, NormalizeKeepsHost
    <3> QED BY <1>1, <3>1, <3>2 DEF Setup
  <2> QED BY <2>1, <2>2
<1>2. ASSUME NEW w \in Workers, LockCache(w) PROVE TypeOK' /\ LocksHeld'
  BY <1>2 DEF LockCache
<1>3. ASSUME NEW w \in Workers, Lookup(w) PROVE TypeOK' /\ LocksHeld'
  BY <1>3 DEF Lookup
<1>4. ASSUME NEW w \in Workers, LockForConfigure(w) PROVE TypeOK' /\ LocksHeld'
  BY <1>4 DEF LockForConfigure
<1>5. ASSUME NEW w \in Workers, ProviderConfigure(w) PROVE TypeOK' /\ LocksHeld'
  BY <1>5 DEF ProviderConfigure
<1>6. ASSUME NEW w \in Workers, ConfigureFails(w) PROVE TypeOK' /\ LocksHeld'
  BY <1>6 DEF ConfigureFails
<1>7. ASSUME NEW w \in Workers, Store(w) PROVE TypeOK' /\ LocksHeld'
  BY <1>7 DEF Store
<1>8. ASSUME NEW w \in Workers, AcquireMeta(w) PROVE TypeOK' /\ LocksHeld'
  BY <1>8 DEF AcquireMeta
<1>9. ASSUME NEW w \in Workers, AssignVersion(w) PROVE TypeOK' /\ LocksHeld'
  BY <1>9 DEF AssignVersion
<1>10. ASSUME NEW w \in Workers, CallbackReturns(w) PROVE TypeOK' /\ LocksHeld'
  BY <1>10 DEF CallbackReturns
<1>r. ASSUME NEW w \in Workers, Request(w) PROVE TypeOK' /\ LocksHeld'
  BY <1>r DEF Request
<1>11. ASSUME NEW c \in Closers, ContextDone(c) PROVE TypeOK' /\ LocksHeld'
  BY <1>11 DEF ContextDone
<1>12. ASSUME NEW c \in Closers, LockToClose(c) PROVE TypeOK' /\ LocksHeld'
  <2>1. closed' \in BOOLEAN
    BY <1>12 DEF LockToClose
  <2>2. CASE closed
    BY <1>12, <2>1, <2>2 DEF LockToClose
  <2>3. CASE ~closed
    <3>1. LocksHeld'
      BY <1>12, <2>3 DEF LockToClose
    <3> QED BY <1>12, <2>1, <2>3, <3>1 DEF LockToClose
  <2> QED BY <2>2, <2>3
<1>13. ASSUME NEW c \in Closers, LockOpsToClose(c) PROVE TypeOK' /\ LocksHeld'
  BY <1>13 DEF LockOpsToClose
<1>14. ASSUME NEW c \in Closers, CloseClients(c) PROVE TypeOK' /\ LocksHeld'
  BY <1>14 DEF CloseClients
<1>15. ASSUME NEW h \in Hosts, Upgrade(h) PROVE TypeOK' /\ LocksHeld'
  BY <1>15 DEF Upgrade
<1>16. CASE UNCHANGED vars
  BY <1>16 DEF vars
<1> QED
  BY <1>1, <1>2, <1>3, <1>4, <1>5, <1>6, <1>7, <1>8, <1>9, <1>10, <1>r, <1>11, <1>12, <1>13, <1>14, <1>15, <1>16
  DEF Next, Worker, Closer, WorkerRuns, WorkerLocks, CloserLocks

\* The two mutexes are held exactly inside the sections they guard.
THEOREM MutualExclusion == Spec => [](TypeOK /\ LocksHeld)
BY InitLocks, NextLocks, PTL DEF Spec

\* A goroutine's configuration, key and Meta are there from the step of Configure
\* that assigns them on.
THEOREM TypeCorrect == Spec => []TypeOK
BY MutualExclusion, PTL

-----------------------------------------------------------------------------
\* The version of one's own router.

\* What makes a callback's version right: a Meta captures a version its router
\* has run, because the global still holds what Configure put there.
OwnVersion ==
  /\ \A w \in Workers : pc[w] = "store" => RouterOSVersion \in ran[Host(key[w])]
  /\ \A m \in made : Host(m.key) \in Hosts /\ m.version \in ran[Host(m.key)]
  /\ VersionCoherent

\* No client exists to begin with.
LEMMA InitVersions == Init => OwnVersion
<1> SUFFICES ASSUME Init PROVE OwnVersion
  OBVIOUS
<1>1. \A w \in Workers : pc[w] = "idle"
  BY DEF Init, Procs
<1> QED BY <1>1 DEF Init, OwnVersion, VersionCoherent

\* Every step keeps the version of a client one its own router has run, because the
\* global is only written and read under operationMu.
LEMMA NextVersions ==
  TypeOK /\ LocksHeld /\ OwnVersion /\ [Next]_vars => OwnVersion'
<1> SUFFICES ASSUME TypeOK, LocksHeld, OwnVersion, [Next]_vars PROVE OwnVersion'
  OBVIOUS
<1> USE ProcsAssumption
<1> USE DEF OwnVersion, VersionCoherent, Goto, lockVars, cacheVars, hostVars
<1>t. /\ pc \in [Procs -> {"idle", "cacheLock", "ready", "open", "closing", "done"}
                            \cup HoldsCache \cup HoldsOps]
      /\ DOMAIN key = Workers /\ DOMAIN meta = Workers
      /\ \A w \in Workers : w \in Procs
      /\ \A c \in Closers : c \in Procs /\ c \notin Workers
  BY DEF TypeOK, Procs
\* Steps that leave the global and the Metas alone, and bring no worker into a
\* section.
<1>q. ASSUME NEW p \in Procs, NEW l, l \notin {"store", "callback"}, pc' = [pc EXCEPT ![p] = l],
             UNCHANGED <<made, ran, RouterOSVersion>>,
             \A w \in Workers \ {p} : key'[w] = key[w] /\ meta'[w] = meta[w]
      PROVE  OwnVersion'
  BY <1>q, <1>t
\* Steps of a worker that holds operationMu, after which no worker runs a callback.
<1>o. ASSUME NEW w \in Workers, pc[w] \in HoldsOps
      PROVE  \A v \in Workers \ {w} : pc[v] \notin {"store", "callback"}
  BY <1>o, <1>t DEF LocksHeld, HoldsOps
<1>1. ASSUME NEW w \in Workers, Setup(w) PROVE OwnVersion'
  <2>1. CASE UNCHANGED <<pc, key>>
    BY <1>1, <2>1 DEF Setup
  <2>2. CASE ~UNCHANGED <<pc, key>>
    <3>1. /\ pc' = [pc EXCEPT ![w] = "cacheLock"]
          /\ \E k : key' = [key EXCEPT ![w] = k]
          /\ UNCHANGED <<made, ran, RouterOSVersion, meta>>
      BY <1>1, <2>2 DEF Setup
    <3> QED BY <1>q, <1>t, <3>1
  <2> QED BY <2>1, <2>2
<1>2. ASSUME NEW w \in Workers, LockCache(w) \/ LockForConfigure(w) \/ AcquireMeta(w) PROVE OwnVersion'
  BY <1>2, <1>q, <1>t DEF LockCache, LockForConfigure, AcquireMeta
<1>3. ASSUME NEW w \in Workers, Lookup(w) PROVE OwnVersion'
  <2>1. /\ \E l \in {"idle", "ready", "opLock"} : pc' = [pc EXCEPT ![w] = l]
        /\ UNCHANGED <<made, ran, RouterOSVersion, key>>
        /\ \A v \in Workers \ {w} : meta'[v] = meta[v]
    BY <1>3, <1>t DEF Lookup
  <2> QED BY <1>q, <1>t, <2>1
<1>4. ASSUME NEW w \in Workers, ProviderConfigure(w) PROVE OwnVersion'
  <2>1. RouterOSVersion' \in ran'[Host(key'[w])]
    BY <1>4 DEF ProviderConfigure, TypeOK, HoldsCache
  <2>2. \A v \in Workers \ {w} : pc'[v] \notin {"store", "callback"}
    BY <1>4, <1>o, <1>t DEF ProviderConfigure, HoldsOps
  <2> QED BY <1>4, <1>t, <2>1, <2>2 DEF ProviderConfigure
<1>5. ASSUME NEW w \in Workers, ConfigureFails(w) PROVE OwnVersion'
  <2>1. \A v \in Workers : pc'[v] \notin {"store", "callback"}
    BY <1>5, <1>o, <1>t DEF ConfigureFails, HoldsOps
  <2> QED BY <1>5, <2>1 DEF ConfigureFails
<1>6. ASSUME NEW w \in Workers, Store(w) PROVE OwnVersion'
  <2> DEFINE m == [id |-> Cardinality(made) + 1, key |-> key[w], version |-> RouterOSVersion]
  <2>1. made' = made \cup {m} /\ ran' = ran
    BY <1>6 DEF Store
  <2>2. m.key = key[w] /\ m.version = RouterOSVersion
    OBVIOUS
  <2>3. Host(m.key) \in Hosts /\ m.version \in ran[Host(m.key)]
    BY <1>6, <2>2 DEF Store, TypeOK, HoldsCache
  <2>4. \A v \in Workers : pc'[v] \notin {"store", "callback"}
    BY <1>6, <1>o, <1>t DEF Store, HoldsOps
  <2> HIDE DEF m
  <2> QED BY <2>1, <2>3, <2>4
<1>7. ASSUME NEW w \in Workers, AssignVersion(w) PROVE OwnVersion'
  <2>1. \A v \in Workers \ {w} : pc'[v] \notin {"store", "callback"}
    BY <1>7, <1>o, <1>t DEF AssignVersion, HoldsOps
  <2>2. meta[w] \in made
    BY <1>7 DEF AssignVersion, TypeOK
  <2> QED BY <1>7, <1>t, <2>1, <2>2 DEF AssignVersion
<1>8. ASSUME NEW w \in Workers, CallbackReturns(w) PROVE OwnVersion'
  <2>1. /\ \E l \in {"idle", "ready"} : pc' = [pc EXCEPT ![w] = l]
        /\ UNCHANGED <<made, ran, RouterOSVersion, key>>
        /\ \A v \in Workers \ {w} : meta'[v] = meta[v]
    BY <1>8, <1>t DEF CallbackReturns
  <2> QED BY <1>q, <1>t, <2>1
<1>r. ASSUME NEW w \in Workers, Request(w) PROVE OwnVersion'
  BY <1>r DEF Request
<1>9. ASSUME NEW c \in Closers, Closer(c) PROVE OwnVersion'
  <2>1. /\ \E l \in {"closing", "done", "closeOps", "shutting"} : pc' = [pc EXCEPT ![c] = l]
        /\ UNCHANGED <<made, ran, RouterOSVersion, key, meta>>
    BY <1>9 DEF Closer, ContextDone, CloserLocks, LockToClose, LockOpsToClose, CloseClients
  <2> QED BY <1>q, <1>t, <2>1
<1>10. ASSUME NEW h \in Hosts, Upgrade(h) PROVE OwnVersion'
  <2>1. \A x \in Hosts : ran[x] \subseteq ran'[x]
    BY <1>10 DEF Upgrade, TypeOK
  <2>2. \A w \in Workers : /\ pc[w] = "store" => Host(key[w]) \in Hosts
                           /\ pc[w] = "callback" => meta[w] \in made
    BY DEF TypeOK, HoldsCache
  <2> QED BY <1>10, <2>1, <2>2 DEF Upgrade
<1>11. CASE UNCHANGED vars
  BY <1>11 DEF vars
<1> QED
  BY <1>1, <1>2, <1>3, <1>4, <1>5, <1>6, <1>7, <1>8, <1>r, <1>9, <1>10, <1>11
  DEF Next, Worker, WorkerRuns, WorkerLocks

\* WrapProvider keeps upstream's single-client assumption: a callback never sees
\* the version of another worker's router.
THEOREM CallbackSeesItsVersion == Spec => []VersionCoherent
<1>1. OwnVersion => VersionCoherent
  BY DEF OwnVersion
<1> QED BY <1>1, MutualExclusion, InitVersions, NextVersions, PTL DEF Spec

-----------------------------------------------------------------------------
\* One client per configuration, and none after Close.

\* The cache holds every client made until a call to Close has emptied it for good;
\* a worker that is about to make one has seen, under the mutex it still holds,
\* that there is none and that the cache is not closed.
CacheCoherent ==
  /\ \A k \in DOMAIN clients : clients[k].key = k
  /\ ~Returned => \A m \in made : m.key \in DOMAIN clients /\ clients[m.key] = m
  /\ \A w \in Workers : pc[w] \in {"opLock", "configure", "store"} =>
       ~closed /\ key[w] \notin DOMAIN clients
  /\ \A c \in Closers : pc[c] \in {"closeOps", "shutting", "done"} => closed
  /\ closed => \/ \E c \in Closers : pc[c] \in {"closeOps", "shutting"}
               \/ Returned
  /\ \A c \in Closers : pc[c] = "done" => DOMAIN clients = {}
  /\ (\E c \in Closers : pc[c] \in {"closeOps", "shutting"}) => ~Returned
  /\ OneClient

\* The map is empty to begin with.
LEMMA InitCache == Init => CacheCoherent
<1> SUFFICES ASSUME Init PROVE CacheCoherent
  OBVIOUS
<1>1. \A w \in Workers : pc[w] = "idle"
  BY DEF Init, Procs
<1>2. \A c \in Closers : pc[c] = "open"
  BY ProcsAssumption DEF Init, Procs
<1>3. DOMAIN clients = {} /\ made = {} /\ opened = {} /\ closed = FALSE
  BY DEF Init
<1> QED BY <1>1, <1>2, <1>3 DEF CacheCoherent, OneClient

\* Every step keeps the map in agreement with the clients that were made.
LEMMA NextCache ==
  TypeOK /\ LocksHeld /\ CacheCoherent /\ [Next]_vars => CacheCoherent'
<1> SUFFICES ASSUME TypeOK, LocksHeld, CacheCoherent, [Next]_vars PROVE CacheCoherent'
  OBVIOUS
<1> USE ProcsAssumption
<1> USE DEF CacheCoherent, OneClient, Returned, Goto, lockVars, cacheVars, hostVars
<1>t. /\ pc \in [Procs -> {"idle", "cacheLock", "ready", "open", "closing", "done"}
                            \cup HoldsCache \cup HoldsOps]
      /\ DOMAIN key = Workers
      /\ \A w \in Workers : w \in Procs
      /\ \A c \in Closers : c \in Procs /\ c \notin Workers
  BY DEF TypeOK, Procs
\* Steps of a worker that leave the cache alone.
<1>q. ASSUME NEW w \in Workers, NEW l, pc' = [pc EXCEPT ![w] = l],
             UNCHANGED <<clients, closed, made>>,
             \A v \in Workers \ {w} : key'[v] = key[v],
             l \in {"opLock", "configure", "store"} => ~closed /\ key'[w] \notin DOMAIN clients
      PROVE  CacheCoherent'
  BY <1>q, <1>t
\* Only one goroutine is in a section under the cache's mutex.
<1>o. ASSUME NEW p \in Procs, pc[p] \in HoldsCache, NEW r \in Procs, r # p
      PROVE  pc[r] \notin HoldsCache
  BY <1>o DEF LocksHeld
<1>1. ASSUME NEW w \in Workers, Setup(w) PROVE CacheCoherent'
  <2>1. CASE UNCHANGED <<pc, key>>
    BY <1>1, <2>1 DEF Setup
  <2>2. CASE ~UNCHANGED <<pc, key>>
    <3>1. /\ pc' = [pc EXCEPT ![w] = "cacheLock"]
          /\ \E k : key' = [key EXCEPT ![w] = k]
          /\ UNCHANGED <<clients, closed, made>>
      BY <1>1, <2>2 DEF Setup
    <3> QED BY <1>q, <1>t, <3>1
  <2> QED BY <2>1, <2>2
<1>2. ASSUME NEW w \in Workers,
             LockCache(w) \/ AcquireMeta(w) \/ AssignVersion(w) \/ ConfigureFails(w)
      PROVE  CacheCoherent'
  <2>1. /\ \E l \in {"lookup", "assign", "callback", "idle"} : pc' = [pc EXCEPT ![w] = l]
        /\ UNCHANGED <<clients, closed, made, key>>
    BY <1>2 DEF LockCache, AcquireMeta, AssignVersion, ConfigureFails
  <2> QED BY <1>q, <2>1
<1>3. ASSUME NEW w \in Workers, LockForConfigure(w) \/ ProviderConfigure(w) PROVE CacheCoherent'
  BY <1>3, <1>q DEF LockForConfigure, ProviderConfigure
<1>4. ASSUME NEW w \in Workers, Lookup(w) PROVE CacheCoherent'
  <2>1. CASE ~closed /\ key[w] \notin DOMAIN clients
    BY <1>4, <2>1, <1>q DEF Lookup
  <2>2. CASE ~(~closed /\ key[w] \notin DOMAIN clients)
    <3>1. \E l \in {"idle", "ready"} : pc' = [pc EXCEPT ![w] = l]
      BY <1>4, <2>2 DEF Lookup
    <3> QED BY <1>4, <3>1, <1>q DEF Lookup
  <2> QED BY <2>1, <2>2
<1>5. ASSUME NEW w \in Workers, Store(w) PROVE CacheCoherent'
  <2> DEFINE m == [id |-> Cardinality(made) + 1, key |-> key[w], version |-> RouterOSVersion]
  <2>1. /\ made' = made \cup {m}
        /\ clients' = [k \in DOMAIN clients \cup {key[w]} |-> IF k = key[w] THEN m ELSE clients[k]]
        /\ pc' = [pc EXCEPT ![w] = "ready"] /\ key' = key /\ closed' = closed
    BY <1>5 DEF Store
  <2>2. m.key = key[w]
    OBVIOUS
  <2>3. ~closed /\ key[w] \notin DOMAIN clients
    BY <1>5 DEF Store
  <2>4. \A v \in Workers \ {w} : pc[v] \notin {"opLock", "configure", "store"}
    BY <1>5, <1>o, <1>t DEF Store, HoldsCache
  <2>5. \A c \in Closers : pc[c] \notin {"closeOps", "shutting", "done"}
    BY <2>3
  <2>6. \A a \in made : a.key # key[w]
    BY <2>3
  <2> HIDE DEF m
  <2>7. \A w2 \in Workers : pc'[w2] \notin {"opLock", "configure", "store"}
    BY <2>1, <2>4, <1>t
  <2>8. \A c \in Closers : pc'[c] \notin {"closeOps", "shutting", "done"}
    BY <2>1, <2>5, <1>t
  <2>9. OneClient'
    BY <2>1, <2>2, <2>6
  <2>10. \A x \in made' : x.key \in DOMAIN clients' /\ clients'[x.key] = x
    BY <2>1, <2>2, <2>3, <2>6
  <2>12. \A k \in DOMAIN clients' : clients'[k].key = k
    BY <2>1, <2>2
  <2> QED BY <2>1, <2>3, <2>7, <2>8, <2>9, <2>10, <2>12
<1>6. ASSUME NEW w \in Workers, CallbackReturns(w) PROVE CacheCoherent'
  <2>1. \E l \in {"idle", "ready"} : pc' = [pc EXCEPT ![w] = l]
    BY <1>6 DEF CallbackReturns
  <2> QED BY <1>6, <2>1, <1>q DEF CallbackReturns
<1>r. ASSUME NEW w \in Workers, Request(w) PROVE CacheCoherent'
  BY <1>r DEF Request
<1>7. ASSUME NEW c \in Closers, ContextDone(c) PROVE CacheCoherent'
  BY <1>7, <1>t DEF ContextDone
<1>8. ASSUME NEW c \in Closers, LockToClose(c) PROVE CacheCoherent'
  <2>1. CASE closed
    <3>1. \A d \in Closers : pc[d] \notin {"closeOps", "shutting"}
      BY <1>8, <1>t DEF LockToClose, LocksHeld, HoldsCache
    <3> QED BY <1>8, <1>t, <2>1, <3>1 DEF LockToClose
  <2>2. CASE ~closed
    <3>1. \A v \in Workers : pc[v] \notin {"opLock", "configure", "store"}
      BY <1>8, <1>t DEF LockToClose, LocksHeld, HoldsCache
    <3>2. /\ pc' = [pc EXCEPT ![c] = "closeOps"] /\ closed' = TRUE
          /\ UNCHANGED <<clients, made, key>>
      BY <1>8, <2>2 DEF LockToClose
    <3>3. closed' /\ pc'[c] = "closeOps"
      BY <3>2, <1>t
    <3>4. \A d \in Closers : pc'[d] # "done"
      BY <3>2, <2>2, <1>t
    <3>5. \A v \in Workers : pc'[v] \notin {"opLock", "configure", "store"}
      BY <3>1, <3>2, <1>t
    <3>6. \A m \in made : m.key \in DOMAIN clients /\ clients[m.key] = m
      BY <2>2
    <3> QED BY <3>2, <3>3, <3>4, <3>5, <3>6
  <2> QED BY <2>1, <2>2
<1>9. ASSUME NEW c \in Closers, LockOpsToClose(c) PROVE CacheCoherent'
  BY <1>9, <1>t DEF LockOpsToClose
<1>10. ASSUME NEW c \in Closers, CloseClients(c) PROVE CacheCoherent'
  <2>1. closed /\ closed' = closed
    BY <1>10 DEF CloseClients
  <2>2. DOMAIN clients' = {}
    BY <1>10 DEF CloseClients
  <2>3. pc'[c] = "done"
    BY <1>10, <1>t DEF CloseClients
  <2>4. \A v \in Workers : pc'[v] \notin {"opLock", "configure", "store"}
    BY <1>10, <1>t, <2>1 DEF CloseClients
  <2>5. \A d \in Closers : pc'[d] \notin {"closeOps", "shutting"}
    <3>1. \A d \in Closers \ {c} : pc[d] \notin HoldsCache
      BY <1>10, <1>o, <1>t DEF CloseClients, HoldsCache
    <3> QED BY <1>10, <1>t, <3>1 DEF CloseClients, HoldsCache
  <2> QED BY <1>10, <2>1, <2>2, <2>3, <2>4, <2>5 DEF CloseClients
<1>11. ASSUME NEW h \in Hosts, Upgrade(h) PROVE CacheCoherent'
  BY <1>11 DEF Upgrade
<1>12. CASE UNCHANGED vars
  BY <1>12 DEF vars
<1> QED
  BY <1>1, <1>2, <1>3, <1>4, <1>5, <1>6, <1>r, <1>7, <1>8, <1>9, <1>10, <1>11, <1>12
  DEF Next, Worker, Closer, WorkerRuns, WorkerLocks, CloserLocks

\* Configure makes at most one client per normalized configuration.
THEOREM OneClientPerConfiguration == Spec => []OneClient
<1>1. CacheCoherent => OneClient
  BY DEF CacheCoherent
<1> QED BY <1>1, MutualExclusion, InitCache, NextCache, PTL DEF Spec

\* A call to Close returns with every API and REST connection closed; afterwards no
\* client is made or handed out, and only a worker that kept its REST client opens
\* a connection.
THEOREM NothingOpenAfterClose == Spec => ClosedForGood
<1> DEFINE NothingNew ==
      /\ made' = made
      /\ \A w \in Workers : meta'[w] \in {meta[w], Nil}
      /\ \A m \in opened' \ opened : ClientType(m) = "rest" /\ \E w \in Workers : meta[w] = m
<1>1. ASSUME TypeOK, LocksHeld, OwnVersion, CacheCoherent, Next, ~Returned, Returned', NEW m \in opened'
      PROVE  ClientType(m) = "other"
  <2>1. PICK c \in Closers : pc[c] # "done" /\ pc'[c] = "done"
    BY <1>1 DEF Returned
  <2>2. CloseClients(c) \/ LockToClose(c)
    <3>1. c \in Procs /\ c \notin Workers /\ DOMAIN pc = Procs
      BY <1>1, ProcsAssumption DEF Procs, TypeOK
    <3>2. ~\E w \in Workers : Worker(w)
      <4> SUFFICES ASSUME NEW w \in Workers, Worker(w) PROVE FALSE
        OBVIOUS
      <4>1. pc' = pc \/ \E l : pc' = [pc EXCEPT ![w] = l]
        BY DEF Worker, WorkerRuns, WorkerLocks, Goto, Setup, LockCache, Lookup, LockForConfigure,
               ProviderConfigure, ConfigureFails, Store, AcquireMeta, AssignVersion, Request, CallbackReturns
      <4> QED BY <2>1, <3>1, <4>1
    <3>3. ~\E h \in Hosts : Upgrade(h)
      BY <2>1 DEF Upgrade
    <3>4. PICK d \in Closers : Closer(d)
      BY <1>1, <3>2, <3>3 DEF Next
    <3>5. d \in Procs /\ \E l : pc' = [pc EXCEPT ![d] = l]
      BY <3>4 DEF Procs, Closer, CloserLocks, Goto, ContextDone, LockToClose, LockOpsToClose, CloseClients
    <3>6. d = c
      BY <2>1, <3>1, <3>5
    <3> QED BY <2>1, <3>1, <3>4, <3>6 DEF Closer, CloserLocks, Goto, ContextDone, LockOpsToClose
  <2>3. ~LockToClose(c)
    <3>1. c \in Procs /\ \A d \in Closers : d \in Procs
      BY DEF Procs
    <3>2. SUFFICES ASSUME LockToClose(c) PROVE FALSE
      OBVIOUS
    <3>3. closed
      <4>1. SUFFICES ASSUME ~closed PROVE FALSE
        OBVIOUS
      <4>2. pc' = [pc EXCEPT ![c] = "closeOps"]
        BY <3>2, <4>1 DEF LockToClose, Goto
      <4> QED BY <1>1, <2>1, <3>1, <4>2 DEF TypeOK
    <3>4. PICK d \in Closers : pc[d] \in {"closeOps", "shutting"}
      BY <1>1, <3>3 DEF CacheCoherent
    <3>5. cacheMu = d
      BY <1>1, <3>1, <3>4 DEF LocksHeld, HoldsCache
    <3> QED BY <3>1, <3>2, <3>5, ProcsAssumption DEF LockToClose
  <2>4. /\ opened' = opened \ {x \in {clients[k] : k \in DOMAIN clients} : ClientType(x) \in {"api", "rest"}}
        /\ made' = made
    BY <2>2, <2>3 DEF CloseClients
  <2>5. m \in made /\ m \in opened
    BY <1>1, <2>4 DEF TypeOK
  <2>6. m.key \in DOMAIN clients /\ clients[m.key] = m
    BY <1>1, <2>5 DEF CacheCoherent
  <2>7. ClientType(m) \notin {"api", "rest"}
    BY <1>1, <2>4, <2>6
  <2>8. Host(m.key) \in Hosts
    BY <1>1, <2>5 DEF OwnVersion
  <2> QED BY <2>7, <2>8, ClientsAssumption DEF ClientType
<1>2. ASSUME TypeOK, CacheCoherent, Next, Returned
      PROVE  NothingNew
  <2>1. closed /\ \A w \in Workers : pc[w] # "store"
    BY <1>2 DEF Returned, CacheCoherent
  <2>t. DOMAIN meta = Workers
    BY <1>2 DEF TypeOK
  <2> USE DEF cacheVars
  <2>2. ASSUME NEW w \in Workers, Request(w) PROVE NothingNew
    BY <2>2 DEF Request
  <2>3. ASSUME NEW w \in Workers, CallbackReturns(w) PROVE NothingNew
    BY <2>3, <2>t DEF CallbackReturns
  <2>4. ASSUME NEW w \in Workers, Worker(w), ~Request(w), ~CallbackReturns(w) PROVE NothingNew
    BY <2>1, <2>4
    DEF Worker, WorkerRuns, WorkerLocks, Setup, LockCache, Lookup, LockForConfigure, ProviderConfigure,
        ConfigureFails, Store, AcquireMeta, AssignVersion
  <2>5. ASSUME NEW c \in Closers, Closer(c) PROVE NothingNew
    BY <2>5 DEF Closer, CloserLocks, ContextDone, LockToClose, LockOpsToClose, CloseClients
  <2>6. ASSUME NEW h \in Hosts, Upgrade(h) PROVE NothingNew
    BY <2>6 DEF Upgrade
  <2> QED BY <1>2, <2>2, <2>3, <2>4, <2>5, <2>6 DEF Next
<1>3. TypeOK /\ LocksHeld /\ OwnVersion /\ CacheCoherent /\ [Next]_vars =>
        [/\ ~Returned /\ Returned' => \A m \in opened' : ClientType(m) = "other"
         /\ Returned => /\ made' = made
                        /\ \A w \in Workers : meta'[w] \in {meta[w], Nil}
                        /\ \A m \in opened' \ opened :
                             ClientType(m) = "rest" /\ \E w \in Workers : meta[w] = m]_vars
  BY <1>1, <1>2
<1> QED BY <1>3, MutualExclusion, InitVersions, NextVersions, InitCache, NextCache, PTL
           DEF Spec, ClosedForGood

\* Close never closes a connection while a callback is running.
THEOREM CloseWaitsForCallback == Spec => CallbackKeepsClient
<1>1. TypeOK /\ LocksHeld /\ [Next]_vars
        => [opened \subseteq opened' \/ \A w \in Workers : pc[w] # "callback"]_vars
  <2> SUFFICES ASSUME TypeOK, LocksHeld, Next, ~(opened \subseteq opened'), NEW w \in Workers
               PROVE  pc[w] # "callback"
    OBVIOUS
  <2>1. PICK c \in Closers : CloseClients(c)
    BY DEF Next, Worker, Closer, WorkerRuns, WorkerLocks, CloserLocks, cacheVars,
           Setup, LockCache, Lookup, LockForConfigure, ProviderConfigure, ConfigureFails, Store,
           AcquireMeta, AssignVersion, Request, CallbackReturns, ContextDone, LockToClose, LockOpsToClose, Upgrade
  <2>2. operationMu = c
    BY <2>1 DEF CloseClients, LocksHeld, HoldsOps, Procs
  <2> QED BY <2>2, ProcsAssumption DEF LocksHeld, HoldsOps, Procs
<1> QED BY <1>1, MutualExclusion, PTL DEF Spec, CallbackKeepsClient

-----------------------------------------------------------------------------
\* Refinement: the two mutexes make obtaining a client, running a callback and
\* closing all clients single steps of ClientRegistry.

\* Nothing is disconnected before Close is called.
OpenTillClosed == ~closed => made \subseteq opened

\* Every step keeps the clients connected until Close is called.
LEMMA NextOpen ==
  TypeOK /\ CacheCoherent /\ OpenTillClosed /\ [Next]_vars => OpenTillClosed'
<1> SUFFICES ASSUME TypeOK, CacheCoherent, OpenTillClosed, [Next]_vars PROVE OpenTillClosed'
  OBVIOUS
<1> USE DEF OpenTillClosed, cacheVars
<1>1. ASSUME NEW w \in Workers, Worker(w) PROVE OpenTillClosed'
  <2>1. CASE Store(w)
    <3>1. \E m : made' = made \cup {m} /\ opened' = opened \cup {m} /\ closed' = closed
      BY <2>1 DEF Store
    <3> QED BY <3>1
  <2>r. CASE Request(w)
    BY <2>r DEF Request
  <2>2. CASE ~Store(w) /\ ~Request(w)
    BY <1>1, <2>2 DEF Worker, WorkerLocks, WorkerRuns, Setup, LockCache, Lookup, LockForConfigure,
       ProviderConfigure, ConfigureFails, AcquireMeta, AssignVersion, CallbackReturns
  <2> QED BY <2>1, <2>r, <2>2
<1>2. ASSUME NEW c \in Closers, Closer(c) PROVE OpenTillClosed'
  <2>1. CASE CloseClients(c)
    <3>1. closed /\ closed' = closed
      BY <2>1 DEF CloseClients, CacheCoherent
    <3> QED BY <3>1
  <2>2. CASE ContextDone(c) \/ LockOpsToClose(c)
    BY <2>2 DEF ContextDone, LockOpsToClose
  <2>3. CASE LockToClose(c)
    BY <2>3 DEF LockToClose
  <2> QED BY <1>2, <2>1, <2>2, <2>3 DEF Closer, CloserLocks
<1>3. ASSUME NEW h \in Hosts, Upgrade(h) PROVE OpenTillClosed'
  BY <1>3 DEF Upgrade
<1>4. CASE UNCHANGED vars
  BY <1>4 DEF vars
<1> QED BY <1>1, <1>2, <1>3, <1>4 DEF Next

-----------------------------------------------------------------------------
\* The refinement mapping, by name.
Held == [w \in Workers |-> HeldBy(w)]

\* While a goroutine is inside operationMu elsewhere, no callback is running.
LEMMA NoCalls ==
  ASSUME TypeOK, LocksHeld, NEW p \in Procs, pc[p] \in HoldsOps \ {"callback"}
  PROVE  Calls = {}
BY DEF TypeOK, LocksHeld, HoldsOps, Calls, Procs

\* A worker between two places where it has no Meta, or has the same one.
LEMMA HeldKept ==
  ASSUME TypeOK, NEW p \in Procs, NEW l, pc' = [pc EXCEPT ![p] = l], meta' = meta,
         pc[p] \in {"ready", "assign", "callback"} <=> l \in {"ready", "assign", "callback"}
  PROVE  Held' = Held
<1>1. \A w \in Workers : w \in Procs
  BY DEF Procs
<1>2. \A w \in Workers : HeldBy(w)' = HeldBy(w)
  BY <1>1 DEF HeldBy, TypeOK
<1> QED BY <1>2 DEF Held

\* Calls are as before while the same workers are in their callbacks and the
\* global is left alone.
LEMMA CallsKept ==
  ASSUME TypeOK, NEW p \in Procs, NEW l, pc' = [pc EXCEPT ![p] = l],
         pc[p] # "callback", l # "callback",
         RouterOSVersion' = RouterOSVersion \/ Calls = {}
  PROVE  Calls' = Calls
<1>1. {v \in Workers : pc'[v] = "callback"} = {v \in Workers : pc[v] = "callback"}
  BY DEF TypeOK, Procs
<1>2. CASE RouterOSVersion' = RouterOSVersion
  BY <1>1, <1>2 DEF Calls
<1>3. CASE Calls = {}
  <2>1. {v \in Workers : pc[v] = "callback"} = {}
    BY <1>3 DEF Calls
  <2> QED BY <1>1, <1>3, <2>1 DEF Calls
<1> QED BY <1>2, <1>3

\* A worker that is given a Meta.
LEMMA HeldGained ==
  ASSUME TypeOK, NEW w \in Workers, NEW m, pc' = [pc EXCEPT ![w] = "ready"],
         meta' = [meta EXCEPT ![w] = m], pc[w] \notin {"ready", "assign", "callback"}
  PROVE  Held[w] = {} /\ Held' = [Held EXCEPT ![w] = {m}]
<1>1. HeldBy(w) = {} /\ HeldBy(w)' = {m}
  BY DEF HeldBy, TypeOK, Procs
<1>2. \A v \in Workers \ {w} : HeldBy(v)' = HeldBy(v)
  BY DEF HeldBy, TypeOK, Procs
<1> QED BY <1>1, <1>2 DEF Held

\* Every step of the cache is a step of the registry, or none of its business.
LEMMA NextRegistry ==
  ASSUME TypeOK, LocksHeld, OwnVersion, CacheCoherent, OpenTillClosed, [Next]_vars
  PROVE  [Registry!Next]_(Registry!vars)
<1> USE DEF lockVars, cacheVars, hostVars, Goto
<1>p. \A w \in Workers : w \in Procs
  BY DEF Procs
<1>c. \A c \in Closers : c \in Procs
  BY DEF Procs
\* Steps that leave the registry alone.
<1>q. ASSUME Held' = Held, Calls' = Calls, UNCHANGED <<key, made, opened, closed, ran>>
      PROVE  UNCHANGED Registry!vars
  BY <1>q DEF Registry!vars, Held
<1>1. ASSUME NEW w \in Workers, Setup(w) PROVE [Registry!Next]_(Registry!vars)
  <2>1. CASE UNCHANGED <<pc, key>>
    <3>1. Held' = Held /\ Calls' = Calls
      BY <1>1, <2>1 DEF Setup, Held, HeldBy, Calls
    <3> QED BY <1>1, <1>q, <2>1, <3>1 DEF Setup
  <2>2. CASE ~UNCHANGED <<pc, key>>
    <3>1. pc[w] = "idle" /\ pc' = [pc EXCEPT ![w] = "cacheLock"] /\ (\E k : key' = [key EXCEPT ![w] = k])
      BY <1>1, <2>2 DEF Setup
    <3>2. Held' = Held /\ Calls' = Calls
      BY <1>1, <1>p, <3>1, HeldKept, CallsKept DEF Setup
    <3>3. Held[w] = {}
      BY <3>1 DEF Held, HeldBy
    <3>4. \A v \in Workers \ {w} : key'[v] = key[v]
      BY <3>1 DEF TypeOK
    <3>5. Registry!Ask(w)
      BY <1>1, <3>2, <3>3, <3>4 DEF Registry!Ask, Setup, Held
    <3> QED BY <3>5 DEF Registry!Next
  <2> QED BY <2>1, <2>2
<1>2. ASSUME NEW w \in Workers, LockCache(w) \/ LockForConfigure(w)
      PROVE  [Registry!Next]_(Registry!vars)
  BY <1>2, <1>p, <1>q, HeldKept, CallsKept DEF LockCache, LockForConfigure
<1>3. ASSUME NEW w \in Workers, Lookup(w) PROVE [Registry!Next]_(Registry!vars)
  <2>1. pc[w] = "lookup" /\ UNCHANGED <<key, made, opened, clients, closed, ran, RouterOSVersion>>
    BY <1>3 DEF Lookup
  <2>2. CASE closed \/ key[w] \notin DOMAIN clients
    <3>1. meta' = meta /\ \E l \in {"idle", "opLock"} : pc' = [pc EXCEPT ![w] = l]
      BY <1>3, <2>2 DEF Lookup
    <3> QED BY <1>p, <1>q, <2>1, <3>1, HeldKept, CallsKept
  <2>3. CASE ~closed /\ key[w] \in DOMAIN clients
    <3> PICK m : m = clients[key[w]]
      OBVIOUS
    <3>1. pc' = [pc EXCEPT ![w] = "ready"] /\ meta' = [meta EXCEPT ![w] = m]
      BY <1>3, <2>3 DEF Lookup
    <3>2. Held[w] = {} /\ Held' = [Held EXCEPT ![w] = {m}]
      BY <2>1, <3>1, HeldGained
    <3>3. Calls' = Calls
      BY <1>p, <2>1, <3>1, CallsKept
    <3>4. m.key = key[w] /\ m \in opened'
      BY <2>1, <2>3 DEF CacheCoherent, OpenTillClosed, TypeOK
    <3>5. Registry!Obtain(w)
      BY <2>1, <2>3, <3>2, <3>3, <3>4 DEF Registry!Obtain, Held
    <3> QED BY <3>5 DEF Registry!Next
  <2> QED BY <2>2, <2>3
<1>4. ASSUME NEW w \in Workers, ProviderConfigure(w) \/ ConfigureFails(w)
      PROVE  [Registry!Next]_(Registry!vars)
  <2>1. /\ pc[w] = "configure" /\ UNCHANGED <<key, meta, made, opened, closed, ran>>
        /\ \E l \in {"store", "idle"} : pc' = [pc EXCEPT ![w] = l]
    BY <1>4 DEF ProviderConfigure, ConfigureFails
  <2>2. Calls = {}
    BY <1>p, <2>1, NoCalls DEF HoldsOps
  <2> QED BY <1>p, <1>q, <2>1, <2>2, HeldKept, CallsKept
<1>5. ASSUME NEW w \in Workers, Store(w) PROVE [Registry!Next]_(Registry!vars)
  <2> PICK m : m = [id |-> Cardinality(made) + 1, key |-> key[w], version |-> RouterOSVersion]
    OBVIOUS
  <2>1. /\ pc[w] = "store" /\ pc' = [pc EXCEPT ![w] = "ready"]
        /\ meta' = [meta EXCEPT ![w] = m]
        /\ made' = made \cup {m} /\ opened' = opened \cup {m}
        /\ UNCHANGED <<key, closed, ran, RouterOSVersion>>
    BY <1>5 DEF Store
  <2>2. m.key = key[w]
    OBVIOUS
  <2>3. ~closed /\ \A d \in made : d.key # key[w]
    BY <2>1 DEF CacheCoherent, Returned
  <2>4. Held[w] = {} /\ Held' = [Held EXCEPT ![w] = {m}]
    BY <2>1, HeldGained
  <2>5. Calls' = Calls
    BY <1>p, <2>1, CallsKept
  <2>6. m \in opened'
    BY <2>1
  <2>7. Registry!Obtain(w)
    BY <2>1, <2>2, <2>3, <2>4, <2>5, <2>6 DEF Registry!Obtain, Held
  <2> QED BY <2>7 DEF Registry!Next
<1>6. ASSUME NEW w \in Workers, AcquireMeta(w) PROVE [Registry!Next]_(Registry!vars)
  BY <1>6, <1>p, <1>q, HeldKept, CallsKept DEF AcquireMeta
<1>7. ASSUME NEW w \in Workers, AssignVersion(w) PROVE [Registry!Next]_(Registry!vars)
  <2>1. /\ pc[w] = "assign" /\ pc' = [pc EXCEPT ![w] = "callback"]
        /\ RouterOSVersion' = meta[w].version
        /\ UNCHANGED <<key, meta, made, opened, closed, ran>>
    BY <1>7 DEF AssignVersion
  <2>2. Held' = Held
    BY <1>p, <2>1, HeldKept
  <2>3. Calls = {}
    BY <1>p, <2>1, NoCalls DEF HoldsOps
  <2>4. {v \in Workers : pc'[v] = "callback"} = {w}
    <3>1. {v \in Workers : pc[v] = "callback"} = {}
      BY <2>3 DEF Calls
    <3> QED BY <2>1, <3>1, <1>p DEF TypeOK
  <2> PICK m : m = meta[w]
    OBVIOUS
  <2>5. Calls' = {[worker |-> w, version |-> m.version]}
    BY <2>1, <2>4 DEF Calls
  <2>6. m \in Held[w]
    BY <2>1 DEF Held, HeldBy
  <2>7. m \in made
    BY <2>1 DEF TypeOK
  <2>8. m.version \in ran[m.key["hosturl"].val] /\ (m \in opened \/ closed)
    BY <2>7 DEF OwnVersion, Host, OpenTillClosed
  <2>9. Registry!Invoke(w)
    BY <2>1, <2>2, <2>3, <2>5, <2>6, <2>8 DEF Registry!Invoke, Registry!RouterOf, Held
  <2> QED BY <2>9 DEF Registry!Next
<1>8. ASSUME NEW w \in Workers, CallbackReturns(w) PROVE [Registry!Next]_(Registry!vars)
  <2>1. /\ pc[w] = "callback" /\ UNCHANGED <<key, made, opened, closed, ran, RouterOSVersion>>
        /\ \/ pc' = [pc EXCEPT ![w] = "ready"] /\ meta' = meta
           \/ pc' = [pc EXCEPT ![w] = "idle"] /\ meta' = [meta EXCEPT ![w] = Nil]
    BY <1>8 DEF CallbackReturns
  <2>2. {v \in Workers : pc'[v] = "callback"} = {}
    BY <1>p, <2>1 DEF TypeOK, LocksHeld, HoldsOps
  <2>3. Calls' = {}
    BY <2>2 DEF Calls
  <2>4. Held' = Held \/ Held' = [Held EXCEPT ![w] = {}]
    <3>1. CASE pc' = [pc EXCEPT ![w] = "ready"] /\ meta' = meta
      BY <1>p, <2>1, <3>1, HeldKept
    <3>2. CASE pc' = [pc EXCEPT ![w] = "idle"] /\ meta' = [meta EXCEPT ![w] = Nil]
      <4>1. HeldBy(w)' = {} /\ \A v \in Workers \ {w} : HeldBy(v)' = HeldBy(v)
        BY <1>p, <3>2 DEF HeldBy, TypeOK
      <4> QED BY <4>1 DEF Held
    <3> QED BY <2>1, <3>1, <3>2
  <2>5. \E call \in Calls : call.worker = w
    <3>1. [worker |-> w, version |-> RouterOSVersion] \in Calls
      BY <2>1 DEF Calls
    <3> QED BY <3>1
  <2>6. Registry!Finish(w)
    BY <2>1, <2>3, <2>4, <2>5 DEF Registry!Finish, Held
  <2> QED BY <2>6 DEF Registry!Next
<1>r. ASSUME NEW w \in Workers, Request(w) PROVE [Registry!Next]_(Registry!vars)
  <2>1. /\ pc[w] = "callback" /\ ClientType(meta[w]) = "rest" /\ opened' = opened \cup {meta[w]}
        /\ UNCHANGED <<pc, key, meta, made, closed, ran, RouterOSVersion>>
    BY <1>r DEF Request
  <2>2. Held' = Held /\ Calls' = Calls
    BY <2>1 DEF Held, HeldBy, Calls
  <2>3. meta[w] \in Held[w]
    BY <2>1 DEF Held, HeldBy
  <2>4. [worker |-> w, version |-> RouterOSVersion] \in Calls
    BY <2>1 DEF Calls
  <2>5. \E call \in Calls : call.worker = w
    BY <2>4
  <2>6. ClientAt[Registry!RouterOf(meta[w])] = "rest"
    BY <2>1 DEF ClientType, Host, Registry!RouterOf
  <2>7. Registry!Reconnect(w)
    BY <2>1, <2>2, <2>3, <2>5, <2>6 DEF Registry!Reconnect, Registry!Type, Held
  <2> QED BY <2>7 DEF Registry!Next
<1>9. ASSUME NEW c \in Closers, ContextDone(c) \/ LockOpsToClose(c)
      PROVE  [Registry!Next]_(Registry!vars)
  BY <1>9, <1>c, <1>q, HeldKept, CallsKept DEF ContextDone, LockOpsToClose
<1>10. ASSUME NEW c \in Closers, LockToClose(c) PROVE [Registry!Next]_(Registry!vars)
  <2>1. /\ pc[c] = "closing" /\ \E l \in {"done", "closeOps"} : pc' = [pc EXCEPT ![c] = l]
        /\ UNCHANGED <<key, meta, made, opened, ran, RouterOSVersion>>
    BY <1>10 DEF LockToClose
  <2>2. Held' = Held /\ Calls' = Calls
    BY <1>c, <2>1, HeldKept, CallsKept
  <2>3. CASE closed
    BY <1>10, <1>q, <2>1, <2>2, <2>3 DEF LockToClose
  <2>4. CASE ~closed
    <3>1. Registry!StartClosing
      BY <1>10, <2>1, <2>2, <2>4 DEF LockToClose, Registry!StartClosing, Held
    <3> QED BY <3>1 DEF Registry!Next
  <2> QED BY <2>3, <2>4
<1>11. ASSUME NEW c \in Closers, CloseClients(c) PROVE [Registry!Next]_(Registry!vars)
  <2>1. /\ pc[c] = "shutting" /\ pc' = [pc EXCEPT ![c] = "done"]
        /\ UNCHANGED <<key, meta, made, closed, ran, RouterOSVersion>>
    BY <1>11 DEF CloseClients
  <2>2. Held' = Held /\ Calls' = Calls
    BY <1>c, <2>1, HeldKept, CallsKept
  <2>3. Calls = {}
    BY <1>c, <2>1, NoCalls DEF HoldsOps
  <2>4. closed /\ opened' = {m \in opened : ClientAt[Registry!RouterOf(m)] = "other"}
    <3>1. closed /\ ~Returned
      BY <2>1 DEF CacheCoherent
    <3>2. \A m \in opened : /\ m.key \in DOMAIN clients /\ clients[m.key] = m
                            /\ Host(m.key) \in Hosts
      BY <3>1 DEF TypeOK, CacheCoherent, OwnVersion
    <3>3. \A m \in opened : ClientType(m) \in {"api", "rest"} \/ ClientType(m) = "other"
      BY <3>2, ClientsAssumption DEF ClientType
    <3>4. opened' = opened \ {x \in {clients[k] : k \in DOMAIN clients} : ClientType(x) \in {"api", "rest"}}
      BY <1>11 DEF CloseClients
    <3>5. opened' = {m \in opened : ClientType(m) = "other"}
      BY <3>2, <3>3, <3>4
    <3> QED BY <3>1, <3>5 DEF ClientType, Host, Registry!RouterOf
  <2>5. Registry!CloseAll
    BY <2>1, <2>2, <2>3, <2>4 DEF Registry!CloseAll, Registry!Type, Held
  <2> QED BY <2>5 DEF Registry!Next
<1>12. ASSUME NEW h \in Hosts, Upgrade(h) PROVE [Registry!Next]_(Registry!vars)
  <2>1. Held' = Held /\ Calls' = Calls
    BY <1>12 DEF Upgrade, Held, HeldBy, Calls
  <2>2. \A g \in Hosts : IF g = h THEN ran[g] \subseteq ran'[g] ELSE ran'[g] = ran[g]
    BY <1>12 DEF Upgrade, TypeOK
  <2>3. Registry!Upgrade(h)
    BY <1>12, <2>1, <2>2 DEF Upgrade, Registry!Upgrade, Held
  <2> QED BY <2>3 DEF Registry!Next
<1>13. CASE UNCHANGED vars
  <2>1. Held' = Held /\ Calls' = Calls
    BY <1>13 DEF vars, Held, HeldBy, Calls
  <2> QED BY <1>13, <1>q, <2>1 DEF vars
<1> QED
  BY <1>1, <1>2, <1>3, <1>4, <1>5, <1>6, <1>7, <1>8, <1>r, <1>9, <1>10, <1>11, <1>12, <1>13
  DEF Next, Worker, Closer, WorkerRuns, WorkerLocks, CloserLocks

\* The cache is a registry, for any number of workers, of configurations, of
\* routers and of calls to Close.
THEOREM ImplementsRegistry == Spec => ActsAsRegistry
<1>1. Init => OpenTillClosed /\ Registry!Init
  <2> SUFFICES ASSUME Init PROVE OpenTillClosed /\ Registry!Init
    OBVIOUS
  <2>1. \A w \in Workers : pc[w] = "idle"
    BY DEF Init, Procs
  <2>2. Held = [w \in Workers |-> {}] /\ Calls = {}
    BY <2>1 DEF Held, HeldBy, Calls
  <2> QED BY <2>2 DEF Init, OpenTillClosed, Registry!Init, Held
<1>2. TypeOK /\ CacheCoherent /\ OpenTillClosed /\ [Next]_vars => OpenTillClosed'
  BY NextOpen
<1>3. TypeOK /\ LocksHeld /\ OwnVersion /\ CacheCoherent /\ OpenTillClosed /\ [Next]_vars
        => [Registry!Next]_(Registry!vars)
  BY NextRegistry
<1> QED BY <1>1, <1>2, <1>3, MutualExclusion, InitVersions, NextVersions, InitCache, NextCache, PTL
           DEF Spec, ActsAsRegistry, Registry!Spec
=============================================================================
