------------------------- MODULE WorkerLeaseProofs -------------------------
(***************************************************************************)
(* The inductive invariant of WorkerLease, for any number of replicas and  *)
(* connections, restarts and faults, the proofs that every step preserves  *)
(* it, and the properties that follow.                                     *)
(***************************************************************************)
EXTENDS WorkerLease, TLAPS

LockPhase == {"lock", "granted", "denied"}
UnlockPhase == {"unlock", "unlocked", "notHeld"}

\* What a manager knows of itself: a pending acquisition of the current
\* generation, a current lease and a retry timer exclude each other, and a
\* running manager has one of them.
WorkerInv(w) ==
    /\ \A g \in connecting[w] : g <= gen[w]
    /\ gen[w] \in connecting[w] => running[w] /\ lease[w] = None /\ timer[w] = "none"
    /\ ~running[w] => lease[w] = None /\ timer[w] = "none"
    /\ running[w] => ~stopping[w]
    /\ lease[w] = None => state[w] = "standby" /\ timer[w] # "heartbeat"
    /\ running[w] /\ lease[w] = None => timer[w] = "retry" \/ gen[w] \in connecting[w]

\* The session that is this.lease of a manager.
LeaseInv(w) ==
    lease[w] # None =>
        /\ PoolOf[lease[w]] = w /\ client[lease[w]] = "out" /\ sgen[lease[w]] = gen[w]
        /\ \/ /\ state[w] = "leader" /\ timer[w] = "heartbeat"
              /\ held[lease[w]] /\ query[lease[w]] \in {"none", "ping", "pong"}
           \/ /\ state[w] = "standby" /\ timer[w] = "none"
              /\ ~held[lease[w]] /\ query[lease[w]] \in LockPhase

\* Who refers to a checked-out session, and which generation it belongs to.
SessionInv(c) ==
    /\ sgen[c] <= gen[PoolOf[c]]
    /\ client[c] = "out" =>
         \/ lease[PoolOf[c]] = c
         \/ stopping[PoolOf[c]] /\ query[c] \in UnlockPhase
    /\ client[c] = "idle" => query[c] = "none"
    /\ client[c] = "destroyed" /\ query[c] \in LockPhase => sgen[c] < gen[PoolOf[c]]

\* Where the advisory lock is, told from the session's last query.
LockInv(c) ==
    /\ backend[c] = "down" => lockHolder # c
    /\ client[c] = "idle" => lockHolder # c
    /\ client[c] = "out" /\ query[c] \in {"lock", "denied", "unlocked", "notHeld"} => lockHolder # c
    /\ client[c] = "out" /\ query[c] \in {"none", "ping", "pong", "granted", "unlock"}
          /\ backend[c] # "down" => lockHolder = c

\* stop() runs at most one unlock per manager at a time.
OneUnlock ==
    \A c, d \in Conn :
        /\ PoolOf[c] = PoolOf[d]
        /\ client[c] = "out" /\ query[c] \in UnlockPhase
        /\ client[d] = "out" /\ query[d] \in UnlockPhase
        => c = d

IInv ==
    /\ TypeOK
    /\ \A w \in Worker : WorkerInv(w) /\ LeaseInv(w)
    /\ \A c \in Conn : SessionInv(c) /\ LockInv(c)
    /\ OneUnlock

\* The inductive invariant as the lemmas state it: their proofs open it once.
Safe == IInv

-----------------------------------------------------------------------------
\* Every connection belongs to the pool of a replica.
LEMMA PoolOfWorker == \A d \in Conn : PoolOf[d] \in Worker
BY ConstantsAssumption, Zenon

\* What beginRun, the last part of start(), does to one manager and to the others.
LEMMA BeginRunEffect ==
    ASSUME TypeOK, NEW w \in Worker, beginRun(w)
    PROVE  /\ running' \in [Worker -> BOOLEAN]
           /\ gen' \in [Worker -> Nat]
           /\ connecting' \in [Worker -> SUBSET Nat]
           /\ running'[w] /\ gen'[w] = gen[w] + 1
           /\ connecting'[w] = connecting[w] \cup {gen[w] + 1}
           /\ \A v \in Worker \ {w} : /\ running'[v] = running[v]
                                      /\ gen'[v] = gen[v]
                                      /\ connecting'[v] = connecting[v]
           /\ \A v \in Worker : gen[v] <= gen'[v]
<1> USE DEF TypeOK, beginRun
<1>1. gen[w] + 1 \in Nat OBVIOUS
<1>2. connecting[w] \cup {gen[w] + 1} \in SUBSET Nat BY <1>1, Zenon
<1>3. QED BY <1>1, <1>2

\* start() keeps the invariant: a waiting start() changes nothing but itself, a
\* new run starts with one pending acquisition.
LEMMA StartPreserves ==
    ASSUME Safe, NEW w \in Worker, start(w)
    PROVE  Safe'
<1> SUFFICES ASSUME IInv PROVE IInv'
  BY Zenon DEF Safe
<1> USE ConstantsAssumption DEF IInv, Requests, Answers, start, workerVars, connVars, dbVars
<1>0. CASE stopping[w]
  <2> USE <1>0 DEF TypeOK
  <2>0. /\ startWaits' = [startWaits EXCEPT ![w] = TRUE]
        /\ UNCHANGED <<running, gen, connecting>>
    BY Zenon DEF beginRun
  <2>1. TypeOK' BY <2>0
  <2>2. \A v \in Worker : WorkerInv(v)' /\ LeaseInv(v)'
    BY <2>0 DEF WorkerInv, LeaseInv, LockPhase
  <2>3. \A d \in Conn : SessionInv(d)' /\ LockInv(d)'
    BY <2>0, Zenon DEF SessionInv, LockInv, LockPhase, UnlockPhase
  <2>4. OneUnlock' BY Zenon DEF OneUnlock
  <2>5. QED BY <2>1, <2>2, <2>3, <2>4, Zenon
<1> SUFFICES ASSUME ~stopping[w], ~running[w], beginRun(w), UNCHANGED startWaits
             PROVE  IInv'
  BY <1>0, Zenon
<1> HIDE DEF start
<1>e. /\ restarts' \in 0..MaxRestarts
      /\ UNCHANGED <<state, lease, timer, stopping, connVars, dbVars, faults>>
  BY DEF start, TypeOK
<1>1. TypeOK' BY <1>e, BeginRunEffect, Zenon DEF TypeOK
<1>f. /\ running'[w] /\ gen'[w] = gen[w] + 1 /\ connecting'[w] = connecting[w] \cup {gen[w] + 1}
      /\ \A v \in Worker \ {w} : /\ running'[v] = running[v] /\ gen'[v] = gen[v]
                                 /\ connecting'[v] = connecting[v]
      /\ \A v \in Worker : gen[v] <= gen'[v] /\ gen[v] \in Nat /\ gen'[v] \in Nat
  <2>1. TypeOK BY Zenon
  <2> HIDE DEF IInv
  <2>2. /\ gen' \in [Worker -> Nat]
        /\ running'[w] /\ gen'[w] = gen[w] + 1 /\ connecting'[w] = connecting[w] \cup {gen[w] + 1}
        /\ \A v \in Worker \ {w} : /\ running'[v] = running[v] /\ gen'[v] = gen[v]
                                   /\ connecting'[v] = connecting[v]
        /\ \A v \in Worker : gen[v] <= gen'[v]
    BY <2>1, BeginRunEffect, Zenon
  <2>3. gen \in [Worker -> Nat] BY <2>1, Zenon DEF TypeOK
  <2>4. QED BY <2>2, <2>3, Zenon
<1>2. ASSUME NEW v \in Worker PROVE WorkerInv(v)'
  <2>1. WorkerInv(v) BY Zenon
  <2>2. CASE v = w
    <3>1. lease[w] = None /\ timer[w] = "none" /\ state[w] = "standby"
      BY <2>1, <2>2, Zenon DEF WorkerInv
    <3>2. \A g \in connecting'[w] : g <= gen'[w]
      <4>1. connecting[w] \subseteq Nat BY Zenon DEF TypeOK
      <4>2. \A g \in connecting[w] : g <= gen[w] BY <2>1, <2>2, Zenon DEF WorkerInv
      <4>3. \A g, n \in Nat : (g <= n => g <= n + 1) /\ n + 1 <= n + 1 OBVIOUS
      <4>4. gen[w] \in Nat /\ gen'[w] = gen[w] + 1 /\ connecting'[w] = connecting[w] \cup {gen[w] + 1}
        BY <1>f, Zenon
      <4> HIDE DEF IInv
      <4>5. \A g \in connecting[w] : g <= gen[w] + 1
        BY <4>1, <4>2, <4>3, <4>4, Zenon
      <4>6. gen[w] + 1 <= gen[w] + 1 BY <4>3, <4>4, Zenon
      <4>7. QED BY <4>4, <4>5, <4>6, Zenon
    <3>3. gen'[w] \in connecting'[w] BY <1>f, Zenon
    <3>4. QED BY <1>e, <1>f, <2>2, <3>1, <3>2, <3>3, Zenon DEF WorkerInv
  <2>3. CASE v # w
    BY <1>e, <1>f, <2>1, <2>3, Zenon DEF WorkerInv
  <2>4. QED BY <2>2, <2>3, Zenon
<1>3. ASSUME NEW v \in Worker PROVE LeaseInv(v)'
  BY <1>3, <1>e, BeginRunEffect DEF TypeOK, WorkerInv, LeaseInv, SessionInv, LockPhase, UnlockPhase
<1>4. ASSUME NEW d \in Conn PROVE SessionInv(d)'
  <2>1. PoolOf[d] \in Worker BY PoolOfWorker, Zenon
  <2>2. /\ sgen[d] \in Nat /\ gen[PoolOf[d]] \in Nat
        /\ gen'[PoolOf[d]] \in Nat /\ gen[PoolOf[d]] <= gen'[PoolOf[d]]
    BY <1>f, <2>1, Zenon DEF TypeOK
  <2>3. \A a, b, c \in Nat : b <= c => (a <= b => a <= c) /\ (a < b => a < c)
    OBVIOUS
  <2>4. SessionInv(d) BY Zenon
  <2>5. QED BY <1>e, <2>2, <2>3, <2>4, Zenon DEF SessionInv
<1>5. ASSUME NEW d \in Conn PROVE LockInv(d)'
  BY <1>5, <1>e, BeginRunEffect, Zenon DEF TypeOK, WorkerInv, LeaseInv, SessionInv, LockInv, LockPhase, UnlockPhase
<1>6. OneUnlock'
  BY <1>e, SMTT(30) DEF OneUnlock, UnlockPhase
<1>7. QED BY <1>1, <1>2, <1>3, <1>4, <1>5, <1>6, Zenon

\* stop() keeps the invariant: it unlocks the one held session or destroys it.
LEMMA StopPreserves ==
    ASSUME Safe, NEW w \in Worker, stop(w)
    PROVE  Safe'
<1> SUFFICES ASSUME IInv PROVE IInv'
  BY Zenon DEF Safe
<1> USE ConstantsAssumption DEF IInv, TypeOK, Requests, Answers, stop, disposeSession, querying, workerVars, connVars, dbVars
<1>1. TypeOK'
  <2>1. client' \in [Conn -> {"idle", "out", "destroyed"}] BY Zenon
  <2>2. query' \in [Conn -> {"none"} \cup Requests \cup Answers] OBVIOUS
  <2>3. stopping' \in [Worker -> BOOLEAN] BY ZenonT(40)
  <2>4. gen' \in [Worker -> Nat] OBVIOUS
  <2>5. QED BY <2>1, <2>2, <2>3, <2>4
<1>2. ASSUME NEW v \in Worker PROVE WorkerInv(v)'
  BY <1>2, SMTT(30) DEF WorkerInv
<1>3. ASSUME NEW v \in Worker PROVE LeaseInv(v)'
  <2>1. CASE v = w BY <2>1 DEF LeaseInv
  <2>2. CASE v # w
    <3>1. lease'[v] = lease[v] /\ gen'[v] = gen[v] /\ state'[v] = state[v] /\ timer'[v] = timer[v]
      BY <2>2
    <3>2. lease[v] # None => lease[v] \in Conn /\ lease[v] # lease[w]
      BY <2>2 DEF LeaseInv
    <3>3. ASSUME NEW d \in Conn, d # lease[w]
          PROVE  client'[d] = client[d] /\ query'[d] = query[d]
      BY <3>3
    <3>4. sgen' = sgen /\ held' = held BY Zenon
    <3>5. LeaseInv(v) BY Zenon
    <3> HIDE DEF stop
    <3>6. QED BY <3>1, <3>2, <3>3, <3>4, <3>5 DEF LeaseInv, LockPhase
  <2>3. QED BY <2>1, <2>2, Zenon
<1>4. ASSUME NEW d \in Conn PROVE SessionInv(d)'
  BY <1>4, SMTT(30) DEF LeaseInv, SessionInv, OneUnlock, LockPhase, UnlockPhase
<1>5. ASSUME NEW d \in Conn PROVE LockInv(d)'
  BY <1>5, SMTT(30) DEF SessionInv, LockInv, LockPhase, UnlockPhase
<1>6. OneUnlock'
  BY SMTT(30) DEF WorkerInv, LeaseInv, SessionInv, OneUnlock, LockPhase, UnlockPhase
<1>7. QED BY <1>1, <1>2, <1>3, <1>4, <1>5, <1>6, Zenon

\* The checkout of a connection keeps the invariant: it becomes the lease only of
\* the generation that asked for it.
LEMMA ConnectedPreserves ==
    ASSUME Safe, NEW w \in Worker, NEW g \in connecting[w], NEW c \in Conn, connected(w, g, c)
    PROVE  Safe'
<1> SUFFICES ASSUME IInv PROVE IInv'
  BY Zenon DEF Safe
<1> USE ConstantsAssumption DEF IInv, TypeOK, Requests, Answers, connected, workerVars, connVars, dbVars
<1>0. g \in Nat BY Zenon
<1>1. TypeOK'
  <2>1. connecting' \in [Worker -> SUBSET Nat] BY Zenon
  <2>2. CASE running[w] /\ gen[w] = g
    <3>1. lease' \in [Worker -> Conn \cup {None}] BY <2>2
    <3>2. client' \in [Conn -> {"idle", "out", "destroyed"}] BY <2>2
    <3>3. sgen' \in [Conn -> Nat] BY <2>2
    <3>4. held' \in [Conn -> BOOLEAN] BY <2>2, ZenonT(40)
    <3>5. query' \in [Conn -> {"none"} \cup Requests \cup Answers] BY <2>2
    <3>6. QED BY <2>1, <2>2, <3>1, <3>2, <3>3, <3>4, <3>5, Zenon
  <2>3. CASE ~(running[w] /\ gen[w] = g) BY <2>1, <2>3
  <2>4. QED BY <2>2, <2>3, Zenon
<1>2. ASSUME NEW v \in Worker PROVE WorkerInv(v)'
  BY <1>2, SMTT(30) DEF WorkerInv
<1>3. ASSUME NEW v \in Worker PROVE LeaseInv(v)'
  <2>1. CASE ~(running[w] /\ gen[w] = g)
    BY <1>3, <2>1 DEF LeaseInv, LockPhase
  <2>2. CASE running[w] /\ gen[w] = g /\ v = w
    <3>1. state[w] = "standby" /\ timer[w] = "none" BY <2>2, Zenon DEF WorkerInv
    <3>2. lease'[w] = c /\ client'[c] = "out" /\ sgen'[c] = g /\ ~held'[c] /\ query'[c] = "lock"
      BY <2>2
    <3>3. QED BY <2>2, <3>1, <3>2 DEF LeaseInv, LockPhase
  <2>3. CASE running[w] /\ gen[w] = g /\ v # w
    <3>1. lease'[v] = lease[v] BY <2>3
    <3>2. lease[v] # None => lease[v] # c BY <2>3, Zenon DEF LeaseInv
    <3>3. QED BY <1>3, <2>3, <3>1, <3>2 DEF LeaseInv, LockPhase
  <2>4. QED BY <2>1, <2>2, <2>3, Zenon
<1>4. ASSUME NEW d \in Conn PROVE SessionInv(d)'
  <2>1. CASE ~(running[w] /\ gen[w] = g)
    BY <1>4, <2>1 DEF SessionInv, LockPhase, UnlockPhase
  <2>2. CASE running[w] /\ gen[w] = g /\ d = c
    <3>1. lease'[w] = c /\ client'[c] = "out" /\ sgen'[c] = g
      BY <2>2
    <3>2. QED BY <2>2, <3>1 DEF SessionInv
  <2>3. CASE running[w] /\ gen[w] = g /\ d # c
    <3>1. /\ client'[d] = client[d] /\ sgen'[d] = sgen[d] /\ query'[d] = query[d]
      BY <2>3
    <3>2. lease[w] = None BY <2>3, Zenon DEF WorkerInv
    <3>3. lease[PoolOf[d]] = d => lease'[PoolOf[d]] = d
      <4>1. CASE PoolOf[d] = w BY <3>2, <4>1
      <4>2. CASE PoolOf[d] # w
        <5>1. lease' = [lease EXCEPT ![w] = c] BY <2>3, Zenon
        <5>2. PoolOf[d] \in Worker BY PoolOfWorker, Zenon
        <5>3. QED BY <4>2, <5>1, <5>2
      <4>3. QED BY <4>1, <4>2, Zenon
    <3>4. QED BY <2>3, <3>1, <3>3 DEF SessionInv, LockPhase, UnlockPhase
  <2>4. QED BY <2>1, <2>2, <2>3, Zenon
<1>5. ASSUME NEW d \in Conn PROVE LockInv(d)'
  BY <1>5, SMTT(30) DEF SessionInv, LockInv, LockPhase, UnlockPhase
<1>6. OneUnlock'
  BY SMTT(30) DEF OneUnlock, UnlockPhase
<1>7. QED BY <1>1, <1>2, <1>3, <1>4, <1>5, <1>6, Zenon

\* A refused checkout keeps the invariant: the current generation gets a retry timer.
LEMMA ConnectFailedPreserves ==
    ASSUME Safe, NEW w \in Worker, NEW g \in connecting[w], connectFailed(w, g)
    PROVE  Safe'
<1> SUFFICES ASSUME IInv PROVE IInv'
  BY Zenon DEF Safe
<1> USE ConstantsAssumption DEF IInv, TypeOK, Requests, Answers, connectFailed, workerVars, connVars, dbVars
<1>1. TypeOK' BY SMTT(30)
<1>2. ASSUME NEW v \in Worker PROVE WorkerInv(v)'
  BY <1>2, SMTT(30) DEF WorkerInv
<1>3. ASSUME NEW v \in Worker PROVE LeaseInv(v)'
  BY <1>3, SMTT(30) DEF WorkerInv, LeaseInv, SessionInv, LockPhase, UnlockPhase
<1>4. ASSUME NEW d \in Conn PROVE SessionInv(d)'
  BY <1>4, Zenon DEF WorkerInv, LeaseInv, SessionInv, OneUnlock, LockPhase, UnlockPhase
<1>5. ASSUME NEW d \in Conn PROVE LockInv(d)'
  BY <1>5, SMTT(30) DEF SessionInv, LockInv, LockPhase, UnlockPhase
<1>6. OneUnlock'
  BY SMTT(30) DEF OneUnlock, UnlockPhase
<1>7. QED BY <1>1, <1>2, <1>3, <1>4, <1>5, <1>6, Zenon

\* The answer to a superseded session keeps the invariant.
LEMMA LateLockAnswerPreserves ==
    ASSUME Safe, NEW w \in Worker, NEW c \in Conn, lateLockAnswer(w, c)
    PROVE  Safe'
<1> SUFFICES ASSUME IInv PROVE IInv'
  BY Zenon DEF Safe
<1> USE ConstantsAssumption DEF IInv, TypeOK, Requests, Answers, lateLockAnswer, isCurrent, disposeSession, workerVars, connVars, dbVars
<1>1. TypeOK' BY SMTT(30)
<1>2. ASSUME NEW v \in Worker PROVE WorkerInv(v)'
  BY <1>2, SMTT(30) DEF WorkerInv, LeaseInv
<1>3. ASSUME NEW v \in Worker PROVE LeaseInv(v)'
  BY <1>3, SMTT(30) DEF LeaseInv
<1>4. ASSUME NEW d \in Conn PROVE SessionInv(d)'
  BY <1>4, SMTT(30) DEF SessionInv, OneUnlock, LockPhase, UnlockPhase
<1>5. ASSUME NEW d \in Conn PROVE LockInv(d)'
  BY <1>5, SMTT(30) DEF SessionInv, LockInv, LockPhase, UnlockPhase
<1>6. OneUnlock'
  BY SMTT(30) DEF OneUnlock, UnlockPhase
<1>7. QED BY <1>1, <1>2, <1>3, <1>4, <1>5, <1>6, Zenon

\* A denied lock keeps the invariant: the connection returns without the lock.
LEMMA LockDeniedPreserves ==
    ASSUME Safe, NEW w \in Worker, NEW c \in Conn, lockDenied(w, c)
    PROVE  Safe'
<1> SUFFICES ASSUME IInv PROVE IInv'
  BY Zenon DEF Safe
<1> USE ConstantsAssumption DEF IInv, TypeOK, Requests, Answers, lockDenied, isCurrent, disposeSession, workerVars, connVars, dbVars
<1>1. TypeOK' BY Zenon
<1>2. ASSUME NEW v \in Worker PROVE WorkerInv(v)'
  <2>1. running[w] /\ lease[w] = c /\ query[c] = "denied" /\ c # None BY Zenon
  <2>2. WorkerInv(v) /\ WorkerInv(w) /\ LeaseInv(w) BY Zenon
  <2>3. state[w] = "standby" BY <2>1, <2>2, Zenon DEF LeaseInv
  <2>4. /\ lease'[w] = None /\ timer'[w] = "retry"
        /\ v # w => lease'[v] = lease[v] /\ timer'[v] = timer[v]
        /\ UNCHANGED <<running, gen, state, connecting, stopping>>
    BY Zenon
  <2> HIDE DEF IInv, TypeOK, lockDenied, isCurrent
  <2>5. QED BY <2>1, <2>2, <2>3, <2>4, Zenon DEF WorkerInv
<1>3. ASSUME NEW v \in Worker PROVE LeaseInv(v)'
  BY <1>3, SMTT(30) DEF LeaseInv
<1>4. ASSUME NEW d \in Conn PROVE SessionInv(d)'
  BY <1>4, SMTT(30) DEF SessionInv, OneUnlock, LockPhase, UnlockPhase
<1>5. ASSUME NEW d \in Conn PROVE LockInv(d)'
  BY <1>5, SMTT(30) DEF SessionInv, LockInv, LockPhase, UnlockPhase
<1>6. OneUnlock'
  BY SMTT(30) DEF OneUnlock, UnlockPhase
<1>7. QED BY <1>1, <1>2, <1>3, <1>4, <1>5, <1>6, Zenon

\* A granted lock keeps the invariant: the backend of the new leader owns it.
LEMMA LockGrantedPreserves ==
    ASSUME Safe, NEW w \in Worker, NEW c \in Conn, lockGranted(w, c)
    PROVE  Safe'
<1> SUFFICES ASSUME IInv PROVE IInv'
  BY Zenon DEF Safe
<1> USE ConstantsAssumption DEF IInv, TypeOK, Requests, Answers, lockGranted, isCurrent, workerVars, connVars, dbVars
<1>1. TypeOK' BY Zenon
<1>2. ASSUME NEW v \in Worker PROVE WorkerInv(v)'
  BY <1>2, SMTT(30) DEF WorkerInv
<1>3. ASSUME NEW v \in Worker PROVE LeaseInv(v)'
  BY <1>3, SMTT(30) DEF LeaseInv
<1>4. ASSUME NEW d \in Conn PROVE SessionInv(d)'
  BY <1>4, SMTT(30) DEF SessionInv, OneUnlock, LockPhase, UnlockPhase
<1>5. ASSUME NEW d \in Conn PROVE LockInv(d)'
  BY <1>5, SMTT(30) DEF SessionInv, LockInv, LockPhase, UnlockPhase
<1>6. OneUnlock'
  BY SMTT(30) DEF OneUnlock, UnlockPhase
<1>7. QED BY <1>1, <1>2, <1>3, <1>4, <1>5, <1>6

(***************************************************************************)
(* The other callbacks of a session and the steps of Postgres.             *)
(***************************************************************************)

\* A rejected query keeps the invariant: the current session is lost, an older one
\* is ignored.
LEMMA QueryFailedPreserves ==
    ASSUME Safe, NEW w \in Worker, NEW c \in Conn, queryFailed(w, c)
    PROVE  Safe'
<1> SUFFICES ASSUME IInv PROVE IInv'
  BY Zenon DEF Safe
<1> USE ConstantsAssumption DEF IInv, TypeOK, Requests, Answers, queryFailed, isCurrent, loseLease, disposeSession, querying, workerVars, connVars, dbVars
<1>1. TypeOK'
  <2>1. CASE isCurrent(w, c)
    <3>1. gen' \in [Worker -> Nat] BY <2>1
    <3>2. lease' \in [Worker -> Conn \cup {None}] BY <2>1
    <3>3. /\ state' \in [Worker -> {"standby", "leader"}]
          /\ timer' \in [Worker -> {"none", "retry", "heartbeat"}]
      BY <2>1
    <3>4. client' \in [Conn -> {"idle", "out", "destroyed"}] BY <2>1
    <3>5. query' \in [Conn -> {"none"} \cup Requests \cup Answers] BY <2>1, Zenon
    <3>6. UNCHANGED <<running, connecting, stopping, startWaits, sgen, held, dbVars, restarts, faults>>
      BY <2>1, Zenon
    <3> HIDE DEF queryFailed, loseLease, isCurrent
    <3>7. QED BY <3>1, <3>2, <3>3, <3>4, <3>5, <3>6, Zenon
  <2>2. CASE ~isCurrent(w, c) BY <2>2
  <2>3. QED BY <2>1, <2>2
<1>2. ASSUME NEW v \in Worker PROVE WorkerInv(v)'
  BY <1>2, SMTT(30) DEF WorkerInv
<1>3. ASSUME NEW v \in Worker PROVE LeaseInv(v)'
  BY <1>3, SMTT(30) DEF WorkerInv, LeaseInv
<1>4. ASSUME NEW d \in Conn PROVE SessionInv(d)'
  <2>1. CASE isCurrent(w, c)
    <3>1. gen'[w] = gen[w] + 1 /\ lease'[w] = None /\ client'[c] = "destroyed" BY <2>1
    <3>2. CASE d = c
      <4>1. PoolOf[c] = w /\ sgen[c] = gen[w] /\ gen[w] \in Nat /\ query'[c] = "none" /\ sgen' = sgen
        BY <2>1, Zenon
      <4>2. \A n \in Nat : n <= n + 1 OBVIOUS
      <4>3. "none" \notin LockPhase BY ZenonT(40) DEF LockPhase
      <4> HIDE DEF IInv, queryFailed, loseLease, isCurrent
      <4>4. QED BY <3>1, <3>2, <4>1, <4>2, <4>3, Zenon DEF SessionInv
    <3>3. CASE d # c
      <4>1. /\ client'[d] = client[d] /\ query'[d] = query[d]
            /\ lease[PoolOf[d]] = d => lease'[PoolOf[d]] = d
            /\ gen[PoolOf[d]] <= gen'[PoolOf[d]]
        <5>0. PoolOf[d] \in Worker BY PoolOfWorker, Zenon
        <5>1. lease[w] = c BY <2>1, Zenon
        <5>2. gen' = [gen EXCEPT ![w] = @ + 1] /\ lease' = [lease EXCEPT ![w] = None] BY <2>1, Zenon
        <5>3. CASE PoolOf[d] = w BY <2>1, <3>1, <3>3, <5>0, <5>1, <5>3
        <5>4. CASE PoolOf[d] # w BY <2>1, <3>3, <5>0, <5>1, <5>2, <5>4
        <5>5. QED BY <5>3, <5>4, Zenon
      <4>2. sgen'[d] = sgen[d] /\ stopping' = stopping BY <2>1, Zenon
      <4>3. SessionInv(d) BY Zenon
      <4>n. sgen[d] \in Nat /\ gen[PoolOf[d]] \in Nat /\ gen'[PoolOf[d]] \in Nat BY <1>1
      <4> HIDE DEF queryFailed, loseLease, isCurrent
      <4> HIDE ConstantsAssumption DEF IInv, TypeOK, Requests, Answers
      <4>4. QED BY <4>1, <4>2, <4>3, <4>n, SMTT(30) DEF SessionInv, LockPhase, UnlockPhase
    <3>4. QED BY <3>2, <3>3
  <2>2. CASE ~isCurrent(w, c)
    <3>1. query'[c] = "none" /\ (d # c => query'[d] = query[d])
      BY <2>2
    <3>2. client[c] = "out" => lease[w] = c
      BY <2>2, Zenon DEF SessionInv, UnlockPhase
    <3>3. QED BY <1>4, <2>2, <3>1, <3>2 DEF SessionInv, LockPhase, UnlockPhase
  <2>3. QED BY <2>1, <2>2, Zenon
<1>5. ASSUME NEW d \in Conn PROVE LockInv(d)'
  BY <1>5, SMTT(30) DEF WorkerInv, LeaseInv, SessionInv, LockInv, LockPhase, UnlockPhase
<1>6. OneUnlock'
  BY SMTT(30) DEF OneUnlock, UnlockPhase
<1>7. QED BY <1>1, <1>2, <1>3, <1>4, <1>5, <1>6, ZenonT(40)

\* Sending a heartbeat keeps the invariant.
LEMMA HeartbeatPreserves ==
    ASSUME Safe, NEW w \in Worker, heartbeat(w)
    PROVE  Safe'
<1> SUFFICES ASSUME IInv PROVE IInv'
  BY Zenon DEF Safe
<1> USE ConstantsAssumption DEF IInv, TypeOK, Requests, Answers, heartbeat, isCurrent, querying, workerVars, connVars, dbVars
<1>1. TypeOK' BY Zenon
<1>2. ASSUME NEW v \in Worker PROVE WorkerInv(v)'
  BY <1>2, SMTT(30) DEF WorkerInv
<1>3. ASSUME NEW v \in Worker PROVE LeaseInv(v)'
  BY <1>3, SMTT(30) DEF LeaseInv
<1>4. ASSUME NEW d \in Conn PROVE SessionInv(d)'
  BY <1>4, SMTT(30) DEF SessionInv, OneUnlock, LockPhase, UnlockPhase
<1>5. ASSUME NEW d \in Conn PROVE LockInv(d)'
  BY <1>5, SMTT(30) DEF SessionInv, LockInv, LockPhase, UnlockPhase
<1>6. OneUnlock'
  BY SMTT(30) DEF OneUnlock, UnlockPhase
<1>7. QED BY <1>1, <1>2, <1>3, <1>4, <1>5, <1>6, Zenon

\* The answer to a heartbeat keeps the invariant.
LEMMA HeartbeatAnsweredPreserves ==
    ASSUME Safe, NEW c \in Conn, heartbeatAnswered(c)
    PROVE  Safe'
<1> SUFFICES ASSUME IInv PROVE IInv'
  BY Zenon DEF Safe
<1> USE ConstantsAssumption DEF IInv, TypeOK, Requests, Answers, heartbeatAnswered, workerVars, connVars, dbVars
<1>1. TypeOK' BY Zenon
<1>2. ASSUME NEW v \in Worker PROVE WorkerInv(v)'
  BY <1>2, SMTT(30) DEF WorkerInv
<1>3. ASSUME NEW v \in Worker PROVE LeaseInv(v)'
  BY <1>3, SMTT(30) DEF LeaseInv, SessionInv, LockPhase, UnlockPhase
<1>4. ASSUME NEW d \in Conn PROVE SessionInv(d)'
  BY <1>4, SMTT(30) DEF SessionInv, OneUnlock, LockPhase, UnlockPhase
<1>5. ASSUME NEW d \in Conn PROVE LockInv(d)'
  BY <1>5, SMTT(30) DEF SessionInv, LockInv, LockPhase, UnlockPhase
<1>6. OneUnlock'
  BY SMTT(30) DEF OneUnlock, UnlockPhase
<1>7. QED BY <1>1, <1>2, <1>3, <1>4, <1>5, <1>6, Zenon

\* The error listener keeps the invariant: it loses the current session only.
LEMMA OnErrorPreserves ==
    ASSUME Safe, NEW w \in Worker, NEW c \in Conn, onError(w, c)
    PROVE  Safe'
<1> SUFFICES ASSUME IInv PROVE IInv'
  BY Zenon DEF Safe
<1> USE ConstantsAssumption DEF IInv, TypeOK, Requests, Answers, onError, isCurrent, loseLease, disposeSession, workerVars, connVars, dbVars
<1>1. TypeOK' BY SMTT(30)
<1>2. ASSUME NEW v \in Worker PROVE WorkerInv(v)'
  BY <1>2, SMTT(30) DEF WorkerInv
<1>3. ASSUME NEW v \in Worker PROVE LeaseInv(v)'
  BY <1>3, SMTT(30) DEF LeaseInv
<1>4. ASSUME NEW d \in Conn PROVE SessionInv(d)'
  BY <1>4, SMTT(30) DEF SessionInv, OneUnlock, LockPhase, UnlockPhase
<1>5. ASSUME NEW d \in Conn PROVE LockInv(d)'
  BY <1>5, SMTT(30) DEF SessionInv, LockInv, LockPhase, UnlockPhase
<1>6. OneUnlock'
  BY SMTT(30) DEF OneUnlock, UnlockPhase
<1>7. QED BY <1>1, <1>2, <1>3, <1>4, <1>5, <1>6, Zenon

\* The retry timer keeps the invariant: it starts at most one acquisition.
LEMMA RetryPreserves ==
    ASSUME Safe, NEW w \in Worker, retry(w)
    PROVE  Safe'
<1> SUFFICES ASSUME IInv PROVE IInv'
  BY Zenon DEF Safe
<1> USE ConstantsAssumption DEF IInv, TypeOK, Requests, Answers, retry, acquisitionPending, workerVars, connVars, dbVars
<1>1. TypeOK' BY SMTT(30)
<1>2. ASSUME NEW v \in Worker PROVE WorkerInv(v)'
  BY <1>2, SMTT(30) DEF WorkerInv, LeaseInv, SessionInv, LockPhase, UnlockPhase
<1>3. ASSUME NEW v \in Worker PROVE LeaseInv(v)'
  BY <1>3, SMTT(30) DEF LeaseInv
<1>4. ASSUME NEW d \in Conn PROVE SessionInv(d)'
  BY <1>4, Zenon DEF WorkerInv, LeaseInv, SessionInv, OneUnlock, LockPhase, UnlockPhase
<1>5. ASSUME NEW d \in Conn PROVE LockInv(d)'
  BY <1>5, SMTT(30) DEF SessionInv, LockInv, LockPhase, UnlockPhase
<1>6. OneUnlock'
  BY SMTT(30) DEF OneUnlock, UnlockPhase
<1>7. QED BY <1>1, <1>2, <1>3, <1>4, <1>5, <1>6, ZenonT(40)

\* The end of stop() keeps the invariant, with or without a waiting start().
LEMMA UnlockAnsweredPreserves ==
    ASSUME Safe, NEW w \in Worker, NEW c \in Conn, unlockAnswered(w, c)
    PROVE  Safe'
<1> SUFFICES ASSUME IInv PROVE IInv'
  BY Zenon DEF Safe
<1> USE ConstantsAssumption DEF IInv, TypeOK, Requests, Answers, unlockAnswered, disposeSession, workerVars, connVars, dbVars
<1>0. /\ running' \in [Worker -> BOOLEAN]
      /\ gen' \in [Worker -> Nat]
      /\ connecting' \in [Worker -> SUBSET Nat]
      /\ \A v \in Worker \ {w} : /\ running'[v] = running[v]
                                 /\ gen'[v] = gen[v]
                                 /\ connecting'[v] = connecting[v]
      /\ \/ /\ running'[w] /\ gen'[w] = gen[w] + 1
            /\ connecting'[w] = connecting[w] \cup {gen[w] + 1}
         \/ /\ running'[w] = running[w] /\ gen'[w] = gen[w]
            /\ connecting'[w] = connecting[w]
  BY BeginRunEffect
<1>s. stopping[w] /\ ~running[w] /\ lease[w] = None /\ timer[w] = "none"
  <2>1. client[c] = "out" /\ PoolOf[c] = w /\ query[c] \in UnlockPhase BY DEF UnlockPhase
  <2>2. lease[w] # c
    <3>1. LeaseInv(w) BY Zenon
    <3>2. QED BY <2>1, <3>1 DEF LeaseInv, LockPhase, UnlockPhase
  <2>3. stopping[w] BY <2>1, <2>2 DEF SessionInv
  <2>4. QED BY <2>3, Zenon DEF WorkerInv
<1>c. /\ client' \in [Conn -> {"idle", "out", "destroyed"}]
      /\ query' \in [Conn -> {"none"} \cup Requests \cup Answers]
      /\ stopping' \in [Worker -> BOOLEAN] /\ startWaits' \in [Worker -> BOOLEAN]
      /\ ~stopping'[w] /\ \A v \in Worker \ {w} : stopping'[v] = stopping[v]
      /\ client'[c] # "out" /\ query'[c] = "none"
      /\ \A d \in Conn \ {c} : client'[d] = client[d] /\ query'[d] = query[d]
      /\ UNCHANGED <<state, lease, timer, sgen, held, backend, lockHolder, restarts, faults>>
  OBVIOUS
<1> HIDE DEF unlockAnswered
<1>1. TypeOK' BY <1>0, <1>c, Zenon
<1>2. ASSUME NEW v \in Worker PROVE WorkerInv(v)'
  <2>1. CASE v # w BY <1>0, <1>c, <2>1, SMTT(30) DEF WorkerInv
  <2>2. CASE v = w BY <1>0, <1>c, <1>s, <2>2, SMTT(30) DEF WorkerInv
  <2>3. QED BY <2>1, <2>2, ZenonT(40)
<1>3. ASSUME NEW v \in Worker PROVE LeaseInv(v)'
  <2>1. CASE v = w BY <1>c, <1>s, <2>1, Zenon DEF LeaseInv
  <2>2. CASE v # w
    <3>1. lease[v] # None => lease[v] # c
      BY <2>2 DEF unlockAnswered, LeaseInv
    <3>2. LeaseInv(v) BY Zenon
    <3>3. QED BY <1>0, <1>c, <2>2, <3>1, <3>2, SMTT(30) DEF LeaseInv
  <2>3. QED BY <2>1, <2>2, Zenon
<1>4. ASSUME NEW d \in Conn PROVE SessionInv(d)'
  <2>1. CASE d = c
    <3>1. PoolOf[c] = w /\ sgen'[c] = sgen[c] /\ sgen[c] <= gen[w] BY <1>c, Zenon DEF unlockAnswered, SessionInv
    <3>2. sgen[c] \in Nat /\ gen[w] \in Nat /\ gen'[w] \in {gen[w], gen[w] + 1} BY <1>0, Zenon
    <3> HIDE ConstantsAssumption DEF IInv, TypeOK, Requests, Answers, disposeSession, workerVars, connVars, dbVars
    <3>3. sgen'[c] <= gen'[PoolOf[c]] BY <3>1, <3>2, SMTT(30)
    <3>4. "none" \notin LockPhase BY Zenon DEF LockPhase
    <3>5. QED BY <1>c, <2>1, <3>3, <3>4, Zenon DEF SessionInv
  <2>2. CASE d # c
    <3>1. query[c] \in UnlockPhase /\ client[c] = "out" /\ PoolOf[c] = w
      BY DEF unlockAnswered, UnlockPhase
    <3>2. client[d] = "out" => PoolOf[d] # w
      BY <1>s, <2>2, <3>1, SMTT(30) DEF SessionInv, OneUnlock
    <3>3. QED BY <1>0, <1>c, <2>2, <3>2 DEF SessionInv, LockPhase
  <2>3. QED BY <2>1, <2>2, ZenonT(40)
<1>5. ASSUME NEW d \in Conn PROVE LockInv(d)'
  BY <1>5, SMTT(30) DEF unlockAnswered, WorkerInv, LeaseInv, SessionInv, LockInv, LockPhase, UnlockPhase
<1>6. OneUnlock'
  BY <1>c, SMTT(30) DEF OneUnlock, UnlockPhase
<1>7. QED BY <1>1, <1>2, <1>3, <1>4, <1>5, <1>6, ZenonT(40)

\* Execution of a query by Postgres keeps the invariant.
LEMMA ExecutePreserves ==
    ASSUME Safe, NEW c \in Conn, execute(c)
    PROVE  Safe'
<1> SUFFICES ASSUME IInv PROVE IInv'
  BY Zenon DEF Safe
<1> USE ConstantsAssumption DEF IInv, TypeOK, Requests, Answers, execute, workerVars, connVars, dbVars
<1>1. TypeOK' BY SMTT(30)
<1>2. ASSUME NEW v \in Worker PROVE WorkerInv(v)'
  BY <1>2, SMTT(30) DEF WorkerInv
<1>3. ASSUME NEW v \in Worker PROVE LeaseInv(v)'
  BY <1>3, SMTT(30) DEF LeaseInv, SessionInv, LockPhase, UnlockPhase
<1>4. ASSUME NEW d \in Conn PROVE SessionInv(d)'
  BY <1>4, SMTT(30) DEF SessionInv, OneUnlock, LockPhase, UnlockPhase
<1>5. ASSUME NEW d \in Conn PROVE LockInv(d)'
  BY <1>5, SMTT(30) DEF SessionInv, LockInv, LockPhase, UnlockPhase
<1>6. OneUnlock'
  BY SMTT(30) DEF OneUnlock, UnlockPhase
<1>7. QED BY <1>1, <1>2, <1>3, <1>4, <1>5, <1>6

\* The end of a closed or silent session keeps the invariant.
LEMMA CloseBackendPreserves ==
    ASSUME Safe, NEW c \in Conn, closeBackend(c)
    PROVE  Safe'
<1> SUFFICES ASSUME IInv PROVE IInv'
  BY Zenon DEF Safe
<1> USE ConstantsAssumption DEF IInv, TypeOK, Requests, Answers, closeBackend, backendEnds, workerVars, connVars, dbVars
<1>1. TypeOK' BY ZenonT(40)
<1>2. ASSUME NEW v \in Worker PROVE WorkerInv(v)'
  BY <1>2, SMTT(30) DEF WorkerInv
<1>3. ASSUME NEW v \in Worker PROVE LeaseInv(v)'
  BY <1>3, SMTT(30) DEF LeaseInv
<1>4. ASSUME NEW d \in Conn PROVE SessionInv(d)'
  BY <1>4, SMTT(30) DEF SessionInv, OneUnlock, LockPhase, UnlockPhase
<1>5. ASSUME NEW d \in Conn PROVE LockInv(d)'
  BY <1>5, SMTT(30) DEF SessionInv, LockInv, LockPhase, UnlockPhase
<1>6. OneUnlock'
  BY SMTT(30) DEF OneUnlock, UnlockPhase
<1>7. QED BY <1>1, <1>2, <1>3, <1>4, <1>5, <1>6

\* The death of a backend keeps the invariant.
LEMMA BackendDiesPreserves ==
    ASSUME Safe, NEW c \in Conn, backendDies(c)
    PROVE  Safe'
<1> SUFFICES ASSUME IInv PROVE IInv'
  BY Zenon DEF Safe
<1> USE ConstantsAssumption DEF IInv, TypeOK, Requests, Answers, backendDies, backendEnds, workerVars, connVars, dbVars
<1>1. TypeOK' BY SMTT(30)
<1>2. ASSUME NEW v \in Worker PROVE WorkerInv(v)'
  BY <1>2, SMTT(30) DEF WorkerInv
<1>3. ASSUME NEW v \in Worker PROVE LeaseInv(v)'
  BY <1>3, SMTT(30) DEF LeaseInv
<1>4. ASSUME NEW d \in Conn PROVE SessionInv(d)'
  BY <1>4, SMTT(30) DEF SessionInv, OneUnlock, LockPhase, UnlockPhase
<1>5. ASSUME NEW d \in Conn PROVE LockInv(d)'
  BY <1>5, SMTT(30) DEF SessionInv, LockInv, LockPhase, UnlockPhase
<1>6. OneUnlock'
  BY SMTT(30) DEF OneUnlock, UnlockPhase
<1>7. QED BY <1>1, <1>2, <1>3, <1>4, <1>5, <1>6, Zenon

\* The loss of the network keeps the invariant.
LEMMA CutOffPreserves ==
    ASSUME Safe, NEW c \in Conn, cutOff(c)
    PROVE  Safe'
<1> SUFFICES ASSUME IInv PROVE IInv'
  BY Zenon DEF Safe
<1> USE ConstantsAssumption DEF IInv, TypeOK, Requests, Answers, cutOff, workerVars, connVars, dbVars
<1>1. TypeOK' BY SMTT(30)
<1>2. ASSUME NEW v \in Worker PROVE WorkerInv(v)'
  BY <1>2, SMTT(30) DEF WorkerInv
<1>3. ASSUME NEW v \in Worker PROVE LeaseInv(v)'
  BY <1>3, SMTT(30) DEF LeaseInv
<1>4. ASSUME NEW d \in Conn PROVE SessionInv(d)'
  BY <1>4, SMTT(30) DEF SessionInv, OneUnlock, LockPhase, UnlockPhase
<1>5. ASSUME NEW d \in Conn PROVE LockInv(d)'
  BY <1>5, SMTT(30) DEF SessionInv, LockInv, LockPhase, UnlockPhase
<1>6. OneUnlock'
  BY SMTT(30) DEF OneUnlock, UnlockPhase
<1>7. QED BY <1>1, <1>2, <1>3, <1>4, <1>5, <1>6, Zenon

\* A fresh connection in the pool keeps the invariant.
LEMMA ReopenPreserves ==
    ASSUME Safe, NEW c \in Conn, reopen(c)
    PROVE  Safe'
<1> SUFFICES ASSUME IInv PROVE IInv'
  BY Zenon DEF Safe
<1> USE ConstantsAssumption DEF IInv, TypeOK, Requests, Answers, reopen, querying, workerVars, connVars, dbVars
<1>1. TypeOK' BY ZenonT(40)
<1>2. ASSUME NEW v \in Worker PROVE WorkerInv(v)'
  BY <1>2, SMTT(30) DEF WorkerInv
<1>3. ASSUME NEW v \in Worker PROVE LeaseInv(v)'
  BY <1>3, SMTT(30) DEF LeaseInv
<1>4. ASSUME NEW d \in Conn PROVE SessionInv(d)'
  <2>1. gen[PoolOf[d]] \in Nat
    <3>1. PoolOf[d] \in Worker BY PoolOfWorker, ZenonT(40)
    <3>2. QED BY <3>1
  <2>2. CASE d = c BY <2>1, <2>2 DEF SessionInv, LockPhase
  <2>3. CASE d # c BY <2>3, SMTT(30) DEF SessionInv, LockPhase, UnlockPhase
  <2>4. QED BY <2>2, <2>3, Zenon
<1>5. ASSUME NEW d \in Conn PROVE LockInv(d)'
  BY <1>5, SMTT(30) DEF SessionInv, LockInv, LockPhase, UnlockPhase
<1>6. OneUnlock'
  BY SMTT(30) DEF OneUnlock, UnlockPhase
<1>7. QED BY <1>1, <1>2, <1>3, <1>4, <1>5, <1>6, Zenon

\* The crash of a replica keeps the invariant.
LEMMA CrashPreserves ==
    ASSUME Safe, NEW w \in Worker, crash(w)
    PROVE  Safe'
<1> SUFFICES ASSUME IInv PROVE IInv'
  BY Zenon DEF Safe
<1> USE ConstantsAssumption DEF IInv, TypeOK, Requests, Answers, crash, workerVars, connVars, dbVars
<1>1. TypeOK' BY SMTT(30)
<1>2. ASSUME NEW v \in Worker PROVE WorkerInv(v)'
  BY <1>2, SMTT(30) DEF WorkerInv
<1>3. ASSUME NEW v \in Worker PROVE LeaseInv(v)'
  BY <1>3, SMTT(30) DEF LeaseInv
<1>4. ASSUME NEW d \in Conn PROVE SessionInv(d)'
  <2>1. CASE PoolOf[d] = w
    <3>1. gen'[w] = gen[w] + 1 /\ client'[d] = "destroyed" BY <2>1, Zenon
    <3>2. QED BY <2>1, <3>1 DEF SessionInv
  <2>2. CASE PoolOf[d] # w
    <3>1. client'[d] = client[d] /\ gen'[PoolOf[d]] = gen[PoolOf[d]]
          /\ lease'[PoolOf[d]] = lease[PoolOf[d]] /\ stopping'[PoolOf[d]] = stopping[PoolOf[d]]
      BY <2>2, SMTT(30)
    <3>2. QED BY <1>4, <2>2, <3>1, ZenonT(40) DEF SessionInv, LockPhase, UnlockPhase
  <2>3. QED BY <2>1, <2>2, ZenonT(40)
<1>5. ASSUME NEW d \in Conn PROVE LockInv(d)'
  BY <1>5, SMTT(30) DEF SessionInv, LockInv, LockPhase, UnlockPhase
<1>6. OneUnlock'
  BY SMTT(30) DEF OneUnlock, UnlockPhase
<1>7. QED BY <1>1, <1>2, <1>3, <1>4, <1>5, <1>6, ZenonT(40)

(***************************************************************************)
(* The properties, from the inductive invariant.                           *)
(***************************************************************************)

\* IInv holds initially and every step of the system preserves it.
LEMMA InductiveInvariant == Spec => []IInv
<1>1. Init => IInv
  BY ConstantsAssumption, SMTT(30)
     DEF Init, IInv, TypeOK, Requests, Answers, WorkerInv, LeaseInv, SessionInv, LockInv,
         OneUnlock, LockPhase, UnlockPhase
<1>2. ASSUME Safe, [Next]_vars PROVE Safe'
  <2>1. CASE UNCHANGED vars
    <3>1. IInv
      BY <1>2, ZenonT(40) DEF Safe
    <3>2. /\ UNCHANGED <<running, gen, state, lease, timer, connecting, stopping, startWaits>>
          /\ UNCHANGED <<client, sgen, held, query, backend, lockHolder, restarts, faults>>
      BY <2>1, Zenon DEF vars, workerVars, connVars, dbVars
    <3>4. TypeOK' BY <3>1, <3>2, Zenon DEF IInv, TypeOK
    <3>5. \A v \in Worker : WorkerInv(v)' BY <3>1, <3>2, Zenon DEF IInv, WorkerInv
    <3>6. \A v \in Worker : LeaseInv(v)' BY <3>1, <3>2, Zenon DEF IInv, LeaseInv
    <3>7. \A c \in Conn : SessionInv(c)' BY <3>1, <3>2, Zenon DEF IInv, SessionInv
    <3>8. \A c \in Conn : LockInv(c)' BY <3>1, <3>2, Zenon DEF IInv, LockInv
    <3>9. OneUnlock' BY <3>1, <3>2, Zenon DEF IInv, OneUnlock
    <3>10. IInv' BY <3>4, <3>5, <3>6, <3>7, <3>8, <3>9, Zenon DEF IInv
    <3>3. QED BY <3>10, Zenon DEF Safe
  <2>2. CASE \E w \in Worker : start(w) \/ stop(w) \/ crash(w)
    BY <1>2, <2>2, StartPreserves, StopPreserves, CrashPreserves, SMTT(30)
  <2>3. CASE \E w \in Worker : \E g \in connecting[w] : connectFailed(w, g)
    BY <1>2, <2>3, ConnectFailedPreserves, ZenonT(40)
  <2>4. CASE \E w \in Worker : managerStep(w)
    <3> PICK w \in Worker : managerStep(w) BY <2>4, Zenon
    <3>1. CASE heartbeat(w) \/ retry(w)
      BY <1>2, <3>1, HeartbeatPreserves, RetryPreserves
    <3>2. CASE \E g \in connecting[w], c \in Conn : connected(w, g, c)
      BY <1>2, <3>2, ConnectedPreserves, Zenon
    <3>3. ASSUME NEW c \in Conn,
                 \/ lateLockAnswer(w, c) \/ lockDenied(w, c) \/ lockGranted(w, c)
                 \/ queryFailed(w, c) \/ onError(w, c) \/ unlockAnswered(w, c)
          PROVE  Safe'
      BY <1>2, <3>3, LateLockAnswerPreserves, LockDeniedPreserves, LockGrantedPreserves,
         QueryFailedPreserves, OnErrorPreserves, UnlockAnsweredPreserves, Zenon
    <3>4. QED BY <3>1, <3>2, <3>3, Zenon DEF managerStep
  <2>5. ASSUME NEW c \in Conn,
               \/ heartbeatAnswered(c) \/ execute(c) \/ closeBackend(c)
               \/ backendDies(c) \/ cutOff(c) \/ reopen(c)
        PROVE  Safe'
    BY <1>2, <2>5, HeartbeatAnsweredPreserves, ExecutePreserves, CloseBackendPreserves,
       BackendDiesPreserves, CutOffPreserves, ReopenPreserves, Zenon
  <2>6. QED BY <1>2, <2>1, <2>2, <2>3, <2>4, <2>5, ZenonT(40) DEF Next
<1>3. IInv <=> Safe
  BY Zenon DEF Safe
<1>4. QED BY <1>1, <1>2, <1>3, PTL DEF Spec

\* The state of the managers, the sessions and the database keeps its type.
THEOREM TypeCorrect == Spec => []TypeOK
<1>1. IInv => TypeOK BY Zenon DEF IInv
<1>2. QED BY <1>1, InductiveInvariant, PTL

\* A manager leads only with a session whose backend owns the advisory lock
\* or has ended unnoticed (acquireSession, loseLease, stop).
THEOREM LeaderOwnsLockAlways == Spec => []LeaderOwnsLock
<1>1. IInv => LeaderOwnsLock
  BY ConstantsAssumption, SMTT(30)
     DEF IInv, TypeOK, WorkerInv, LeaseInv, LockInv, LockPhase, LeaderOwnsLock
<1>2. QED BY <1>1, InductiveInvariant, PTL

\* A manager that leads with a live backend has the lock on its lease, which is
\* checked out and not being unlocked.
LEMMA ConnectedLeaderHasLock ==
    ASSUME IInv, NEW w \in Worker, leadsConnected(w)
    PROVE  /\ lease[w] \in Conn /\ PoolOf[lease[w]] = w /\ client[lease[w]] = "out"
           /\ lockHolder = lease[w] /\ query[lease[w]] \in {"none", "ping", "pong"}
<1>1. state[w] = "leader" /\ backend[lease[w]] # "down" BY Zenon DEF leadsConnected
<1>2. WorkerInv(w) /\ LeaseInv(w) /\ lease[w] \in Conn \cup {None}
  BY Zenon DEF IInv, TypeOK
<1>3. lease[w] # None /\ lease[w] \in Conn
  BY <1>1, <1>2, Zenon DEF WorkerInv
<1>4. /\ PoolOf[lease[w]] = w /\ client[lease[w]] = "out"
      /\ query[lease[w]] \in {"none", "ping", "pong"}
  BY <1>1, <1>2, <1>3, Zenon DEF LeaseInv
<1>5. LockInv(lease[w]) BY <1>3, Zenon DEF IInv
<1>6. QED BY <1>1, <1>3, <1>4, <1>5, Zenon DEF LockInv

\* Mutual exclusion of the managers whose backend is alive.
THEOREM OneConnectedLeaderAlways == Spec => []OneConnectedLeader
<1>1. IInv => OneConnectedLeader
  <2> SUFFICES ASSUME IInv, NEW v \in Worker, NEW w \in Worker, leadsConnected(v), leadsConnected(w)
               PROVE  v = w
    BY Zenon DEF OneConnectedLeader
  <2>1. PoolOf[lease[v]] = v /\ lockHolder = lease[v]
    BY ConnectedLeaderHasLock, Zenon
  <2>2. PoolOf[lease[w]] = w /\ lockHolder = lease[w]
    BY ConnectedLeaderHasLock, Zenon
  <2>3. QED BY <2>1, <2>2, Zenon
<1>2. QED BY <1>1, InductiveInvariant, PTL

(***************************************************************************)
(* The managers implement Leadership.                                      *)
(***************************************************************************)

\* A step of Leadership, or none.
Simulates == [Election!LeadershipNext]_<<lockOwner, connectedLeaders>>

\* The lock stays where it is and nobody comes to lead.
OnlyRevokes ==
    /\ lockHolder' = lockHolder
    /\ \A v \in Worker : leadsConnected(v)' => leadsConnected(v)

\* At most one manager leads connected, so that such a step is Revoke, or nothing.
LEMMA RevokesSimulate == ASSUME IInv, OnlyRevokes PROVE Simulates
<1>1. lockOwner' = lockOwner BY Zenon DEF OnlyRevokes, lockOwner
<1>2. CASE connectedLeaders = {}
  <2>1. connectedLeaders' = connectedLeaders
    BY <1>2, Zenon DEF OnlyRevokes, connectedLeaders
  <2>2. QED BY <1>1, <2>1, Zenon DEF Simulates
<1>3. CASE connectedLeaders # {}
  <2>1. PICK w \in Worker : leadsConnected(w) BY <1>3, Zenon DEF connectedLeaders
  <2>2. \A v \in Worker : leadsConnected(v) => v = w
    <3>1. SUFFICES ASSUME NEW v \in Worker, leadsConnected(v) PROVE v = w BY Zenon
    <3>2. PoolOf[lease[v]] = v /\ lockHolder = lease[v] BY <3>1, ConnectedLeaderHasLock, Zenon
    <3>3. PoolOf[lease[w]] = w /\ lockHolder = lease[w] BY <2>1, ConnectedLeaderHasLock, Zenon
    <3>4. QED BY <3>2, <3>3, Zenon
  <2>3. connectedLeaders = {w} BY <2>1, <2>2, Zenon DEF connectedLeaders
  <2>4. connectedLeaders' \subseteq {w} BY <2>2, Zenon DEF connectedLeaders, OnlyRevokes
  <2>5. CASE connectedLeaders' = {w} BY <1>1, <2>3, <2>5, Zenon DEF Simulates
  <2>6. CASE connectedLeaders' = {}
    <3>1. connectedLeaders' = connectedLeaders \ {w} BY <2>3, <2>6, Zenon
    <3>2. Election!Revoke(w) BY <1>1, <3>1, Zenon DEF Election!Revoke
    <3>3. QED BY <3>2, Zenon DEF Simulates, Election!LeadershipNext
  <2>7. QED BY <2>4, <2>5, <2>6, Zenon
<1>4. QED BY <1>2, <1>3, Zenon

\* A step that leaves the states, the leases and the database alone.
LEMMA SameLeases ==
    ASSUME UNCHANGED <<state, lease, backend, lockHolder>>
    PROVE  OnlyRevokes
BY Zenon DEF OnlyRevokes, leadsConnected

\* A manager goes back to standby (stop, crash, loseLease).
LEMMA StepsBack ==
    ASSUME TypeOK, NEW w \in Worker, state' = [state EXCEPT ![w] = "standby"],
           lease' = [lease EXCEPT ![w] = None], UNCHANGED dbVars
    PROVE  OnlyRevokes
<1>1. state \in [Worker -> {"standby", "leader"}] /\ lease \in [Worker -> Conn \cup {None}]
  BY Zenon DEF TypeOK
<1>2. state'[w] = "standby" /\ \A v \in Worker \ {w} : state'[v] = state[v] /\ lease'[v] = lease[v]
  BY <1>1, Zenon
<1>3. "standby" # "leader" BY Zenon
<1>4. backend' = backend /\ lockHolder' = lockHolder BY Zenon DEF dbVars
<1>5. QED BY <1>2, <1>3, <1>4, Zenon DEF OnlyRevokes, leadsConnected

\* The lease of a manager in standby changes (connected, lockDenied).
LEMMA LeaseInStandby ==
    ASSUME TypeOK, NEW w \in Worker, state[w] = "standby", NEW x,
           lease' = [lease EXCEPT ![w] = x], UNCHANGED <<state, dbVars>>
    PROVE  OnlyRevokes
<1>1. lease \in [Worker -> Conn \cup {None}] BY Zenon DEF TypeOK
<1>2. \A v \in Worker \ {w} : lease'[v] = lease[v] BY <1>1, Zenon
<1>3. "standby" # "leader" BY Zenon
<1>4. backend' = backend /\ lockHolder' = lockHolder BY Zenon DEF dbVars
<1>5. QED BY <1>2, <1>3, <1>4, Zenon DEF OnlyRevokes, leadsConnected

\* Calls of the application, crashes and failed connects make no leader.
LEMMA CallsRevoke ==
    ASSUME IInv, NEW w \in Worker,
           start(w) \/ stop(w) \/ crash(w) \/ \E g \in connecting[w] : connectFailed(w, g)
    PROVE  OnlyRevokes
<1>0. TypeOK BY Zenon DEF IInv
<1>1. CASE start(w) BY <1>1, SameLeases, Zenon DEF start, dbVars
<1>2. CASE stop(w) BY <1>0, <1>2, StepsBack, Zenon DEF stop
<1>3. CASE crash(w) BY <1>0, <1>3, StepsBack, Zenon DEF crash
<1>4. CASE \E g \in connecting[w] : connectFailed(w, g)
  BY <1>4, SameLeases, Zenon DEF connectFailed, dbVars
<1>5. QED BY <1>1, <1>2, <1>3, <1>4, Zenon

\* The callbacks of a manager make no leader, but for the granted lock.
LEMMA CallbacksRevoke ==
    ASSUME IInv, NEW w \in Worker,
           \/ heartbeat(w) \/ retry(w)
           \/ \E g \in connecting[w], c \in Conn : connected(w, g, c)
           \/ \E c \in Conn : lateLockAnswer(w, c) \/ lockDenied(w, c) \/ queryFailed(w, c)
                                 \/ onError(w, c) \/ unlockAnswered(w, c)
    PROVE  OnlyRevokes
<1>0. TypeOK /\ WorkerInv(w) /\ LeaseInv(w) BY Zenon DEF IInv
<1>1. CASE heartbeat(w) \/ retry(w)
  BY <1>1, SameLeases, Zenon DEF heartbeat, retry, workerVars, dbVars
<1>2. CASE \E g \in connecting[w], c \in Conn : connected(w, g, c)
  <2>1. PICK g \in connecting[w], c \in Conn : connected(w, g, c) BY <1>2, Zenon
  <2>2. CASE running[w] /\ gen[w] = g
    <3>1. state[w] = "standby" BY <1>0, <2>2, Zenon DEF WorkerInv
    <3>2. lease' = [lease EXCEPT ![w] = c] /\ UNCHANGED <<state, dbVars>>
      BY <2>1, <2>2, Zenon DEF connected
    <3>3. QED BY <1>0, <3>1, <3>2, LeaseInStandby, Zenon
  <2>3. CASE ~(running[w] /\ gen[w] = g)
    BY <2>1, <2>3, SameLeases, Zenon DEF connected, dbVars
  <2>4. QED BY <2>2, <2>3, Zenon
<1>3. ASSUME NEW c \in Conn, lateLockAnswer(w, c) PROVE OnlyRevokes
  <2>1. lease[w] # c
    <3>1. SUFFICES ASSUME lease[w] = c PROVE isCurrent(w, c) BY <1>3, Zenon DEF lateLockAnswer
    <3>2. c # None BY ConstantsAssumption, Zenon
    <3>3. QED BY <1>0, <3>1, <3>2, Zenon DEF isCurrent, WorkerInv, LeaseInv
  <2>2. lease' = lease
    <3>1. lease' = [lease EXCEPT ![w] = lease[w]] BY <1>3, <2>1, Zenon DEF lateLockAnswer
    <3>2. QED BY <1>0, <3>1, Zenon DEF TypeOK
  <2>3. QED BY <1>3, <2>2, SameLeases, Zenon DEF lateLockAnswer, dbVars
<1>4. ASSUME NEW c \in Conn, lockDenied(w, c) PROVE OnlyRevokes
  <2>1. lease[w] = c /\ query[c] = "denied" BY <1>4, Zenon DEF lockDenied, isCurrent
  <2>2. c # None BY ConstantsAssumption, Zenon
  <2>3. "denied" \notin {"none", "ping", "pong"} BY Zenon
  <2>4. state[w] = "standby" BY <1>0, <2>1, <2>2, <2>3, Zenon DEF LeaseInv
  <2>5. QED BY <1>0, <1>4, <2>4, LeaseInStandby, Zenon DEF lockDenied
<1>5. ASSUME NEW c \in Conn, queryFailed(w, c) PROVE OnlyRevokes
  <2>1. CASE isCurrent(w, c) BY <1>0, <1>5, <2>1, StepsBack, Zenon DEF queryFailed, loseLease
  <2>2. CASE ~isCurrent(w, c)
    BY <1>5, <2>2, SameLeases, Zenon DEF queryFailed, workerVars, dbVars
  <2>3. QED BY <2>1, <2>2, Zenon
<1>6. ASSUME NEW c \in Conn, onError(w, c) PROVE OnlyRevokes
  BY <1>0, <1>6, StepsBack, Zenon DEF onError, loseLease
<1>7. ASSUME NEW c \in Conn, unlockAnswered(w, c) PROVE OnlyRevokes
  BY <1>7, SameLeases, Zenon DEF unlockAnswered, dbVars
<1>8. QED BY <1>1, <1>2, <1>3, <1>4, <1>5, <1>6, <1>7, Zenon

\* The granted lock elects a manager whose replica owns the lock, unless the
\* backend has ended in the meantime.
LEMMA GrantSimulates ==
    ASSUME IInv, NEW w \in Worker, NEW c \in Conn, lockGranted(w, c)
    PROVE  Simulates
<1>1. /\ PoolOf[c] = w /\ query[c] = "granted" /\ lease[w] = c /\ client[c] = "out"
      /\ state' = [state EXCEPT ![w] = "leader"] /\ UNCHANGED <<lease, backend, lockHolder>>
  BY Zenon DEF lockGranted, isCurrent, dbVars
<1>2. state \in [Worker -> {"standby", "leader"}] /\ c # None /\ LockInv(c)
  BY ConstantsAssumption, Zenon DEF IInv, TypeOK
<1>3. lockOwner' = lockOwner BY <1>1, Zenon DEF lockOwner
<1>4. \A v \in Worker \ {w} : leadsConnected(v)' <=> leadsConnected(v)
  BY <1>1, <1>2, Zenon DEF leadsConnected
<1>5. leadsConnected(w)' <=> backend[c] # "down"
  BY <1>1, <1>2, Zenon DEF leadsConnected
<1>6. CASE backend[c] = "down"
  <2>1. ~leadsConnected(w) BY <1>1, <1>6, Zenon DEF leadsConnected
  <2>2. connectedLeaders' = connectedLeaders
    BY <1>4, <1>5, <1>6, <2>1, Zenon DEF connectedLeaders
  <2>3. QED BY <1>3, <2>2, Zenon DEF Simulates
<1>7. CASE backend[c] # "down"
  <2>1. lockHolder = c BY <1>1, <1>2, <1>7, Zenon DEF LockInv
  <2>2. lockOwner = w BY <1>1, <1>2, <2>1, Zenon DEF lockOwner
  <2>3. connectedLeaders' = connectedLeaders \cup {w}
    BY <1>4, <1>5, <1>7, Zenon DEF connectedLeaders
  <2>4. Election!Elect(w) BY <1>3, <2>2, <2>3, Zenon DEF Election!Elect
  <2>5. QED BY <2>4, Zenon DEF Simulates, Election!LeadershipNext
<1>8. QED BY <1>6, <1>7, Zenon

\* Postgres gives a free lock to a session, or frees the lock of one whose
\* manager no longer leads.
LEMMA ExecuteSimulates ==
    ASSUME IInv, NEW c \in Conn, execute(c)
    PROVE  Simulates
<1>1. connectedLeaders' = connectedLeaders
  BY Zenon DEF execute, workerVars, connectedLeaders, leadsConnected
<1>2. PoolOf[c] \in Worker /\ c # None BY PoolOfWorker, ConstantsAssumption, Zenon
<1>3. CASE lockHolder' = lockHolder
  BY <1>1, <1>3, Zenon DEF Simulates, lockOwner
<1>4. CASE lockHolder' # lockHolder /\ query[c] = "lock"
  <2>1. lockHolder = None /\ lockHolder' = c BY <1>4, Zenon DEF execute
  <2>2. lockOwner = None /\ lockOwner' = PoolOf[c] BY <1>2, <2>1, Zenon DEF lockOwner
  <2>3. Election!Acquire(PoolOf[c]) BY <1>1, <2>2, Zenon DEF Election!Acquire
  <2>4. QED BY <1>2, <2>3, Zenon DEF Simulates, Election!LeadershipNext
<1>5. CASE lockHolder' # lockHolder /\ query[c] # "lock"
  <2>1. lockHolder = c /\ lockHolder' = None /\ query[c] = "unlock" BY <1>5, Zenon DEF execute
  <2>2. lockOwner = PoolOf[c] /\ lockOwner' = None BY <1>2, <2>1, Zenon DEF lockOwner
  <2>3. "unlock" \notin {"none", "ping", "pong"} BY Zenon
  <2>4. ~leadsConnected(PoolOf[c]) BY <1>2, <2>1, <2>3, ConnectedLeaderHasLock, Zenon
  <2>5. connectedLeaders' = connectedLeaders \ {PoolOf[c]}
    BY <1>1, <2>4, Zenon DEF connectedLeaders
  <2>6. Election!Free(PoolOf[c]) BY <2>2, <2>5, Zenon DEF Election!Free
  <2>7. QED BY <1>2, <2>6, Zenon DEF Simulates, Election!LeadershipNext
<1>6. QED BY <1>3, <1>4, <1>5, Zenon

\* A backend that ends takes its lock and its leader with it.
LEMMA BackendEndSimulates ==
    ASSUME IInv, NEW c \in Conn, closeBackend(c) \/ backendDies(c)
    PROVE  Simulates
<1>1. /\ backend' = [backend EXCEPT ![c] = "down"]
      /\ lockHolder' = IF lockHolder = c THEN None ELSE lockHolder
      /\ UNCHANGED <<state, lease>>
  BY Zenon DEF closeBackend, backendDies, backendEnds, workerVars
<1>2. backend \in [Conn -> {"up", "cut", "down"}] /\ PoolOf[c] \in Worker /\ c # None
  BY PoolOfWorker, ConstantsAssumption, Zenon DEF IInv, TypeOK
<1>3. backend'[c] = "down" /\ \A d \in Conn \ {c} : backend'[d] = backend[d]
  BY <1>1, <1>2, Zenon
<1>4. \A v \in Worker : leadsConnected(v) => /\ lease[v] \in Conn /\ PoolOf[lease[v]] = v
                                             /\ lockHolder = lease[v]
  BY ConnectedLeaderHasLock, Zenon
<1>5. \A v \in Worker : leadsConnected(v)' => leadsConnected(v)
  <2> SUFFICES ASSUME NEW v \in Worker, leadsConnected(v)' PROVE leadsConnected(v) BY Zenon
  <2>1. state[v] = "leader" /\ lease' = lease /\ backend'[lease[v]] # "down"
    BY <1>1, Zenon DEF leadsConnected
  <2>2. lease[v] \in Conn
    BY <2>1, Zenon DEF IInv, TypeOK, WorkerInv
  <2>3. QED BY <1>3, <2>1, <2>2, Zenon DEF leadsConnected
<1>6. CASE lockHolder # c
  BY <1>1, <1>5, <1>6, RevokesSimulate, Zenon DEF OnlyRevokes
<1>7. CASE lockHolder = c
  <2>1. lockOwner = PoolOf[c] /\ lockOwner' = None BY <1>1, <1>2, <1>7, Zenon DEF lockOwner
  <2>2. \A v \in Worker : leadsConnected(v) => v = PoolOf[c] /\ lease[v] = c
    BY <1>4, <1>7, Zenon
  <2>3. \A v \in Worker : ~leadsConnected(v)'
    BY <1>1, <1>3, <1>5, <2>2, Zenon DEF leadsConnected
  <2>4. connectedLeaders' = connectedLeaders \ {PoolOf[c]}
    BY <2>2, <2>3, Zenon DEF connectedLeaders
  <2>5. Election!Free(PoolOf[c]) BY <2>1, <2>4, Zenon DEF Election!Free
  <2>6. QED BY <1>2, <2>5, Zenon DEF Simulates, Election!LeadershipNext
<1>8. QED BY <1>6, <1>7, Zenon

\* A lost network and a fresh connection make no leader: the one leaves the backend
\* alive, the other replaces a connection that is nobody's lease.
LEMMA ConnectionsRevoke ==
    ASSUME IInv, NEW c \in Conn, heartbeatAnswered(c) \/ cutOff(c) \/ reopen(c)
    PROVE  OnlyRevokes
<1>0. backend \in [Conn -> {"up", "cut", "down"}] BY Zenon DEF IInv, TypeOK
<1>1. CASE heartbeatAnswered(c)
  BY <1>1, SameLeases, Zenon DEF heartbeatAnswered, workerVars, dbVars
<1>2. ASSUME UNCHANGED <<state, lease, lockHolder>>,
             \A d \in Conn : (\E v \in Worker : state[v] = "leader" /\ lease[v] = d)
                                /\ backend'[d] # "down" => backend[d] # "down"
      PROVE  OnlyRevokes
  <2> SUFFICES ASSUME NEW v \in Worker, leadsConnected(v)' PROVE leadsConnected(v)
    BY <1>2, Zenon DEF OnlyRevokes
  <2>1. state[v] = "leader" /\ lease' = lease /\ backend'[lease[v]] # "down"
    BY <1>2, Zenon DEF leadsConnected
  <2>2. lease[v] \in Conn BY <2>1, Zenon DEF IInv, TypeOK, WorkerInv
  <2>3. QED BY <1>2, <2>1, <2>2, Zenon DEF leadsConnected
<1>3. CASE cutOff(c)
  <2>1. /\ UNCHANGED <<state, lease, lockHolder>> /\ backend[c] = "up"
        /\ backend' = [backend EXCEPT ![c] = "cut"]
    BY <1>3, Zenon DEF cutOff, workerVars
  <2>2. "up" # "down" BY Zenon
  <2>3. QED BY <1>0, <1>2, <2>1, <2>2, Zenon
<1>4. CASE reopen(c)
  <2>1. /\ UNCHANGED <<state, lease, lockHolder>> /\ client[c] = "destroyed"
        /\ backend' = [backend EXCEPT ![c] = "up"]
    BY <1>4, Zenon DEF reopen, workerVars
  <2>2. \A v \in Worker : lease[v] # c
    <3>1. "destroyed" # "out" /\ c # None BY ConstantsAssumption, Zenon
    <3>2. QED BY <2>1, <3>1, Zenon DEF IInv, LeaseInv
  <2>3. QED BY <1>0, <1>2, <2>1, <2>2, Zenon
<1>5. QED BY <1>1, <1>3, <1>4, Zenon

\* The managers implement Leadership, for any number of replicas and connections:
\* every step of theirs is one of its steps, or changes neither who owns the lock
\* nor who leads.
THEOREM LeadsWithLockAlways == Spec => LeadsWithLock
<1>1. Init => Election!LeadershipInit
  <2> SUFFICES ASSUME Init PROVE lockOwner = None /\ connectedLeaders = {}
    BY Zenon DEF Election!LeadershipInit
  <2>1. lockOwner = None BY Zenon DEF Init, lockOwner
  <2>2. "standby" # "leader" BY Zenon
  <2>3. \A w \in Worker : state[w] = "standby" BY Zenon DEF Init
  <2>4. QED BY <2>1, <2>2, <2>3, Zenon DEF connectedLeaders, leadsConnected
<1>2. ASSUME IInv, [Next]_vars PROVE Simulates
  <2>1. CASE UNCHANGED vars
    BY <2>1, Zenon DEF Simulates, lockOwner, connectedLeaders, leadsConnected, vars, workerVars, dbVars
  <2>2. ASSUME NEW w \in Worker,
               start(w) \/ stop(w) \/ crash(w) \/ \E g \in connecting[w] : connectFailed(w, g)
        PROVE  Simulates
    BY <1>2, <2>2, CallsRevoke, RevokesSimulate, Zenon
  <2>3. ASSUME NEW w \in Worker, managerStep(w) PROVE Simulates
    <3>1. CASE \E c \in Conn : lockGranted(w, c) BY <1>2, <3>1, GrantSimulates, Zenon
    <3>2. CASE ~\E c \in Conn : lockGranted(w, c)
      <4>1. OnlyRevokes BY <1>2, <2>3, <3>2, CallbacksRevoke, Zenon DEF managerStep
      <4>2. QED BY <1>2, <4>1, RevokesSimulate, Zenon
    <3>3. QED BY <3>1, <3>2, Zenon
  <2>4. ASSUME NEW c \in Conn, heartbeatAnswered(c) \/ cutOff(c) \/ reopen(c) PROVE Simulates
    BY <1>2, <2>4, ConnectionsRevoke, RevokesSimulate, Zenon
  <2>5. ASSUME NEW c \in Conn, execute(c) PROVE Simulates
    BY <1>2, <2>5, ExecuteSimulates, Zenon
  <2>6. ASSUME NEW c \in Conn, closeBackend(c) \/ backendDies(c) PROVE Simulates
    BY <1>2, <2>6, BackendEndSimulates, Zenon
  <2>7. QED BY <1>2, <2>1, <2>2, <2>3, <2>4, <2>5, <2>6, Zenon DEF Next
<1>3. QED
  BY <1>1, <1>2, InductiveInvariant, PTL DEF Spec, LeadsWithLock, Election!LeadershipSpec, Simulates

\* No connection goes back to the pool with the advisory lock.
THEOREM NoLockInPoolAlways == Spec => []NoLockInPool
<1>1. IInv => NoLockInPool BY ZenonT(40) DEF IInv, LockInv, NoLockInPool
<1>2. QED BY <1>1, InductiveInvariant, PTL

\* No checked-out connection is forgotten.
THEOREM NoConnectionLeakAlways == Spec => []NoConnectionLeak
<1>1. IInv => NoConnectionLeak BY DEF IInv, SessionInv, NoConnectionLeak, UnlockPhase
<1>2. QED BY <1>1, InductiveInvariant, PTL

\* A running manager is always waiting for something that will happen.
THEOREM NeverStrandedAlways == Spec => []NeverStranded
<1>1. IInv => NeverStranded
  <2> SUFFICES ASSUME IInv, NEW w \in Worker, running[w]
               PROVE  IF state[w] = "leader" THEN timer[w] = "heartbeat"
                      ELSE timer[w] = "retry" \/ acquisitionPending(w)
    BY Zenon DEF NeverStranded
  <2>1. CASE lease[w] = None
    BY <2>1, Zenon DEF IInv, WorkerInv, acquisitionPending
  <2>2. CASE lease[w] # None
    BY <2>2 DEF IInv, TypeOK, LeaseInv, LockPhase, acquisitionPending
  <2>3. QED BY <2>1, <2>2, Zenon
<1>2. QED BY <1>1, InductiveInvariant, PTL

\* A manager never loses the lock while it leads, except with its backend:
\* stop() revokes leadership before the unlock is sent.
THEOREM RevokeBeforeUnlockAlways == Spec => RevokeBeforeUnlock
<1>1. ASSUME IInv, [Next]_vars PROVE [LosesLockWithBackend]_vars
  <2> SUFFICES ASSUME Next, NEW b \in Conn, client[b] = "out", state[PoolOf[b]] = "leader",
                      lockHolder = b, lockHolder' # b
               PROVE  backend'[b] = "down"
    BY <1>1, Zenon DEF LosesLockWithBackend
  <2>0. PoolOf[b] \in Worker /\ b # None
    BY ConstantsAssumption, Zenon
  <2>1. lease[PoolOf[b]] = b
    BY <1>1, <2>0, Zenon DEF IInv, WorkerInv, SessionInv
  <2>q. query[b] \in {"none", "ping", "pong"}
    <3>1. LeaseInv(PoolOf[b]) BY <1>1, <2>0, Zenon DEF IInv
    <3>2. QED BY <2>0, <2>1, <3>1, Zenon DEF LeaseInv
  <2>2. PICK c \in Conn : execute(c) \/ closeBackend(c) \/ backendDies(c)
    <3>1. ASSUME NEW v \in Worker, managerStep(v) PROVE lockHolder' = lockHolder
      <4>1. CASE heartbeat(v) \/ retry(v)
        BY <4>1, Zenon DEF heartbeat, retry, dbVars
      <4>2. CASE \E g \in connecting[v], d \in Conn : connected(v, g, d)
        BY <4>2 DEF connected, dbVars
      <4>3. CASE \E d \in Conn : lateLockAnswer(v, d) \/ lockDenied(v, d) \/ lockGranted(v, d)
        BY <4>3, Zenon DEF lateLockAnswer, lockDenied, lockGranted, dbVars
      <4>4. CASE \E d \in Conn : queryFailed(v, d) \/ onError(v, d) \/ unlockAnswered(v, d)
        BY <4>4, Zenon DEF queryFailed, onError, unlockAnswered, dbVars
      <4>5. QED BY <3>1, <4>1, <4>2, <4>3, <4>4, ZenonT(40) DEF managerStep
    <3>2. ASSUME NEW v \in Worker,
                 start(v) \/ stop(v) \/ crash(v) \/ \E g \in connecting[v] : connectFailed(v, g)
          PROVE  lockHolder' = lockHolder
      BY <3>2, Zenon DEF start, stop, crash, connectFailed, dbVars
    <3>3. ASSUME NEW d \in Conn, heartbeatAnswered(d) \/ cutOff(d) \/ reopen(d)
          PROVE  lockHolder' = lockHolder
      BY <3>3, Zenon DEF heartbeatAnswered, cutOff, reopen, dbVars
    <3>4. QED BY <3>1, <3>2, <3>3, Zenon DEF Next
  <2>3. CASE execute(c)
    BY <2>q, <2>3, ConstantsAssumption DEF execute
  <2>4. CASE closeBackend(c) \/ backendDies(c)
    BY <1>1, <2>4 DEF closeBackend, backendDies, backendEnds, IInv, TypeOK
  <2>5. QED BY <2>2, <2>3, <2>4, Zenon
<1>2. QED BY <1>1, InductiveInvariant, PTL DEF Spec, RevokeBeforeUnlock
=============================================================================
