---------------------------- MODULE WorkerLease ----------------------------
(***************************************************************************)
(* Leader election of the outbox workers (src/jobs/workerLeaseManager.ts). *)
(* Every replica runs one WorkerLeaseManager.  It checks a connection out  *)
(* of its pool, asks Postgres for a session-level advisory lock on it, and *)
(* is the leader while it believes that session holds the lock.            *)
(*                                                                         *)
(* A LeaseSession object exists from the checkout of a connection to its   *)
(* release, so the session is identified with its connection: `held',      *)
(* `querying' (= a query is in flight) and the generation its closures     *)
(* captured are functions of the connection.  Every await of the code is a *)
(* step boundary: a query is sent, executed by the backend and answered in *)
(* three separate steps.                                                   *)
(***************************************************************************)
EXTENDS Naturals

CONSTANTS
    Worker,       \* replicas, one WorkerLeaseManager each
    Conn,         \* connections a pool can have open
    PoolOf,       \* PoolOf[c]: the worker whose pool owns connection c
    None,         \* JavaScript null
    MaxRestarts,  \* bound: calls of start() and stop() in a behaviour
    MaxFaults     \* bound: connection losses, refused connects and crashes

ASSUME ConstantsAssumption ==
    /\ None \notin Conn
    /\ PoolOf \in [Conn -> Worker]
    /\ MaxRestarts \in Nat
    /\ MaxFaults \in Nat

VARIABLES
    running,      \* running[w]: this.running
    gen,          \* gen[w]: this.generation
    state,        \* state[w]: this.state
    lease,        \* lease[w]: this.lease
    timer,        \* timer[w]: which of retryTimer and heartbeatTimer is set
    connecting,   \* connecting[w]: generations whose acquireSession awaits pool.connect()
    stopping,     \* stopping[w]: this.stopping is a pending promise
    startWaits,   \* startWaits[w]: a start() awaits this.stopping
    client,       \* client[c]: client side of the connection
    sgen,         \* sgen[c]: generation captured by the session's closures
    held,         \* held[c]: session.held
    query,        \* query[c]: the query in flight on c, or its answer
    backend,      \* backend[c]: the Postgres backend serving c
    lockHolder,   \* the connection whose backend owns the advisory lock
    restarts, faults

workerVars == <<running, gen, state, lease, timer, connecting, stopping, startWaits>>
connVars == <<client, sgen, held, query>>
dbVars == <<backend, lockHolder>>
vars == <<workerVars, connVars, dbVars, restarts, faults>>

Answers == {"granted", "denied", "pong", "unlocked", "notHeld"}
Requests == {"lock", "ping", "unlock"}

TypeOK ==
    /\ running \in [Worker -> BOOLEAN]
    /\ gen \in [Worker -> Nat]
    /\ state \in [Worker -> {"standby", "leader"}]
    /\ lease \in [Worker -> Conn \cup {None}]
    /\ timer \in [Worker -> {"none", "retry", "heartbeat"}]
    /\ connecting \in [Worker -> SUBSET Nat]
    /\ stopping \in [Worker -> BOOLEAN]
    /\ startWaits \in [Worker -> BOOLEAN]
    /\ client \in [Conn -> {"idle", "out", "destroyed"}]
    /\ sgen \in [Conn -> Nat]
    /\ held \in [Conn -> BOOLEAN]
    /\ query \in [Conn -> {"none"} \cup Requests \cup Answers]
    /\ backend \in [Conn -> {"up", "cut", "down"}]
    /\ lockHolder \in Conn \cup {None}
    /\ restarts \in 0..MaxRestarts
    /\ faults \in 0..MaxFaults

Init ==
    /\ running = [w \in Worker |-> FALSE]
    /\ gen = [w \in Worker |-> 0]
    /\ state = [w \in Worker |-> "standby"]
    /\ lease = [w \in Worker |-> None]
    /\ timer = [w \in Worker |-> "none"]
    /\ connecting = [w \in Worker |-> {}]
    /\ stopping = [w \in Worker |-> FALSE]
    /\ startWaits = [w \in Worker |-> FALSE]
    /\ client = [c \in Conn |-> "idle"]
    /\ sgen = [c \in Conn |-> 0]
    /\ held = [c \in Conn |-> FALSE]
    /\ query = [c \in Conn |-> "none"]
    /\ backend = [c \in Conn |-> "up"]
    /\ lockHolder = None
    /\ restarts = 0
    /\ faults = 0

-----------------------------------------------------------------------------
(* Helpers of the class.                                                    *)

\* lease.querying: set when a query is sent, reset when it is answered.
querying(c) == query[c] # "none"

isCurrent(w, c) ==
    /\ running[w]
    /\ gen[w] = sgen[c]
    /\ lease[w] = c
    /\ client[c] = "out"

\* tryAcquire() joins the acquisition of the same generation if one is pending.
acquisitionPending(w) ==
    \/ gen[w] \in connecting[w]
    \/ \E c \in Conn : /\ PoolOf[c] = w
                       /\ sgen[c] = gen[w]
                       /\ query[c] \in {"lock", "granted", "denied"}

\* release(true) closes the socket; release() gives the connection back.
disposeSession(c, destroy) ==
    client' = [client EXCEPT ![c] = IF destroy THEN "destroyed" ELSE "idle"]

\* The effect of loseLease on the manager: a new generation, no lease, standby,
\* and a retry timer.  The session is destroyed.
loseLease(w, c) ==
    /\ gen' = [gen EXCEPT ![w] = @ + 1]
    /\ lease' = [lease EXCEPT ![w] = None]
    /\ state' = [state EXCEPT ![w] = "standby"]
    /\ timer' = [timer EXCEPT ![w] = "retry"]
    /\ disposeSession(c, TRUE)
    /\ UNCHANGED <<running, connecting, stopping, startWaits>>

\* The part of start() after the guards: a new generation and its first
\* tryAcquire(), which calls pool.connect() at once.
beginRun(w) ==
    /\ running' = [running EXCEPT ![w] = TRUE]
    /\ gen' = [gen EXCEPT ![w] = @ + 1]
    /\ connecting' = [connecting EXCEPT ![w] = @ \cup {gen[w] + 1}]

-----------------------------------------------------------------------------
(* Calls of the application.                                                *)

start(w) ==
    /\ restarts < MaxRestarts
    /\ restarts' = restarts + 1
    /\ \/ /\ stopping[w]
          /\ startWaits' = [startWaits EXCEPT ![w] = TRUE]
          /\ UNCHANGED <<running, gen, connecting>>
       \/ /\ ~stopping[w] /\ ~running[w]
          /\ beginRun(w)
          /\ UNCHANGED startWaits
    /\ UNCHANGED <<state, lease, timer, stopping, connVars, dbVars, faults>>

\* Mutant: a session with a query in flight is dropped without being disposed.
stopForgetsSession(w) ==
    /\ restarts < MaxRestarts /\ restarts' = restarts + 1
    /\ running[w]
    /\ running' = [running EXCEPT ![w] = FALSE]
    /\ gen' = [gen EXCEPT ![w] = @ + 1]
    /\ timer' = [timer EXCEPT ![w] = "none"]
    /\ lease' = [lease EXCEPT ![w] = None]
    /\ state' = [state EXCEPT ![w] = "standby"]
    /\ UNCHANGED <<connecting, stopping, startWaits, connVars, dbVars, faults>>

\* stop() with releaseLock().  Only a held session with no query in flight
\* is unlocked; any other checked-out session is destroyed at once, and the
\* promise `stopping' is then settled before the event loop goes on.
stop(w) ==
    /\ restarts < MaxRestarts
    /\ restarts' = restarts + 1
    /\ running[w] /\ ~stopping[w]
    /\ running' = [running EXCEPT ![w] = FALSE]
    /\ gen' = [gen EXCEPT ![w] = @ + 1]
    /\ timer' = [timer EXCEPT ![w] = "none"]
    /\ lease' = [lease EXCEPT ![w] = None]
    /\ state' = [state EXCEPT ![w] = "standby"]
    /\ LET c == lease[w]
       IN  \/ /\ c = None
              /\ UNCHANGED <<stopping, client, query>>
           \/ /\ c # None /\ held[c] /\ ~querying(c)
              /\ query' = [query EXCEPT ![c] = "unlock"]
              /\ stopping' = [stopping EXCEPT ![w] = TRUE]
              /\ UNCHANGED client
           \/ /\ c # None /\ ~(held[c] /\ ~querying(c))
              /\ disposeSession(c, TRUE)
              /\ UNCHANGED <<stopping, query>>
    /\ UNCHANGED <<connecting, startWaits, sgen, held, dbVars, faults>>

-----------------------------------------------------------------------------
(* acquireSession(generation), resumed by pool.connect().                   *)

\* A connection arrives.  A call of an older generation returns it unused.
connected(w, g, c) ==
    /\ g \in connecting[w]
    /\ PoolOf[c] = w /\ client[c] = "idle"
    /\ connecting' = [connecting EXCEPT ![w] = @ \ {g}]
    /\ IF running[w] /\ gen[w] = g
       THEN /\ lease' = [lease EXCEPT ![w] = c]
            /\ client' = [client EXCEPT ![c] = "out"]
            /\ sgen' = [sgen EXCEPT ![c] = g]
            /\ held' = [held EXCEPT ![c] = FALSE]
            /\ query' = [query EXCEPT ![c] = "lock"]
       ELSE UNCHANGED <<lease, connVars>>
    /\ UNCHANGED <<running, gen, state, timer, stopping, startWaits, dbVars, restarts, faults>>

\* Mutant: the catch block does not schedule a retry when there is no lease.
connectFailedNoRetry(w, g) ==
    /\ faults < MaxFaults /\ faults' = faults + 1
    /\ g \in connecting[w]
    /\ connecting' = [connecting EXCEPT ![w] = @ \ {g}]
    /\ UNCHANGED <<running, gen, state, lease, timer, stopping, startWaits, connVars, dbVars, restarts>>

\* pool.connect() rejects: the catch block with no lease.
connectFailed(w, g) ==
    /\ faults < MaxFaults
    /\ faults' = faults + 1
    /\ g \in connecting[w]
    /\ connecting' = [connecting EXCEPT ![w] = @ \ {g}]
    /\ timer' = [timer EXCEPT ![w] = IF running[w] /\ gen[w] = g THEN "retry" ELSE @]
    /\ UNCHANGED <<running, gen, state, lease, stopping, startWaits, connVars, dbVars, restarts>>

(* acquireSession(generation), resumed by the answer to pg_try_advisory_lock. *)

\* The session was superseded while the query was in flight: it is destroyed
\* (disposeSession is idempotent), whatever the answer says.
lateLockAnswer(w, c) ==
    /\ PoolOf[c] = w /\ query[c] \in {"granted", "denied"}
    /\ ~isCurrent(w, c)
    /\ query' = [query EXCEPT ![c] = "none"]
    /\ IF client[c] = "out" THEN disposeSession(c, TRUE) ELSE UNCHANGED client
    /\ lease' = [lease EXCEPT ![w] = IF @ = c THEN None ELSE @]
    /\ UNCHANGED <<running, gen, state, timer, connecting, stopping, startWaits,
                   sgen, held, dbVars, restarts, faults>>

\* Mutant: the answer false is taken for a granted lock.
lockDeniedIgnored(w, c) ==
    /\ PoolOf[c] = w /\ query[c] = "denied"
    /\ isCurrent(w, c)
    /\ query' = [query EXCEPT ![c] = "none"]
    /\ held' = [held EXCEPT ![c] = TRUE]
    /\ state' = [state EXCEPT ![w] = "leader"]
    /\ timer' = [timer EXCEPT ![w] = "heartbeat"]
    /\ UNCHANGED <<running, gen, lease, connecting, stopping, startWaits,
                   client, sgen, dbVars, restarts, faults>>

lockDenied(w, c) ==
    /\ PoolOf[c] = w /\ query[c] = "denied"
    /\ isCurrent(w, c)
    /\ query' = [query EXCEPT ![c] = "none"]
    /\ disposeSession(c, FALSE)
    /\ lease' = [lease EXCEPT ![w] = None]
    /\ timer' = [timer EXCEPT ![w] = "retry"]
    /\ UNCHANGED <<running, gen, state, connecting, stopping, startWaits,
                   sgen, held, dbVars, restarts, faults>>

lockGranted(w, c) ==
    /\ PoolOf[c] = w /\ query[c] = "granted"
    /\ isCurrent(w, c)
    /\ query' = [query EXCEPT ![c] = "none"]
    /\ held' = [held EXCEPT ![c] = TRUE]
    /\ state' = [state EXCEPT ![w] = "leader"]
    /\ timer' = [timer EXCEPT ![w] = "heartbeat"]
    /\ UNCHANGED <<running, gen, lease, connecting, stopping, startWaits,
                   client, sgen, dbVars, restarts, faults>>

(* The other callbacks of a session.                                        *)

\* Mutant: a failed query is reported and the lease is kept.
queryFailedIgnored(w, c) ==
    /\ PoolOf[c] = w
    /\ \/ client[c] = "out" /\ query[c] \in {"lock", "ping"} /\ backend[c] # "up"
       \/ client[c] = "destroyed" /\ querying(c)
    /\ query' = [query EXCEPT ![c] = "none"]
    /\ UNCHANGED <<workerVars, client, sgen, held, dbVars, restarts, faults>>

\* A query of acquireSession or heartbeat rejects: both end in loseLease,
\* which does nothing for a session that is not current.
queryFailed(w, c) ==
    /\ PoolOf[c] = w
    /\ \/ client[c] = "out" /\ query[c] \in {"lock", "ping"} /\ backend[c] # "up"
       \/ client[c] = "destroyed" /\ querying(c)
    /\ query' = [query EXCEPT ![c] = "none"]
    /\ IF isCurrent(w, c)
       THEN loseLease(w, c)
       ELSE UNCHANGED <<workerVars, client>>
    /\ UNCHANGED <<sgen, held, dbVars, restarts, faults>>

heartbeat(w) ==
    /\ timer[w] = "heartbeat"
    /\ lease[w] # None
    /\ isCurrent(w, lease[w]) /\ state[w] = "leader" /\ ~querying(lease[w])
    /\ query' = [query EXCEPT ![lease[w]] = "ping"]
    /\ UNCHANGED <<workerVars, client, sgen, held, dbVars, restarts, faults>>

heartbeatAnswered(c) ==
    /\ query[c] = "pong"
    /\ query' = [query EXCEPT ![c] = "none"]
    /\ UNCHANGED <<workerVars, client, sgen, held, dbVars, restarts, faults>>

\* The 'error' listener of the session, removed when it is disposed.
onError(w, c) ==
    /\ PoolOf[c] = w /\ client[c] = "out"
    /\ backend[c] # "up"
    /\ isCurrent(w, c)
    /\ loseLease(w, c)
    /\ UNCHANGED <<sgen, held, query, dbVars, restarts, faults>>

\* retryTimer fires: tryAcquire() joins a pending acquisition of this
\* generation or starts one.
retry(w) ==
    /\ timer[w] = "retry"
    /\ timer' = [timer EXCEPT ![w] = "none"]
    /\ connecting' = [connecting EXCEPT ![w] =
                        IF running[w] /\ ~acquisitionPending(w) THEN @ \cup {gen[w]} ELSE @]
    /\ UNCHANGED <<running, gen, state, lease, stopping, startWaits, connVars, dbVars,
                   restarts, faults>>

\* Mutant: the connection is returned to the pool even if the unlock failed.
unlockAnsweredReuse(w, c) ==
    /\ PoolOf[c] = w /\ client[c] = "out"
    /\ \/ query[c] \in {"unlocked", "notHeld"}
       \/ query[c] = "unlock" /\ backend[c] # "up"
    /\ query' = [query EXCEPT ![c] = "none"]
    /\ disposeSession(c, FALSE)
    /\ stopping' = [stopping EXCEPT ![w] = FALSE]
    /\ startWaits' = [startWaits EXCEPT ![w] = FALSE]
    /\ IF startWaits[w] THEN beginRun(w) ELSE UNCHANGED <<running, gen, connecting>>
    /\ UNCHANGED <<state, lease, timer, sgen, held, dbVars, restarts, faults>>

\* Mutant: no finally block, a failed unlock leaves this.stopping pending.
unlockAnsweredNoFinally(w, c) ==
    /\ PoolOf[c] = w /\ client[c] = "out"
    /\ query[c] = "unlocked"
    /\ query' = [query EXCEPT ![c] = "none"]
    /\ disposeSession(c, FALSE)
    /\ stopping' = [stopping EXCEPT ![w] = FALSE]
    /\ startWaits' = [startWaits EXCEPT ![w] = FALSE]
    /\ IF startWaits[w] THEN beginRun(w) ELSE UNCHANGED <<running, gen, connecting>>
    /\ UNCHANGED <<state, lease, timer, sgen, held, dbVars, restarts, faults>>

\* releaseLock() resumes and stop() ends; a start() that waited goes on at once.
unlockAnswered(w, c) ==
    /\ PoolOf[c] = w /\ client[c] = "out"
    /\ \/ query[c] \in {"unlocked", "notHeld"}
       \/ query[c] = "unlock" /\ backend[c] # "up"
    /\ query' = [query EXCEPT ![c] = "none"]
    /\ disposeSession(c, query[c] # "unlocked")
    /\ stopping' = [stopping EXCEPT ![w] = FALSE]
    /\ startWaits' = [startWaits EXCEPT ![w] = FALSE]
    /\ IF startWaits[w] THEN beginRun(w) ELSE UNCHANGED <<running, gen, connecting>>
    /\ UNCHANGED <<state, lease, timer, sgen, held, dbVars, restarts, faults>>

-----------------------------------------------------------------------------
(* Postgres and the network (external).                                     *)

\* The backend executes the query it was sent.  A session may take an advisory
\* lock that it already owns.
execute(c) ==
    /\ backend[c] # "down"
    /\ \/ /\ query[c] = "lock" /\ lockHolder \in {None, c}
          /\ query' = [query EXCEPT ![c] = "granted"]
          /\ lockHolder' = c
       \/ /\ query[c] = "lock" /\ lockHolder \notin {None, c}
          /\ query' = [query EXCEPT ![c] = "denied"]
          /\ UNCHANGED lockHolder
       \/ /\ query[c] = "ping"
          /\ query' = [query EXCEPT ![c] = "pong"]
          /\ UNCHANGED lockHolder
       \/ /\ query[c] = "unlock"
          /\ query' = [query EXCEPT ![c] = IF lockHolder = c THEN "unlocked" ELSE "notHeld"]
          /\ lockHolder' = IF lockHolder = c THEN None ELSE lockHolder
    /\ UNCHANGED <<workerVars, client, sgen, held, backend, restarts, faults>>

\* The backend ends and its advisory locks are released: at once when it dies
\* itself, some time later when the client or the network is gone.
backendEnds(c) ==
    /\ backend' = [backend EXCEPT ![c] = "down"]
    /\ lockHolder' = IF lockHolder = c THEN None ELSE lockHolder

closeBackend(c) ==
    /\ client[c] = "destroyed" \/ backend[c] = "cut"
    /\ backend[c] # "down"
    /\ backendEnds(c)
    /\ UNCHANGED <<workerVars, connVars, restarts, faults>>

backendDies(c) ==
    /\ faults < MaxFaults
    /\ faults' = faults + 1
    /\ client[c] = "out" /\ backend[c] = "up"
    /\ backendEnds(c)
    /\ UNCHANGED <<workerVars, connVars, restarts>>

cutOff(c) ==
    /\ faults < MaxFaults
    /\ faults' = faults + 1
    /\ client[c] = "out" /\ backend[c] = "up"
    /\ backend' = [backend EXCEPT ![c] = "cut"]
    /\ UNCHANGED <<workerVars, connVars, lockHolder, restarts>>

\* The pool opens a fresh connection in the place of a destroyed one.
reopen(c) ==
    /\ client[c] = "destroyed" /\ backend[c] = "down" /\ ~querying(c)
    /\ client' = [client EXCEPT ![c] = "idle"]
    /\ backend' = [backend EXCEPT ![c] = "up"]
    /\ sgen' = [sgen EXCEPT ![c] = 0]
    /\ held' = [held EXCEPT ![c] = FALSE]
    /\ UNCHANGED <<workerVars, query, lockHolder, restarts, faults>>

\* The process of a replica dies: its sockets close, its promises are gone.
\* The restarted process has not called start() yet.  Its generation goes on
\* counting: generations are only ever compared with captured ones.
crash(w) ==
    /\ faults < MaxFaults
    /\ faults' = faults + 1
    /\ running[w] \/ stopping[w] \/ connecting[w] # {}
    /\ running' = [running EXCEPT ![w] = FALSE]
    /\ gen' = [gen EXCEPT ![w] = @ + 1]
    /\ state' = [state EXCEPT ![w] = "standby"]
    /\ lease' = [lease EXCEPT ![w] = None]
    /\ timer' = [timer EXCEPT ![w] = "none"]
    /\ connecting' = [connecting EXCEPT ![w] = {}]
    /\ stopping' = [stopping EXCEPT ![w] = FALSE]
    /\ startWaits' = [startWaits EXCEPT ![w] = FALSE]
    /\ client' = [c \in Conn |-> IF PoolOf[c] = w THEN "destroyed" ELSE client[c]]
    /\ UNCHANGED <<sgen, held, query, dbVars, restarts>>

-----------------------------------------------------------------------------
managerStep(w) ==
    \/ heartbeat(w)
    \/ retry(w)
    \/ \E g \in connecting[w], c \in Conn : connected(w, g, c)
    \/ \E c \in Conn :
          \/ lateLockAnswer(w, c)
          \/ lockDenied(w, c)
          \/ lockGranted(w, c)
          \/ queryFailed(w, c)
          \/ onError(w, c)
          \/ unlockAnswered(w, c)

Next ==
    \/ \E w \in Worker :
          \/ start(w)
          \/ stop(w)
          \/ crash(w)
          \/ managerStep(w)
          \/ \E g \in connecting[w] : connectFailed(w, g)
    \/ \E c \in Conn :
          \/ heartbeatAnswered(c)
          \/ execute(c)
          \/ closeBackend(c)
          \/ backendDies(c)
          \/ cutOff(c)
          \/ reopen(c)

Spec == Init /\ [][Next]_vars

-----------------------------------------------------------------------------
(* Safety.                                                                  *)

\* A leader holds the lease it was granted, and its backend, unless it ended
\* without the manager having noticed, owns the advisory lock: no path of
\* acquireSession, loseLease or stop leaves a manager leading without it.
LeaderOwnsLock ==
    \A w \in Worker : state[w] = "leader" =>
        /\ running[w] /\ lease[w] # None
        /\ client[lease[w]] = "out" /\ held[lease[w]]
        /\ backend[lease[w]] = "down" \/ lockHolder = lease[w]

\* The manager leads, and its backend has not ended.
leadsConnected(w) == state[w] = "leader" /\ backend[lease[w]] # "down"

\* Two managers lead at once only while one of them has lost its backend and
\* not noticed yet.
OneConnectedLeader ==
    \A v, w \in Worker : leadsConnected(v) /\ leadsConnected(w) => v = w

\* The replica whose session has the advisory lock.
lockOwner == IF lockHolder = None THEN None ELSE PoolOf[lockHolder]

connectedLeaders == {w \in Worker : leadsConnected(w)}

Election == INSTANCE Leadership WITH Nobody <- None, owner <- lockOwner, leaders <- connectedLeaders

(***************************************************************************)
(* "Ensures only one outbox publisher instance runs at a time"             *)
(* (workerLeaseManager.ts:46), as far as the session's backend lives: the  *)
(* managers implement Leadership.  Through late answers of superseded      *)
(* sessions, stops, restarts, crashes and lost connections, a manager      *)
(* begins to lead only with the lock in its replica, stops leading before  *)
(* it unlocks or with the end of its backend, and the lock never goes from *)
(* one replica to another without having been free.                        *)
(***************************************************************************)
LeadsWithLock == Election!LeadershipSpec

\* The stronger claim of the class comment: only one outbox publisher instance
\* runs at a time, whatever happens to the connections.
AtMostOneLeader ==
    \A v, w \in Worker : state[v] = "leader" /\ state[w] = "leader" => v = w

\* A connection goes back to the pool only without the advisory lock: a later
\* user of the connection never inherits leadership (releaseLock, disposeSession).
NoLockInPool == \A c \in Conn : client[c] = "idle" => lockHolder # c

\* Every checked-out connection is this.lease of its manager or is being
\* unlocked by stop(): none is forgotten outside the pool.
NoConnectionLeak ==
    \A c \in Conn : client[c] = "out" =>
        \/ lease[PoolOf[c]] = c
        \/ /\ stopping[PoolOf[c]]
           /\ query[c] \in {"unlock", "unlocked", "notHeld"}

\* A running manager always has something that will wake it: the heartbeat of
\* its leadership, a retry timer, or an acquisition of its current generation.
NeverStranded ==
    \A w \in Worker : running[w] =>
        IF state[w] = "leader" THEN timer[w] = "heartbeat"
                               ELSE timer[w] = "retry" \/ acquisitionPending(w)

\* A step in which a leading manager's connection loses the lock ends its backend.
LosesLockWithBackend ==
    \A c \in Conn :
        (client[c] = "out" /\ state[PoolOf[c]] = "leader" /\ lockHolder = c /\ lockHolder' # c)
            => backend'[c] = "down"

\* The advisory lock of a checked-out connection is given up while its manager
\* still leads only if the backend ended: stop() revokes leadership, and tells
\* the observers, before it unlocks.
RevokeBeforeUnlock == [][LosesLockWithBackend]_vars

(* Liveness.                                                                *)

\* The event loop runs every callback that is due, Postgres executes what it
\* is sent and reaps the sessions of closed or silent clients, and the pool
\* opens connections.  Application calls and faults are not fair.
Fairness ==
    /\ \A w \in Worker : WF_vars(managerStep(w))
    /\ \A c \in Conn : /\ WF_vars(heartbeatAnswered(c))
                       /\ WF_vars(execute(c))
                       /\ WF_vars(closeBackend(c))
                       /\ WF_vars(reopen(c))

FairSpec == Spec /\ Fairness

\* A manager whose session died without notice stops leading.
StaleLeaderStepsDown ==
    \A w \in Worker :
        (state[w] = "leader" /\ backend[lease[w]] # "up") ~> (state[w] = "standby" \/ backend[lease[w]] = "up")

\* If some manager keeps running, leadership does not stay vacant: the retry
\* path of every failure leads to a new acquisition.
LeadershipRecovers ==
    (\E w \in Worker : <>[]running[w]) => []<>(\E w \in Worker : state[w] = "leader")

\* stop() always ends, and a start() that waited for it goes on.
StopCompletes == \A w \in Worker : stopping[w] ~> ~stopping[w]
=============================================================================
