------------------------------ MODULE Shutdown ------------------------------
(***************************************************************************)
(* GracefulShutdownManager (src/gracefulShutdown.ts) of one process, with  *)
(* the scheduler that it drains: the phases of shutdown() in their order,  *)
(* each of which may hang or fail, the grace timer, a second signal, and   *)
(* the jobs that go on meanwhile.                                          *)
(***************************************************************************)
EXTENDS Scheduler

CONSTANTS
    Local,        \* the replica that runs in this process
    MaxSockets    \* WebSocket clients when the drain begins

ASSUME LocalReplica == Local \in Replica /\ MaxSockets \in Nat

VARIABLES
    phase,       \* 0 before shutdown(), then the number of the phase
    sockets,     \* wss.clients.size
    closedSockets,\* close events seen by drainWebSockets()
    drained,     \* how scheduler_drain ended: "no", "idle" or "late"
    pools,       \* the database pools are "open" or "ended"
    exitCode     \* 0 and 1, or 2 while the process runs

shutdownVars == <<phase, sockets, closedSockets, drained, pools, exitCode>>

Phases == <<"server_close", "ws_drain", "listener_stop", "scheduler_drain", "outbox_stop",
            "invalidation_bus_stop", "pool_close", "redis_close">>

\* Phases and counters have their types.
ShutdownTypeOK ==
    /\ phase \in 0..9 /\ {sockets, closedSockets} \subseteq 0..MaxSockets
    /\ drained \in {"no", "idle", "late"} /\ pools \in {"open", "ended"} /\ exitCode \in 0..2

ShutdownInit ==
    /\ phase = 0 /\ sockets \in 0..MaxSockets /\ closedSockets = 0
    /\ drained = "no" /\ pools = "open" /\ exitCode = 2

alive == exitCode = 2
in(name) == alive /\ phase \in 1..8 /\ Phases[phase] = name

\* process.exit(code): the timers and the jobs of the process end with it.
forceExit(exit) ==
    /\ exitCode' = exit
    /\ processEnds(Local)
    /\ UNCHANGED <<marker, lapses, schedulerFaults, phase, sockets, closedSockets, drained, pools>>

\* shutdown(), first and second call.
shutdown ==
    \/ /\ alive /\ phase = 0 /\ phase' = 1
       /\ UNCHANGED <<schedulerVars, sockets, closedSockets, drained, pools, exitCode>>
    \/ alive /\ phase > 0 /\ forceExit(1)

\* Mutant: the timer is set once the server has closed.
graceAfterServerClose == alive /\ phase > 1

\* forceExitTimer is set before the first phase.
graceRunning == alive /\ phase > 0

graceExpires == graceRunning /\ forceExit(1)

nextPhase ==
    /\ phase' = phase + 1
    /\ UNCHANGED <<schedulerVars, sockets, closedSockets, drained, pools, exitCode>>

\* Only the reject of a phase's promise reaches the catch of shutdown().
phaseFails == forceExit(1)

\* server.close() calls back, with an error or without.
closeServer == in("server_close") /\ (nextPhase \/ phaseFails)

\* stopListeners(), outboxJob.stop() and invalidationBus.stop() settle.
stopParts ==
    /\ \E name \in {"listener_stop", "outbox_stop", "invalidation_bus_stop"} : in(name)
    /\ nextPhase \/ phaseFails

\* An error of disconnect() is only logged.
closeRedis == in("redis_close") /\ nextPhase

\* closed >= this.wss.clients.size, which no longer counts those that closed.
allClosed == closedSockets >= sockets

\* drainWebSockets(): a client closes; the phase ends when all have.
socketCloses ==
    /\ in("ws_drain") /\ sockets > 0
    /\ sockets' = sockets - 1 /\ closedSockets' = closedSockets + 1
    /\ phase' = IF allClosed' THEN phase + 1 ELSE phase
    /\ UNCHANGED <<schedulerVars, drained, pools, exitCode>>

\* There was no client, or 5 s have passed and the rest are terminated.
socketsDone ==
    /\ in("ws_drain")
    /\ phase' = phase + 1 /\ sockets' = 0
    /\ UNCHANGED <<schedulerVars, closedSockets, drained, pools, exitCode>>

\* drainScheduler() stops the timer, then polls isJobRunning().
stopScheduling ==
    /\ in("scheduler_drain") /\ stopTimer(Local)
    /\ UNCHANGED shutdownVars

\* Mutant: the drain does not wait for the job.
drainAtOnce == drained' = "idle"

\* The poll sees no running job, or the deadline has passed.
pollJob == drained' = IF runAt[Local] = "idle" THEN "idle" ELSE "late"

drainScheduler ==
    /\ in("scheduler_drain") /\ ~ticking[Local]
    /\ pollJob
    /\ phase' = phase + 1
    /\ UNCHANGED <<schedulerVars, sockets, closedSockets, pools, exitCode>>

closePools ==
    /\ in("pool_close") /\ pools' = "ended" /\ phase' = phase + 1
    /\ UNCHANGED <<schedulerVars, sockets, closedSockets, drained, exitCode>>

\* All phases are done.
shutdownCompletes == alive /\ phase = 9 /\ forceExit(0)

\* The scheduler of this process is started before shutdown(), after which a
\* crash is as a forced exit; the other replicas do what they do.
jobsGoOn ==
    /\ SchedulerNext
    /\ ticking[Local]' /\ ~ticking[Local] => alive /\ phase = 0
    /\ replicaCrashes(Local) => alive /\ phase = 0
    /\ UNCHANGED shutdownVars

ShutdownNext ==
    \/ shutdown \/ graceExpires \/ closeServer \/ stopParts \/ closeRedis \/ socketCloses \/ socketsDone
    \/ stopScheduling \/ drainScheduler \/ closePools \/ shutdownCompletes \/ jobsGoOn

ShutdownSpec == SchedulerInit /\ ShutdownInit /\ [][ShutdownNext]_<<schedulerVars, shutdownVars>>

(***************************************************************************)
(* The database pools are ended under a running job only when the drain    *)
(* window had passed: a drain that saw no job sees none begin later        *)
(* (gracefulShutdown.ts:212 stops the timer before the first poll).        *)
(***************************************************************************)
PoolsOutliveJobs == pools = "ended" /\ drained = "idle" /\ alive => runAt[Local] = "idle"

(***************************************************************************)
(* When close events end the WebSocket drain, at least half of its clients *)
(* have closed.  (Not all of them: line 192 compares the number that       *)
(* closed with the number that remain.)                                    *)
(***************************************************************************)
HalfClosed == phase > 2 => sockets <= closedSockets

\* "Grace period expired — forcing exit" (gracefulShutdown.ts:116): a shutdown
\* ends, whichever phase hangs.
ShutdownEnds == phase > 0 ~> exitCode # 2
=============================================================================
