----------------------------- MODULE Scheduler ------------------------------
(***************************************************************************)
(* JobScheduler (src/jobs/scheduler.ts) on several replicas, with its      *)
(* optional distributed lock and lastRun marker in Redis.  The lock itself *)
(* (src/jobs/distributedLock.ts) is modelled from this use of it: it is    *)
(* held until its owner releases it or its TTL lapses.                     *)
(***************************************************************************)
EXTENDS Naturals

CONSTANTS
    Replica,
    NoHolder, Orphan,      \* the lock is free; its owner's process is gone
    UseLock, UseMarker,    \* distributedLock and enableIdempotency are set
    MaxSchedulerFaults     \* bound on lapses under a live owner and on crashes

ASSUME SchedulerOptions ==
    /\ UseLock \in BOOLEAN /\ UseMarker \in BOOLEAN
    /\ NoHolder \notin Replica /\ Orphan \notin Replica /\ Orphan # NoHolder

VARIABLES
    ticking,     \* ticking[r]: the interval timer is set
    runAt,       \* runAt[r]: where runJob() is; isRunning is runAt[r] # "idle"
    jobLock,
    marker,      \* the lastRun key exists
    lapses,      \* lapses of the lock under a live owner
    schedulerFaults

schedulerVars == <<ticking, runAt, jobLock, marker, lapses, schedulerFaults>>

Critical == {"read", "job", "write"}

\* Replicas and the lock have their types.
SchedulerTypeOK ==
    /\ ticking \in [Replica -> BOOLEAN]
    /\ runAt \in [Replica -> {"idle", "lock", "unlock"} \cup Critical]
    /\ jobLock \in Replica \cup {NoHolder, Orphan} /\ marker \in BOOLEAN
    /\ schedulerFaults \in Nat /\ lapses \in 0..schedulerFaults

SchedulerInit ==
    /\ ticking = [r \in Replica |-> FALSE] /\ runAt = [r \in Replica |-> "idle"]
    /\ jobLock = NoHolder /\ marker = FALSE /\ lapses = 0 /\ schedulerFaults = 0

runTo(r, place) == runAt' = [runAt EXCEPT ![r] = place]

startTimer(r) ==
    /\ ~ticking[r] /\ ticking' = [ticking EXCEPT ![r] = TRUE]
    /\ UNCHANGED <<runAt, jobLock, marker, lapses, schedulerFaults>>

stopTimer(r) ==
    /\ ticking[r] /\ ticking' = [ticking EXCEPT ![r] = FALSE]
    /\ UNCHANGED <<runAt, jobLock, marker, lapses, schedulerFaults>>

\* A tick of the timer, or runOnStart: runJob() unless one is running.
runJob(r) ==
    /\ ticking[r] /\ runAt[r] = "idle"
    /\ runTo(r, IF UseLock THEN "lock" ELSE "read")
    /\ UNCHANGED <<ticking, jobLock, marker, lapses, schedulerFaults>>

\* Mutant: whoever asks for the lock goes on.
acquireAnyway(r) == runTo(r, "read") /\ jobLock' = r

\* withLock() is refused or takes the lock.
acquire(r) ==
    IF jobLock = NoHolder
    THEN runTo(r, "read") /\ jobLock' = r
    ELSE runTo(r, "idle") /\ UNCHANGED jobLock

\* A request for the lock that fails may still have been granted.
withLock(r) ==
    /\ runAt[r] = "lock"
    /\ \/ acquire(r)
       \/ /\ runTo(r, "idle")
          /\ jobLock' \in IF jobLock = NoHolder THEN {NoHolder, Orphan} ELSE {jobLock}
    /\ UNCHANGED <<ticking, marker, lapses, schedulerFaults>>

\* lastRun !== null
completedInInterval == UseMarker /\ marker

\* The idempotency read; if Redis fails, the run ends ("Fail closed").
readMarker(r) ==
    /\ runAt[r] = "read"
    /\ \/ runTo(r, IF completedInInterval THEN "unlock" ELSE "job")
       \/ UseMarker /\ runTo(r, "unlock")
    /\ UNCHANGED <<ticking, jobLock, marker, lapses, schedulerFaults>>

\* job.run() resolves or rejects.
jobEnds(r) ==
    /\ runAt[r] = "job"
    /\ runTo(r, "unlock") \/ runTo(r, IF UseMarker THEN "write" ELSE "unlock")
    /\ UNCHANGED <<ticking, jobLock, marker, lapses, schedulerFaults>>

\* The completion marker is written, or the write fails before or after that.
writeMarker(r) ==
    /\ runAt[r] = "write"
    /\ marker' \in {marker, TRUE} /\ runTo(r, "unlock")
    /\ UNCHANGED <<ticking, jobLock, lapses, schedulerFaults>>

\* The finally block.
clearRunning(r) == runTo(r, "idle")

\* withLock() releases the lock if it is still the caller's; a release that
\* fails leaves it to its TTL.
release(r) ==
    /\ runAt[r] = "unlock" /\ clearRunning(r)
    /\ jobLock' \in IF jobLock = r THEN {NoHolder, Orphan} ELSE {jobLock}
    /\ UNCHANGED <<ticking, marker, lapses, schedulerFaults>>

\* The TTL of the lock passes: its owner is gone, or its heartbeat is late.
lockLapses ==
    \/ /\ jobLock = Orphan /\ jobLock' = NoHolder
       /\ UNCHANGED <<ticking, runAt, marker, lapses, schedulerFaults>>
    \/ /\ jobLock \in Replica /\ jobLock' = NoHolder
       /\ schedulerFaults < MaxSchedulerFaults
       /\ schedulerFaults' = schedulerFaults + 1 /\ lapses' = lapses + 1
       /\ UNCHANGED <<ticking, runAt, marker>>

\* intervalMs after the completion the marker expires.
markerExpires ==
    /\ marker /\ marker' = FALSE
    /\ UNCHANGED <<ticking, runAt, jobLock, lapses, schedulerFaults>>

\* The process of r is gone.
processEnds(r) ==
    /\ ticking' = [ticking EXCEPT ![r] = FALSE] /\ runTo(r, "idle")
    /\ jobLock' = IF jobLock = r THEN Orphan ELSE jobLock

replicaCrashes(r) ==
    /\ schedulerFaults < MaxSchedulerFaults /\ schedulerFaults' = schedulerFaults + 1
    /\ processEnds(r)
    /\ UNCHANGED <<marker, lapses>>

runStep(r) == withLock(r) \/ readMarker(r) \/ jobEnds(r) \/ writeMarker(r) \/ release(r)

SchedulerNext ==
    \/ lockLapses \/ markerExpires
    \/ \E r \in Replica :
          startTimer(r) \/ stopTimer(r) \/ runJob(r) \/ runStep(r) \/ replicaCrashes(r)

SchedulerSpec == SchedulerInit /\ [][SchedulerNext]_schedulerVars

(***************************************************************************)
(* "only one replica executes the job" (scheduler.ts:31): with a lock, two *)
(* replicas are in the critical section at once only after the lock has    *)
(* lapsed under a live owner, crashes and restarts notwithstanding.        *)
(***************************************************************************)
JobsExclusive ==
    UseLock /\ lapses = 0 =>
        \A r, s \in Replica : runAt[r] \in Critical /\ runAt[s] \in Critical => r = s

(***************************************************************************)
(* "Another replica cannot act on a stale pre-lock read after this worker  *)
(* publishes its marker" (scheduler.ts:191): with lock and marker, no job  *)
(* runs while the marker of a completed run exists.                        *)
(***************************************************************************)
NoRunWhileMarked ==
    UseLock /\ UseMarker /\ lapses = 0 /\ marker => \A r \in Replica : runAt[r] # "job"

=============================================================================
