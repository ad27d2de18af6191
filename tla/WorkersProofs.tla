--------------------------- MODULE WorkersProofs ---------------------------
(***************************************************************************)
(* One handler at a time in the message consumer, one replica at a time in *)
(* a scheduled job, pools that outlive it, and notifications that are      *)
(* accepted once: for any number of deliveries, replicas, sockets, workers *)
(* and faults.                                                             *)
(***************************************************************************)
EXTENDS Consumer, Shutdown, Notifications, SetFacts, TLAPS

(***************************************************************************)
(* Consumer.  The delivery that executes is the one in the map.  Handlers  *)
(* that succeeded are paid for by faults and stale lookups, but for one    *)
(* whose record exists or is about to be saved; an execution whose handler *)
(* runs or whose record is being deleted is not yet such a one.            *)
(***************************************************************************)
InMap == \A d \in Delivery : delivery[d] \in Executing => inflight = d

HandledPaidFor ==
    /\ handled <= 1 + consumerFaults + staleReads
    /\ (~processed /\ \A d \in Delivery : delivery[d] # "save") =>
          handled <= consumerFaults + staleReads
    /\ (\E d \in Delivery : delivery[d] \in {"handler", "delete"}) =>
          handled <= consumerFaults + staleReads

ConsumerInv == ConsumerTypeOK /\ InMap /\ HandledPaidFor

\* The deliveries of a process begin and run with one entry in the map.
LEMMA ConsumerInvInit == ConsumerInit => ConsumerInv
<1> SUFFICES ASSUME ConsumerInit PROVE ConsumerInv
  BY Zenon
<1> USE DEF ConsumerInit
<1>1. ConsumerTypeOK
  BY Zenon DEF ConsumerTypeOK
<1>2. InMap
  BY Zenon DEF InMap, Executing
<1>3. HandledPaidFor
  BY SMTT(30) DEF HandledPaidFor
<1> QED
  BY <1>1, <1>2, <1>3, Zenon DEF ConsumerInv

LEMMA ConsumerInvStep == ConsumerInv /\ [ConsumerNext]_consumerVars => ConsumerInv'
<1> SUFFICES ASSUME ConsumerInv, [ConsumerNext]_consumerVars PROVE ConsumerInv'
  BY Zenon
<1> USE NoDeliveryApart
        DEF ConsumerInv, ConsumerTypeOK, InMap, HandledPaidFor, Executing, moveTo
<1>1. CASE UNCHANGED consumerVars
  BY <1>1, Zenon DEF consumerVars
<1>2. CASE consumerCrashes
  BY <1>2 DEF consumerCrashes
<1>3. CASE recordExpires
  <2>1. ConsumerTypeOK'
    <3>1. processed' \in BOOLEAN
      BY <1>3, Zenon DEF recordExpires
    <3>2. consumerFaults' \in Nat
      BY <1>3 DEF recordExpires
    <3> QED
      BY <1>3, <3>1, <3>2, Zenon DEF recordExpires
  <2>2. HandledPaidFor'
    BY <1>3 DEF recordExpires
  <2> QED
    BY <1>3, <2>1, <2>2, Zenon DEF recordExpires
<1>4. ASSUME NEW d \in Delivery, findRecord(d) PROVE ConsumerInv'
  BY <1>4, Zenon DEF findRecord
<1>5. ASSUME NEW d \in Delivery, resume(d) PROVE ConsumerInv'
  BY <1>5 DEF resume, joinOrStart
<1>6. ASSUME NEW d \in Delivery, handlerEnds(d) PROVE ConsumerInv'
  BY <1>6 DEF handlerEnds
<1>7. ASSUME NEW d \in Delivery, saveRecord(d) PROVE ConsumerInv'
  BY <1>7, Zenon DEF saveRecord, endExecution
<1>8. ASSUME NEW d \in Delivery, saveFails(d) PROVE ConsumerInv'
  <2>1. ConsumerTypeOK'
    <3>1. processed' \in BOOLEAN
      BY <1>8, Zenon DEF saveFails
    <3>2. consumerFaults' \in Nat
      BY <1>8 DEF saveFails
    <3> QED
      BY <1>8, <3>1, <3>2, Zenon DEF saveFails
  <2>2. HandledPaidFor'
    BY <1>8 DEF saveFails
  <2> QED
    BY <1>8, <2>1, <2>2, Zenon DEF saveFails
<1>9. ASSUME NEW d \in Delivery, deleteRecord(d) PROVE ConsumerInv'
  BY <1>9, Zenon DEF deleteRecord, endExecution
<1>10. ASSUME NEW d \in Delivery, redeliver(d) PROVE ConsumerInv'
  BY <1>10, Zenon DEF redeliver
<1> QED
  BY <1>1, <1>2, <1>3, <1>4, <1>5, <1>6, <1>7, <1>8, <1>9, <1>10, Zenon
  DEF ConsumerNext, deliveryStep

(***************************************************************************)
(* No two handlers of one message run at once in a process, however its    *)
(* deliveries interleave with lookups, failures, crashes and expiries.     *)
(***************************************************************************)
THEOREM HandlersExclude == ConsumerSpec => []OneHandlerAtATime
<1>1. ConsumerInv => OneHandlerAtATime
  BY Zenon DEF ConsumerInv, InMap, OneHandlerAtATime
<1> QED
  BY <1>1, ConsumerInvInit, ConsumerInvStep, PTL DEF ConsumerSpec

(***************************************************************************)
(* A message is handled once, and once more at most for each fault and for *)
(* each delivery that acts on a lookup made before the record was saved.   *)
(***************************************************************************)
THEOREM HandledPerFault == ConsumerSpec => []HandledOncePerFault
<1>1. ConsumerInv => HandledOncePerFault
  BY Zenon DEF ConsumerInv, HandledPaidFor, HandledOncePerFault
<1> QED
  BY <1>1, ConsumerInvInit, ConsumerInvStep, PTL DEF ConsumerSpec

(***************************************************************************)
(* Scheduler.  Until the lock has lapsed under a live owner, whoever is    *)
(* between taking and releasing it is its holder; and as the marker is     *)
(* read and written under the lock, it is absent while the job runs.       *)
(***************************************************************************)
HolderRuns ==
    UseLock /\ lapses = 0 =>
        \A r \in Replica : runAt[r] \in Critical \cup {"unlock"} => jobLock = r

SchedulerInv == SchedulerTypeOK /\ HolderRuns /\ NoRunWhileMarked

LEMMA SchedulerInvInit == SchedulerInit => SchedulerInv
<1> SUFFICES ASSUME SchedulerInit PROVE SchedulerInv
  OBVIOUS
<1> USE SchedulerOptions DEF SchedulerInit, Critical
<1>1. SchedulerTypeOK
  <2>1. lapses \in 0..schedulerFaults
    OBVIOUS
  <2>2. ticking \in [Replica -> BOOLEAN] /\ marker \in BOOLEAN
    BY Zenon
  <2> QED
    BY <2>1, <2>2, Zenon DEF SchedulerTypeOK
<1>2. HolderRuns /\ NoRunWhileMarked
  BY Zenon DEF HolderRuns, NoRunWhileMarked
<1> QED
  BY <1>1, <1>2, Zenon DEF SchedulerInv

LEMMA SchedulerInvStep == SchedulerInv /\ [SchedulerNext]_schedulerVars => SchedulerInv'
<1> SUFFICES ASSUME SchedulerInv, [SchedulerNext]_schedulerVars PROVE SchedulerInv'
  OBVIOUS
<1> USE SchedulerOptions
        DEF SchedulerInv, SchedulerTypeOK, HolderRuns, NoRunWhileMarked, Critical, runTo
<1>1. CASE UNCHANGED schedulerVars
  BY <1>1, Zenon DEF schedulerVars
<1>2. CASE lockLapses
  BY <1>2 DEF lockLapses
<1>3. CASE markerExpires
  BY <1>3, Zenon DEF markerExpires
<1>4. ASSUME NEW r \in Replica, startTimer(r) \/ stopTimer(r) PROVE SchedulerInv'
  <2>1. ticking' \in [Replica -> BOOLEAN]
    BY <1>4, Zenon DEF startTimer, stopTimer
  <2>2. UNCHANGED <<runAt, jobLock, marker, lapses, schedulerFaults>>
    BY <1>4, Zenon DEF startTimer, stopTimer
  <2> QED
    BY <2>1, <2>2, Zenon
<1>5. ASSUME NEW r \in Replica, runJob(r) PROVE SchedulerInv'
  BY <1>5, Zenon DEF runJob
<1>6. ASSUME NEW r \in Replica, withLock(r) PROVE SchedulerInv'
  BY <1>6 DEF withLock, acquire
<1>7. ASSUME NEW r \in Replica, readMarker(r) PROVE SchedulerInv'
  BY <1>7, Zenon DEF readMarker, completedInInterval
<1>8. ASSUME NEW r \in Replica, jobEnds(r) PROVE SchedulerInv'
  BY <1>8, Zenon DEF jobEnds
<1>9. ASSUME NEW r \in Replica, writeMarker(r) PROVE SchedulerInv'
  BY <1>9, Zenon DEF writeMarker
<1>10. ASSUME NEW r \in Replica, release(r) PROVE SchedulerInv'
  BY <1>10, Zenon DEF release, clearRunning
<1>11. ASSUME NEW r \in Replica, replicaCrashes(r) PROVE SchedulerInv'
  BY <1>11 DEF replicaCrashes, processEnds
<1> QED
  BY <1>1, <1>2, <1>3, <1>4, <1>5, <1>6, <1>7, <1>8, <1>9, <1>10, <1>11, Zenon
  DEF SchedulerNext, runStep

\* The job of a lock is in the critical section on one replica at most, until
\* the lock lapses under a live owner.
THEOREM JobsExclude == SchedulerSpec => []JobsExclusive
<1>1. SchedulerInv => JobsExclusive
  BY Zenon DEF SchedulerInv, HolderRuns, JobsExclusive
<1> QED
  BY <1>1, SchedulerInvInit, SchedulerInvStep, PTL DEF SchedulerSpec

\* With lock and marker no replica runs the job in an interval in which it has
\* been completed.
THEOREM MarkedRunsNot == SchedulerSpec => []NoRunWhileMarked
<1>1. SchedulerInv => NoRunWhileMarked
  BY Zenon DEF SchedulerInv
<1> QED
  BY <1>1, SchedulerInvInit, SchedulerInvStep, PTL DEF SchedulerSpec

(***************************************************************************)
(* Shutdown.  A drain that has seen no job leaves a stopped timer and an   *)
(* idle scheduler behind, which start again in a new process only.         *)
(***************************************************************************)
Quiet == alive /\ drained = "idle" => ~ticking[Local] /\ runAt[Local] = "idle"

ShutdownInv ==
    /\ SchedulerInv /\ ShutdownTypeOK /\ Quiet /\ HalfClosed
    /\ drained # "no" => phase > 4
    /\ sockets + closedSockets <= MaxSockets

LEMMA ShutdownInvInit == SchedulerInit /\ ShutdownInit => ShutdownInv
<1> SUFFICES ASSUME SchedulerInit, ShutdownInit PROVE ShutdownInv
  BY Zenon
<1>1. SchedulerInv
  BY SchedulerInvInit, Zenon
<1>2. /\ ShutdownTypeOK /\ Quiet /\ HalfClosed /\ drained = "no"
      /\ sockets + closedSockets <= MaxSockets
  BY LocalReplica DEF ShutdownInit, ShutdownTypeOK, Quiet, HalfClosed
<1> QED
  BY <1>1, <1>2, Zenon DEF ShutdownInv

\* The end of the local process preserves what is known of the scheduler.
LEMMA ProcessEndsKeeps ==
    ASSUME SchedulerInv, processEnds(Local), UNCHANGED <<marker, lapses, schedulerFaults>>
    PROVE  SchedulerInv'
  BY LocalReplica, SchedulerOptions, Zenon
  DEF processEnds, runTo, SchedulerInv, SchedulerTypeOK, HolderRuns, NoRunWhileMarked, Critical

\* What the schedulers do leaves a quiet local one quiet.
LEMMA JobsStayQuiet ==
    ASSUME ShutdownInv, jobsGoOn, alive, drained = "idle"
    PROVE  ~ticking'[Local] /\ runAt'[Local] = "idle"
<1> USE LocalReplica
        DEF ShutdownInv, Quiet, ShutdownTypeOK, SchedulerInv, SchedulerTypeOK, jobsGoOn, runTo
<1>1. ~ticking[Local] /\ runAt[Local] = "idle" /\ phase # 0
  OBVIOUS
<1>2. ~ticking'[Local]
  BY <1>1, Zenon
<1>3. runAt'[Local] = "idle"
  <2>1. CASE lockLapses \/ markerExpires
    BY <2>1, <1>1, Zenon DEF lockLapses, markerExpires
  <2>2. ASSUME NEW r \in Replica, startTimer(r) \/ stopTimer(r) PROVE runAt'[Local] = "idle"
    BY <2>2, <1>1, Zenon DEF startTimer, stopTimer
  <2>3. ASSUME NEW r \in Replica, runJob(r) PROVE runAt'[Local] = "idle"
    BY <2>3, <1>1, Zenon DEF runJob
  <2>4. ASSUME NEW r \in Replica, withLock(r) \/ readMarker(r) PROVE runAt'[Local] = "idle"
    BY <2>4, <1>1, Zenon DEF withLock, acquire, readMarker
  <2>5. ASSUME NEW r \in Replica, jobEnds(r) \/ writeMarker(r) \/ release(r) PROVE runAt'[Local] = "idle"
    BY <2>5, <1>1, Zenon DEF jobEnds, writeMarker, release, clearRunning
  <2>6. ASSUME NEW r \in Replica, replicaCrashes(r) PROVE runAt'[Local] = "idle"
    BY <2>6, <1>1, Zenon DEF replicaCrashes, processEnds
  <2> QED
    BY <2>1, <2>2, <2>3, <2>4, <2>5, <2>6, Zenon DEF SchedulerNext, runStep
<1> QED
  BY <1>2, <1>3, Zenon

LEMMA ShutdownInvStep ==
    ShutdownInv /\ [ShutdownNext]_<<schedulerVars, shutdownVars>> => ShutdownInv'
<1> SUFFICES ASSUME ShutdownInv, [ShutdownNext]_<<schedulerVars, shutdownVars>> PROVE ShutdownInv'
  BY Zenon
<1>1. CASE UNCHANGED <<schedulerVars, shutdownVars>>
  <2>1. SchedulerInv'
    BY <1>1, SchedulerInvStep, Zenon DEF ShutdownInv
  <2> QED
    BY <1>1, <2>1, Zenon
    DEF ShutdownInv, ShutdownTypeOK, Quiet, HalfClosed, alive, shutdownVars, schedulerVars
<1>2. ASSUME NEW exit \in 0..1, forceExit(exit) PROVE ShutdownInv'
  <2>1. SchedulerInv'
    BY <1>2, ProcessEndsKeeps, Zenon DEF forceExit, ShutdownInv
  <2> QED
    BY <1>2, <2>1 DEF forceExit, ShutdownInv, ShutdownTypeOK, Quiet, HalfClosed, alive
<1>3. ASSUME UNCHANGED schedulerVars, drained' = drained, exitCode' = exitCode,
             phase' \in {phase, phase + 1}, phase \in 0..8, HalfClosed',
             sockets' \in 0..MaxSockets, closedSockets' \in 0..MaxSockets,
             sockets' + closedSockets' <= MaxSockets, pools' \in {"open", "ended"}
      PROVE  ShutdownInv'
  <2>1. SchedulerInv'
    BY <1>3, SchedulerInvStep, Zenon DEF ShutdownInv
  <2> QED
    BY <1>3, <2>1 DEF ShutdownInv, ShutdownTypeOK, Quiet, alive, schedulerVars
<1>4. CASE shutdown
  <2>1. CASE phase = 0 /\ phase' = 1 /\ UNCHANGED <<schedulerVars, sockets, closedSockets, drained, pools, exitCode>>
    <3>1. HalfClosed'
      BY <2>1 DEF HalfClosed
    <3> QED
      BY <2>1, <3>1, <1>3 DEF ShutdownInv, ShutdownTypeOK
  <2> QED
    BY <1>4, <2>1, <1>2 DEF shutdown
<1>5. CASE nextPhase /\ \E name \in {"server_close", "listener_stop", "outbox_stop",
                                    "invalidation_bus_stop", "redis_close"} : in(name)
  <2>1. phase \in 1..8 /\ phase # 2
    BY <1>5 DEF in, Phases
  <2>2. HalfClosed'
    BY <1>5, <2>1 DEF nextPhase, HalfClosed, ShutdownInv, ShutdownTypeOK
  <2> QED
    BY <1>5, <2>1, <2>2, <1>3 DEF nextPhase, ShutdownInv, ShutdownTypeOK
<1>6. CASE graceExpires \/ shutdownCompletes \/ phaseFails
  BY <1>6, <1>2 DEF graceExpires, shutdownCompletes, phaseFails
<1>7. CASE closeServer \/ stopParts \/ closeRedis
  BY <1>7, <1>5, <1>6, Zenon DEF closeServer, stopParts, closeRedis
<1>8. CASE socketCloses \/ socketsDone
  <2>1. phase = 2
    BY <1>8 DEF socketCloses, socketsDone, in, Phases
  <2>2. /\ HalfClosed' /\ phase' \in {2, 3}
        /\ sockets' \in 0..MaxSockets /\ closedSockets' \in 0..MaxSockets
        /\ sockets' + closedSockets' <= MaxSockets /\ pools' = pools
        /\ UNCHANGED <<schedulerVars, drained, exitCode>>
    BY <1>8, <2>1, LocalReplica
    DEF socketCloses, socketsDone, allClosed, HalfClosed, ShutdownInv, ShutdownTypeOK
  <2> QED
    BY <2>1, <2>2, <1>3 DEF ShutdownInv, ShutdownTypeOK
<1>9. CASE stopScheduling
  <2>1. SchedulerInv'
    BY <1>9, SchedulerInvStep, LocalReplica, Zenon DEF stopScheduling, ShutdownInv, SchedulerNext
  <2>2. ticking \in [Replica -> BOOLEAN]
    BY Zenon DEF ShutdownInv, SchedulerInv, SchedulerTypeOK
  <2> QED
    BY <1>9, <2>1, <2>2, LocalReplica, Zenon
    DEF stopScheduling, stopTimer, shutdownVars, ShutdownInv, ShutdownTypeOK, Quiet, HalfClosed, alive
<1>10. CASE drainScheduler
  <2>1. SchedulerInv'
    BY <1>10, SchedulerInvStep, Zenon DEF drainScheduler, ShutdownInv
  <2>2. phase = 4
    BY <1>10 DEF drainScheduler, in, Phases
  <2> QED
    BY <1>10, <2>1, <2>2
    DEF drainScheduler, pollJob, schedulerVars, ShutdownInv, ShutdownTypeOK, Quiet, HalfClosed, alive
<1>11. CASE closePools
  <2>1. phase = 7
    BY <1>11 DEF closePools, in, Phases
  <2>2. HalfClosed'
    BY <1>11, <2>1 DEF closePools, ShutdownInv, HalfClosed, ShutdownTypeOK
  <2> QED
    BY <1>11, <2>1, <2>2, <1>3 DEF closePools, ShutdownInv, ShutdownTypeOK
<1>12. CASE jobsGoOn
  <2>1. SchedulerInv'
    BY <1>12, SchedulerInvStep, Zenon DEF jobsGoOn, ShutdownInv
  <2>2. Quiet'
    BY <1>12, JobsStayQuiet, Zenon DEF jobsGoOn, shutdownVars, Quiet, alive
  <2> QED
    BY <1>12, <2>1, <2>2, Zenon
    DEF jobsGoOn, shutdownVars, ShutdownInv, ShutdownTypeOK, HalfClosed
<1> QED
  BY <1>1, <1>4, <1>6, <1>7, <1>8, <1>9, <1>10, <1>11, <1>12, Zenon DEF ShutdownNext

(***************************************************************************)
(* The pools are not ended under a job of this process, unless the drain   *)
(* window had passed: for any number of replicas, of sockets and of faults.*)
(***************************************************************************)
THEOREM JobsKeepPools == ShutdownSpec => []PoolsOutliveJobs
<1>1. ShutdownInv => PoolsOutliveJobs
  BY Zenon DEF ShutdownInv, Quiet, PoolsOutliveJobs
<1> QED
  BY <1>1, ShutdownInvInit, ShutdownInvStep, PTL DEF ShutdownSpec

\* At least half of the WebSocket clients have closed when the drain ends.
THEOREM HalfOfSockets == ShutdownSpec => []HalfClosed
<1>1. ShutdownInv => HalfClosed
  BY Zenon DEF ShutdownInv
<1> QED
  BY <1>1, ShutdownInvInit, ShutdownInvStep, PTL DEF ShutdownSpec

(***************************************************************************)
(* Notifications.  An acceptance is paid for by the claim of its worker,   *)
(* and that by the row being claimable, which takes a fault once the first *)
(* claim is made.  Until some claim runs out one worker has the job, and   *)
(* the last send attempt records what was accepted.                        *)
(***************************************************************************)
Place == {"idle", "find", "claim", "findAgain", "last", "check", "create", "send", "sent", "failed", "fail", "complete"}
Errors == {"none", "ambiguous", "retryable", "permanent"}

WorkerType == [JobWorker -> [at: Place, id: Nat, group: Nat, tries: Nat, error: Errors]]

\* The job's row, its workers and its send attempts.
NotificationTypeOK ==
    /\ attempt \in [id: Nat, status: {"none", "pending", "completed", "failed"}, age: {"fresh", "stale", "expired"}]
    /\ worker \in WorkerType
    /\ sends \in Seq({"pending", "sent", "failed"})
    /\ claims \in Nat /\ accepted \in Nat /\ unrecorded \in Nat /\ jobFaults \in Nat

\* Deliveries that may still have their message accepted.
LivePlace == {"last", "check", "create", "send", "failed", "fail"}
Live == {w \in JobWorker : worker[w].at \in LivePlace}

\* One for a row that a worker may claim.
Claimable == IF claimable(attempt) THEN 1 ELSE 0

\* Acceptances so far, and those still possible, are paid for by faults.
Budget == accepted + Cardinality(Live) + Claimable <= 1 + jobFaults

\* Worker w has claimed the job.
InJob(w) == worker[w].at \in LivePlace \cup {"sent", "complete"}

\* What holds of a worker with the claim until some claim runs out.
JobOf(w) ==
    InJob(w) =>
        /\ worker[w].id = attempt.id /\ ~claimable(attempt)
        /\ worker[w].at \in {"check", "create"} => worker[w].group = Len(sends) + 1
        /\ worker[w].at \in {"send", "sent", "failed"} => worker[w].group = Len(sends) /\ Len(sends) # 0
        /\ worker[w].at \in {"check", "create", "send", "failed"} => accepted <= unrecorded

\* One worker has the job.
OneJob == \A w, k \in JobWorker : InJob(w) /\ InJob(k) => w = k

\* An acceptance that was not lost is recorded, or about to be.
Recorded ==
    /\ accepted <= 1 + unrecorded
    /\ accepted <= unrecorded \/ isSent(Len(sends)) \/ \E w \in JobWorker : worker[w].at = "sent"

\* The inductive invariant of a notification job.
NotificationInv ==
    /\ NotificationTypeOK /\ Budget
    /\ overrun \/ (OneJob /\ Recorded /\ \A w \in JobWorker : JobOf(w))

\* A step of w alone.
OthersWait(w) == \A k \in JobWorker \ {w} : worker'[k] = worker[k]

\* How many deliveries are live after a step of w.
LEMMA LiveCount ==
    ASSUME FiniteSetFacts, NEW w \in JobWorker, OthersWait(w)
    PROVE  /\ Cardinality(Live) \in Nat /\ Cardinality(Live)' \in Nat
           /\ (worker[w].at \in LivePlace <=> worker'[w].at \in LivePlace) => Cardinality(Live)' = Cardinality(Live)
           /\ worker[w].at \notin LivePlace /\ worker'[w].at \in LivePlace =>
                  Cardinality(Live)' = Cardinality(Live) + 1
           /\ worker[w].at \in LivePlace /\ worker'[w].at \notin LivePlace =>
                  Cardinality(Live)' = Cardinality(Live) - 1
<1>0. \A k \in JobWorker : k # w => worker'[k].at = worker[k].at
    BY Zenon DEF OthersWait
<1>1. IsFiniteSet(Live) /\ IsFiniteSet(Live')
    <2>1. Live \subseteq JobWorker /\ Live' \subseteq JobWorker
        BY Zenon DEF Live
    <2> QED BY <2>1, WorkersFinite, Zenon DEF FiniteSetFacts, SubsetFact
<1>2. Cardinality(Live) \in Nat /\ Cardinality(Live') \in Nat
    BY <1>1, Zenon DEF FiniteSetFacts, CountFact
<1>3. ASSUME worker[w].at \in LivePlace <=> worker'[w].at \in LivePlace PROVE Live' = Live
    BY <1>0, <1>3, Zenon DEF Live
<1>4. ASSUME worker[w].at \notin LivePlace, worker'[w].at \in LivePlace
      PROVE  Cardinality(Live') = Cardinality(Live) + 1
    <2>1. Live' = Live \cup {w} /\ w \notin Live
        BY <1>0, <1>4, Zenon DEF Live
    <2> QED BY <1>1, <2>1, Zenon DEF FiniteSetFacts, AddFact
<1>5. ASSUME worker[w].at \in LivePlace, worker'[w].at \notin LivePlace
      PROVE  Cardinality(Live') = Cardinality(Live) - 1
    <2>1. Live' = Live \ {w} /\ w \in Live
        BY <1>0, <1>5, Zenon DEF Live
    <2> QED BY <1>1, <2>1, Zenon DEF FiniteSetFacts, RemoveFact
<1> QED BY <1>2, <1>3, <1>4, <1>5, Zenon

\* A step of worker w, which is at p then, and keeps its claim and its group.
Goes(w, p) ==
    /\ worker' \in WorkerType /\ OthersWait(w)
    /\ worker'[w].at = p /\ worker'[w].id = worker[w].id /\ worker'[w].group = worker[w].group

\* What the assignments to a worker's record do to it.
LEMMA AtUpdate ==
    ASSUME worker \in WorkerType, NEW w \in JobWorker, NEW p \in Place, worker' = [worker EXCEPT ![w].at = p]
    PROVE  Goes(w, p)
BY Zenon DEF WorkerType, Goes, OthersWait

LEMMA ErrorUpdate ==
    ASSUME worker \in WorkerType, NEW w \in JobWorker, NEW p \in Place, NEW e \in Errors,
           worker' = [worker EXCEPT ![w].at = p, ![w].error = e]
    PROVE  Goes(w, p)
BY Zenon DEF WorkerType, Goes, OthersWait

LEMMA GroupUpdate ==
    ASSUME worker \in WorkerType, NEW w \in JobWorker, NEW p \in Place, NEW g \in Nat,
           worker' = [worker EXCEPT ![w].at = p, ![w].group = g]
    PROVE  /\ worker' \in WorkerType /\ OthersWait(w)
           /\ worker'[w].at = p /\ worker'[w].id = worker[w].id /\ worker'[w].group = g
BY Zenon DEF WorkerType, OthersWait

LEMMA IdUpdate ==
    ASSUME worker \in WorkerType, NEW w \in JobWorker, NEW p \in Place, NEW i \in Nat,
           worker' = [worker EXCEPT ![w].at = p, ![w].id = i]
    PROVE  /\ worker' \in WorkerType /\ OthersWait(w)
           /\ worker'[w].at = p /\ worker'[w].id = i
BY Zenon DEF WorkerType, OthersWait

LEMMA IdleUpdate ==
    ASSUME worker \in WorkerType, NEW w \in JobWorker, worker' = [worker EXCEPT ![w] = IdleWorker]
    PROVE  worker' \in WorkerType /\ OthersWait(w) /\ worker'[w].at = "idle"
BY Zenon DEF WorkerType, OthersWait, IdleWorker, Place, Errors

LEMMA AgainUpdate ==
    ASSUME worker \in WorkerType, NEW w \in JobWorker, NEW p \in Place, NEW g \in Nat,
           worker' = [worker EXCEPT ![w] = [at |-> p, id |-> @.id, group |-> g, tries |-> @.tries + 1, error |-> @.error]]
    PROVE  /\ worker' \in WorkerType /\ OthersWait(w)
           /\ worker'[w].at = p /\ worker'[w].id = worker[w].id /\ worker'[w].group = g
BY DEF WorkerType, OthersWait

\* Recorded, when w is the only one in the job.
OwnRecord(w) ==
    /\ accepted <= 1 + unrecorded
    /\ accepted <= unrecorded \/ isSent(Len(sends)) \/ worker[w].at = "sent"

\* A step of a worker that has claimed the job.
LEMMA InJobStep ==
    ASSUME NotificationInv, NEW w \in JobWorker, InJob(w), OthersWait(w), NotificationTypeOK', Budget',
           overrun' = overrun, ~overrun /\ JobOf(w) /\ OwnRecord(w) => JobOf(w)' /\ OwnRecord(w)'
    PROVE  NotificationInv'
<1>1. CASE overrun
    BY <1>1, Zenon DEF NotificationInv
<1>2. CASE ~overrun
    <2>1. OneJob /\ Recorded /\ JobOf(w)
        BY <1>2, Zenon DEF NotificationInv
    <2>2. \A k \in JobWorker : k # w => ~InJob(k) /\ worker'[k] = worker[k]
        BY <2>1, Zenon DEF OneJob, OthersWait
    <2>3. \A k \in JobWorker : k # w => worker[k].at # "sent"
        BY <2>2, Zenon DEF InJob
    <2>4. OwnRecord(w)
        BY <2>1, <2>3, Zenon DEF Recorded, OwnRecord
    <2>5. JobOf(w)' /\ OwnRecord(w)'
        BY <1>2, <2>1, <2>4, Zenon
    <2>6. Recorded'
        BY <2>5, Zenon DEF Recorded, OwnRecord
    <2>7. \A k \in JobWorker : k # w => ~InJob(k)'
        BY <2>2, Zenon DEF InJob
    <2>8. OneJob' /\ \A k \in JobWorker : JobOf(k)'
        BY <2>5, <2>7, Zenon DEF OneJob, JobOf
    <2> QED BY <2>6, <2>8, Zenon DEF NotificationInv
<1> QED BY <1>1, <1>2, Zenon

\* A step of a worker that has not, and does not.
LEMMA OutOfJobStep ==
    ASSUME FiniteSetFacts, NotificationInv, NEW w \in JobWorker, ~InJob(w), ~InJob(w)', worker' \in WorkerType, OthersWait(w),
           UNCHANGED <<attempt, sends, claims, accepted, unrecorded, overrun>>,
           jobFaults' = jobFaults \/ jobFaults' = jobFaults + 1
    PROVE  NotificationInv'
<1>1. NotificationTypeOK'
    BY DEF NotificationInv, NotificationTypeOK
<1>2. Budget'
    <2>1. Cardinality(Live) \in Nat /\ Cardinality(Live)' = Cardinality(Live)
        BY LiveCount, Zenon DEF InJob
    <2>2. Claimable' = Claimable /\ Claimable \in Nat
        BY Zenon DEF Claimable, claimable
    <2> QED BY <2>1, <2>2 DEF NotificationInv, NotificationTypeOK, Budget
<1>3. overrun' \/ (OneJob' /\ Recorded' /\ \A k \in JobWorker : JobOf(k)')
    <2> SUFFICES ASSUME ~overrun' PROVE OneJob' /\ Recorded' /\ \A k \in JobWorker : JobOf(k)'
        BY Zenon
    <2>1. OneJob /\ Recorded /\ \A k \in JobWorker : JobOf(k)
        BY Zenon DEF NotificationInv
    <2>2. \A k \in JobWorker : InJob(k)' => InJob(k) /\ worker'[k] = worker[k]
        BY Zenon DEF InJob, OthersWait
    <2>3. OneJob'
        BY <2>1, <2>2, Zenon DEF OneJob
    <2>4. \A k \in JobWorker : JobOf(k)'
        BY <2>1, <2>2 DEF JobOf, claimable
    <2>5. \A k \in JobWorker : worker[k].at = "sent" => worker'[k].at = "sent"
        BY Zenon DEF InJob, OthersWait
    <2>6. Recorded'
        BY <2>1, <2>5, Zenon DEF Recorded, isSent
    <2> QED BY <2>3, <2>4, <2>6, Zenon
<1> QED BY <1>1, <1>2, <1>3, Zenon DEF NotificationInv

\* A claim: nobody else had one, unless some claim has run out.
LEMMA ClaimInv == ASSUME FiniteSetFacts, NotificationInv, NEW w \in JobWorker, claimAttempt(w) PROVE NotificationInv'
<1>0. worker \in WorkerType /\ worker[w].at \in {"idle", "claim"} /\ ~InJob(w)
    BY Zenon DEF claimAttempt, NotificationInv, NotificationTypeOK, InJob, LivePlace
<1>1. CASE claimable(attempt)
    <2>1. /\ attempt' = [id |-> claims + 1, status |-> "pending", age |-> "fresh"] /\ claims' = claims + 1
          /\ worker' = [worker EXCEPT ![w].at = "last", ![w].id = claims + 1]
          /\ UNCHANGED <<sends, accepted, unrecorded, overrun, jobFaults>>
        BY <1>1, Zenon DEF claimAttempt, newId
    <2>2. claims + 1 \in Nat
        BY DEF NotificationInv, NotificationTypeOK
    <2>3. worker' \in WorkerType /\ OthersWait(w) /\ worker'[w].at = "last" /\ worker'[w].id = claims + 1
        BY <1>0, <2>1, <2>2, IdUpdate, Zenon DEF Place
    <2>4. NotificationTypeOK'
        BY <2>1, <2>2, <2>3, Zenon DEF NotificationInv, NotificationTypeOK
    <2>5. Budget'
        <3>1. Cardinality(Live) \in Nat /\ Cardinality(Live)' = Cardinality(Live) + 1
            BY <1>0, <2>3, LiveCount, Zenon DEF LivePlace
        <3>2. Claimable = 1 /\ Claimable' = 0
            BY <1>1, <2>1, Zenon DEF Claimable, claimable
        <3> QED BY <2>1, <3>1, <3>2, SMTT(30) DEF NotificationInv, NotificationTypeOK, Budget
    <2>6. ASSUME ~overrun' PROVE OneJob' /\ Recorded' /\ \A k \in JobWorker : JobOf(k)'
        <3>1. Recorded /\ \A k \in JobWorker : ~InJob(k)
            BY <1>1, <2>1, <2>6, Zenon DEF NotificationInv, JobOf
        <3>2. \A k \in JobWorker : k # w => ~InJob(k)'
            BY <2>3, <3>1, Zenon DEF OthersWait, InJob
        <3>3. Recorded'
            BY <2>1, <3>1, Zenon DEF Recorded, isSent, InJob
        <3>4. JobOf(w)'
            BY <2>1, <2>3, Zenon DEF JobOf, claimable
        <3> QED BY <3>2, <3>3, <3>4, Zenon DEF OneJob, JobOf
    <2> QED BY <2>4, <2>5, <2>6, Zenon DEF NotificationInv
<1>2. CASE ~claimable(attempt)
    <2>1. PICK p \in {"find", "findAgain"} : worker' = [worker EXCEPT ![w].at = p]
        BY <1>2, Zenon DEF claimAttempt
    <2>2. Goes(w, p)
        BY <1>0, <2>1, AtUpdate, Zenon DEF Place
    <2>3. ~InJob(w)'
        BY <2>2, Zenon DEF Goes, InJob, LivePlace
    <2>4. UNCHANGED <<attempt, sends, claims, accepted, unrecorded, overrun, jobFaults>>
        BY <1>2, Zenon DEF claimAttempt
    <2> QED BY <1>0, <2>2, <2>3, <2>4, OutOfJobStep, Zenon DEF Goes
<1> QED BY <1>1, <1>2, Zenon

LEMMA FindAttemptInv == ASSUME FiniteSetFacts, NotificationInv, NEW w \in JobWorker, findAttempt(w) PROVE NotificationInv'
<1>1. /\ worker \in WorkerType /\ worker[w].at \in {"find", "findAgain"} /\ ~InJob(w)
      /\ UNCHANGED <<attempt, sends, claims, accepted, unrecorded, overrun, jobFaults>>
    BY Zenon DEF findAttempt, NotificationInv, NotificationTypeOK, InJob, LivePlace
<1>2. \/ worker' = [worker EXCEPT ![w] = IdleWorker]
      \/ worker' = [worker EXCEPT ![w].at = "claim"]
    BY Zenon DEF findAttempt
<1>3. worker' \in WorkerType /\ OthersWait(w) /\ worker'[w].at \in {"idle", "claim"}
    BY <1>1, <1>2, IdleUpdate, AtUpdate, Zenon DEF Goes, Place
<1> QED BY <1>1, <1>3, OutOfJobStep, Zenon DEF InJob, LivePlace

SendStatus == {"pending", "sent", "failed"}

LEMMA SendsUpdate ==
    ASSUME sends \in Seq(SendStatus), NEW g \in Nat, NEW status \in SendStatus, sends' = [sends EXCEPT ![g] = status]
    PROVE  /\ sends' \in Seq(SendStatus) /\ Len(sends)' = Len(sends) /\ Len(sends) \in Nat
           /\ g = Len(sends) /\ Len(sends) # 0 => (isSent(Len(sends))' <=> status = "sent")
<1>1. sends' \in Seq(SendStatus) /\ Len(sends') = Len(sends) /\ Len(sends) \in Nat
    <2>1. sends \in [1..Len(sends) -> SendStatus] /\ Len(sends) \in Nat
        OBVIOUS
    <2>2. sends' \in [1..Len(sends) -> SendStatus]
        BY <2>1, Zenon
    <2> QED BY <2>1, <2>2
<1>2. ASSUME g = Len(sends), Len(sends) # 0 PROVE sends'[g] = status /\ g \in 1..Len(sends)
    BY <1>1, <1>2
<1> QED BY <1>1, <1>2, Zenon DEF isSent

\* The row stays as it is.
LEMMA ClaimableStays == ASSUME attempt' = attempt PROVE Claimable' = Claimable /\ Claimable \in Nat /\ (claimable(attempt)' <=> claimable(attempt))
BY Zenon DEF Claimable, claimable

LEMMA GetLastInv == ASSUME FiniteSetFacts, NotificationInv, NEW w \in JobWorker, getLastSendAttempt(w) PROVE NotificationInv'
<1>1. /\ worker[w].at = "last" /\ UNCHANGED <<attempt, sends, claims, accepted, unrecorded, overrun, jobFaults>>
      /\ worker \in WorkerType /\ Len(sends) \in Nat /\ InJob(w)
    BY DEF getLastSendAttempt, NotificationInv, NotificationTypeOK, InJob, LivePlace
<1> DEFINE p == IF isSent(Len(sends)) THEN "complete" ELSE "check"
<1>2. p \in Place /\ Len(sends) + 1 \in Nat /\ worker' = [worker EXCEPT ![w].at = p, ![w].group = Len(sends) + 1]
    BY <1>1 DEF getLastSendAttempt, Place
<1>2a. (p = "complete" /\ isSent(Len(sends))) \/ (p = "check" /\ ~isSent(Len(sends)))
    BY Zenon
<1> HIDE DEF p
<1>3. /\ worker' \in WorkerType /\ OthersWait(w)
      /\ worker'[w].at = p /\ worker'[w].id = worker[w].id /\ worker'[w].group = Len(sends) + 1
    BY <1>1, <1>2, GroupUpdate, ZenonT(40)
<1>4. NotificationTypeOK'
    BY <1>1, <1>3, Zenon DEF NotificationInv, NotificationTypeOK
<1>5. Budget'
    <2>1. Cardinality(Live) \in Nat /\ Cardinality(Live)' \in Nat /\ Cardinality(Live)' <= Cardinality(Live)
        BY <1>1, <1>2a, <1>3, LiveCount, SMTT(30) DEF LivePlace
    <2> QED BY <1>1, <2>1, ClaimableStays, SMTT(30) DEF NotificationInv, NotificationTypeOK, Budget
<1>6. ~overrun /\ JobOf(w) /\ OwnRecord(w) => JobOf(w)' /\ OwnRecord(w)'
    BY <1>1, <1>2a, <1>3, ClaimableStays, Zenon DEF JobOf, OwnRecord, isSent
<1> QED BY <1>1, <1>3, <1>4, <1>5, <1>6, InJobStep, Zenon

LEMMA GetSendInv == ASSUME FiniteSetFacts, NotificationInv, NEW w \in JobWorker, getSendByIdempotencyKey(w) PROVE NotificationInv'
<1>1. /\ worker[w].at = "check" /\ UNCHANGED <<attempt, sends, claims, accepted, unrecorded, overrun, jobFaults>>
      /\ worker \in WorkerType /\ Len(sends) \in Nat /\ InJob(w)
    BY DEF getSendByIdempotencyKey, NotificationInv, NotificationTypeOK, InJob, LivePlace
<1> DEFINE p == IF isSent(worker[w].group) THEN "complete" ELSE "create"
<1>2. p \in Place /\ worker' = [worker EXCEPT ![w].at = p]
    BY Zenon DEF getSendByIdempotencyKey, Place
<1>3. Goes(w, p)
    BY <1>1, <1>2, AtUpdate, Zenon
<1>4. NotificationTypeOK'
    BY <1>1, <1>3, Zenon DEF NotificationInv, NotificationTypeOK, Goes
<1>5. Budget'
    <2>1. Cardinality(Live) \in Nat /\ Cardinality(Live)' \in Nat /\ Cardinality(Live)' <= Cardinality(Live)
        BY <1>1, <1>3, LiveCount, SMTT(30) DEF Goes, LivePlace
    <2> QED BY <1>1, <2>1, ClaimableStays, SMTT(30) DEF NotificationInv, NotificationTypeOK, Budget
<1>6. ~overrun /\ JobOf(w) /\ OwnRecord(w) => JobOf(w)' /\ OwnRecord(w)'
    BY <1>1, <1>3, ClaimableStays, Zenon DEF Goes, InJob, JobOf, OwnRecord, isSent
<1> QED BY <1>1, <1>3, <1>4, <1>5, <1>6, InJobStep, Zenon DEF Goes

LEMMA CreateInv == ASSUME FiniteSetFacts, NotificationInv, NEW w \in JobWorker, createSendAttempt(w) PROVE NotificationInv'
<1>1. /\ worker[w].at = "create" /\ UNCHANGED <<attempt, claims, accepted, unrecorded, overrun, jobFaults>>
      /\ worker \in WorkerType /\ Len(sends) \in Nat /\ InJob(w) /\ sends \in Seq(SendStatus)
      /\ worker[w].group \in Nat
    BY SMTT(30) DEF createSendAttempt, NotificationInv, NotificationTypeOK, InJob, LivePlace, SendStatus, WorkerType
<1>2. PICK p \in {"send", "fail"} : worker' = [worker EXCEPT ![w].at = p]
    BY Zenon DEF createSendAttempt
<1>3. Goes(w, p)
    BY <1>1, <1>2, AtUpdate, Zenon DEF Place
<1>4. \/ worker[w].group > Len(sends) /\ sends' = Append(sends, "pending")
      \/ ~(worker[w].group > Len(sends)) /\ sends' = sends
    BY Zenon DEF createSendAttempt
<1>5. sends' \in Seq(SendStatus) /\ (worker[w].group > Len(sends) => Len(sends)' = Len(sends) + 1)
    BY <1>1, <1>4, SMTT(30) DEF SendStatus
<1>6. NotificationTypeOK'
    BY <1>1, <1>3, <1>5, Zenon DEF NotificationInv, NotificationTypeOK, Goes, SendStatus
<1>7. Budget'
    <2>1. Cardinality(Live) \in Nat /\ Cardinality(Live)' = Cardinality(Live)
        BY <1>1, <1>3, LiveCount, ZenonT(40) DEF Goes, LivePlace
    <2> QED BY <1>1, <2>1, ClaimableStays, Zenon DEF NotificationInv, NotificationTypeOK, Budget
<1>8. ~overrun /\ JobOf(w) /\ OwnRecord(w) => JobOf(w)' /\ OwnRecord(w)'
    <2> SUFFICES ASSUME JobOf(w), OwnRecord(w) PROVE JobOf(w)' /\ OwnRecord(w)'
        BY Zenon
    <2>1. worker[w].group = Len(sends) + 1 /\ accepted <= unrecorded /\ worker[w].id = attempt.id /\ ~claimable(attempt)
        BY <1>1, ZenonT(40) DEF JobOf
    <2>2. worker'[w].group = Len(sends)' /\ Len(sends)' # 0
        BY <1>1, <1>3, <1>5, <2>1, SMTT(30) DEF Goes
    <2> QED BY <1>1, <1>3, <2>1, <2>2, ClaimableStays, Zenon DEF Goes, JobOf, OwnRecord
<1> QED BY <1>1, <1>3, <1>6, <1>7, <1>8, InJobStep, Zenon DEF Goes

LEMMA ProviderSendInv == ASSUME FiniteSetFacts, NotificationInv, NEW w \in JobWorker, providerSend(w) PROVE NotificationInv'
<1>1. /\ worker[w].at = "send" /\ UNCHANGED <<attempt, sends, claims, overrun>>
      /\ worker \in WorkerType /\ InJob(w)
      /\ accepted \in Nat /\ unrecorded \in Nat /\ jobFaults \in Nat
    BY Zenon DEF providerSend, NotificationInv, NotificationTypeOK, InJob, LivePlace
<1>2. PICK p \in {"sent", "failed"} :
         /\ Goes(w, p)
         /\ \/ p = "sent" /\ accepted' = accepted + 1 /\ UNCHANGED <<unrecorded, jobFaults>>
            \/ p = "failed" /\ UNCHANGED <<accepted, unrecorded, jobFaults>>
            \/ /\ p = "failed" /\ accepted' = accepted + 1 /\ unrecorded' = unrecorded + 1
               /\ jobFaults' = jobFaults + 1
    <2>1. CASE /\ worker' = [worker EXCEPT ![w].at = "sent"]
               /\ accepted' = accepted + 1 /\ UNCHANGED <<unrecorded, jobFaults>>
        <3>1. Goes(w, "sent")
            BY <1>1, <2>1, AtUpdate, Zenon DEF Place
        <3> QED BY <2>1, <3>1, Zenon
    <2>2. ASSUME NEW error \in {"ambiguous", "retryable", "permanent"},
                 worker' = [worker EXCEPT ![w].at = "failed", ![w].error = error]
          PROVE  Goes(w, "failed")
        <3>1. error \in Errors /\ "failed" \in Place
            BY Zenon DEF Errors, Place
        <3> QED BY <1>1, <2>2, <3>1, ErrorUpdate, Zenon
    <2>3. "ambiguous" \in {"ambiguous", "retryable", "permanent"}
        BY Zenon
    <2> QED BY <2>1, <2>2, <2>3, Zenon DEF providerSend
<1>3. NotificationTypeOK'
    BY <1>1, <1>2, SMTT(30) DEF NotificationInv, NotificationTypeOK, Goes
<1>4. Budget'
    <2>1. /\ Cardinality(Live) \in Nat
          /\ Cardinality(Live)' = IF p = "sent" THEN Cardinality(Live) - 1 ELSE Cardinality(Live)
        BY <1>1, <1>2, LiveCount, Zenon DEF Goes, LivePlace
    <2> QED BY <1>1, <1>2, <2>1, ClaimableStays, SMTT(30) DEF NotificationInv, Budget
<1>5. ~overrun /\ JobOf(w) /\ OwnRecord(w) => JobOf(w)' /\ OwnRecord(w)'
    <2> SUFFICES ASSUME JobOf(w) PROVE JobOf(w)' /\ OwnRecord(w)'
        BY Zenon
    <2>1. /\ worker[w].group = Len(sends) /\ Len(sends) # 0 /\ accepted <= unrecorded
          /\ worker[w].id = attempt.id /\ ~claimable(attempt)
        BY <1>1, Zenon DEF JobOf
    <2>2. accepted' <= 1 + unrecorded' /\ (p = "failed" => accepted' <= unrecorded')
        BY <1>1, <1>2, <2>1
    <2> QED BY <1>1, <1>2, <2>1, <2>2, ClaimableStays, Zenon DEF Goes, JobOf, OwnRecord
<1> QED BY <1>1, <1>2, <1>3, <1>4, <1>5, InJobStep, Zenon DEF Goes

LEMMA UpdateSentInv == ASSUME FiniteSetFacts, NotificationInv, NEW w \in JobWorker, updateSent(w) PROVE NotificationInv'
<1>1. /\ worker[w].at = "sent" /\ UNCHANGED <<attempt, claims, accepted, unrecorded, overrun, jobFaults>>
      /\ worker \in WorkerType /\ InJob(w) /\ sends \in Seq(SendStatus) /\ worker[w].group \in Nat
      /\ sends' = [sends EXCEPT ![worker[w].group] = "sent"] /\ worker' = [worker EXCEPT ![w].at = "complete"]
    BY Zenon DEF updateSent, NotificationInv, NotificationTypeOK, InJob, SendStatus, WorkerType
<1>2. Goes(w, "complete")
    BY <1>1, AtUpdate, Zenon DEF Place
<1>3. /\ sends' \in Seq(SendStatus)
      /\ worker[w].group = Len(sends) /\ Len(sends) # 0 => isSent(Len(sends))'
    BY <1>1, SendsUpdate, Zenon DEF SendStatus
<1>4. NotificationTypeOK'
    BY <1>1, <1>2, <1>3, Zenon DEF NotificationInv, NotificationTypeOK, Goes, SendStatus
<1>5. Budget'
    <2>1. Cardinality(Live) \in Nat /\ Cardinality(Live)' = Cardinality(Live)
        BY <1>1, <1>2, LiveCount, Zenon DEF Goes, LivePlace
    <2> QED BY <1>1, <2>1, ClaimableStays, Zenon DEF NotificationInv, NotificationTypeOK, Budget
<1>6. ~overrun /\ JobOf(w) /\ OwnRecord(w) => JobOf(w)' /\ OwnRecord(w)'
    BY <1>1, <1>2, <1>3, ClaimableStays, Zenon DEF Goes, JobOf, OwnRecord
<1> QED BY <1>1, <1>2, <1>4, <1>5, <1>6, InJobStep, Zenon DEF Goes

LEMMA UpdateSentFailsInv == ASSUME FiniteSetFacts, NotificationInv, NEW w \in JobWorker, updateSentFails(w) PROVE NotificationInv'
<1>1. /\ worker[w].at = "sent" /\ UNCHANGED <<attempt, claims, accepted, overrun>>
      /\ worker \in WorkerType /\ InJob(w) /\ sends \in Seq(SendStatus) /\ worker[w].group \in Nat
      /\ sends' \in {sends, [sends EXCEPT ![worker[w].group] = "sent"]}
      /\ unrecorded' = unrecorded + 1 /\ jobFaults' = jobFaults + 1
    BY Zenon DEF updateSentFails, NotificationInv, NotificationTypeOK, InJob, SendStatus, WorkerType
<1>2. Goes(w, "failed")
    <2>1. PICK error \in {"ambiguous", "retryable", "permanent"} :
             worker' = [worker EXCEPT ![w].at = "failed", ![w].error = error]
        BY Zenon DEF updateSentFails
    <2>2. error \in Errors /\ "failed" \in Place
        BY Zenon DEF Errors, Place
    <2> QED BY <1>1, <2>1, <2>2, ErrorUpdate, Zenon
<1>3. sends' \in Seq(SendStatus) /\ Len(sends)' = Len(sends)
    BY <1>1, SendsUpdate, Zenon DEF SendStatus
<1>4. NotificationTypeOK'
    BY <1>1, <1>2, <1>3, SMTT(30) DEF NotificationInv, NotificationTypeOK, Goes, SendStatus
<1>5. Budget'
    <2>1. Cardinality(Live) \in Nat /\ Cardinality(Live)' = Cardinality(Live) + 1
        BY <1>1, <1>2, LiveCount, Zenon DEF Goes, LivePlace
    <2> QED BY <1>1, <2>1, ClaimableStays, SMTT(30) DEF NotificationInv, NotificationTypeOK, Budget
<1>6. ~overrun /\ JobOf(w) /\ OwnRecord(w) => JobOf(w)' /\ OwnRecord(w)'
    <2> SUFFICES ASSUME JobOf(w), OwnRecord(w) PROVE JobOf(w)' /\ OwnRecord(w)'
        BY Zenon
    <2>1. accepted' <= unrecorded' /\ accepted' <= 1 + unrecorded'
        BY <1>1, SMTT(30) DEF OwnRecord, NotificationInv, NotificationTypeOK
    <2> QED BY <1>1, <1>2, <1>3, <2>1, ClaimableStays, Zenon DEF Goes, JobOf, OwnRecord
<1> QED BY <1>1, <1>2, <1>4, <1>5, <1>6, InJobStep, Zenon DEF Goes

LEMMA UpdateFailedInv == ASSUME FiniteSetFacts, NotificationInv, NEW w \in JobWorker, updateFailed(w) PROVE NotificationInv'
<1>1. /\ worker[w].at = "failed" /\ UNCHANGED <<attempt, claims, accepted, unrecorded, overrun, jobFaults>>
      /\ worker \in WorkerType /\ InJob(w) /\ sends \in Seq(SendStatus) /\ worker[w].group \in Nat
      /\ sends' = [sends EXCEPT ![worker[w].group] = "failed"]
    BY Zenon DEF updateFailed, NotificationInv, NotificationTypeOK, InJob, LivePlace, SendStatus, WorkerType
<1>2. PICK p \in {"check", "fail"}, g \in Nat :
         /\ worker' = [worker EXCEPT ![w] = [at |-> p, id |-> @.id, group |-> g, tries |-> @.tries + 1, error |-> @.error]]
         /\ p = "check" => g = worker[w].group + 1
    <2> DEFINE again == worker[w].error = "retryable" /\ worker[w].tries + 1 < maxAttempts
               p == IF again THEN "check" ELSE "fail"
               g == IF again THEN worker[w].group + 1 ELSE worker[w].group
    <2>1. p \in {"check", "fail"} /\ g \in Nat /\ (p = "check" => g = worker[w].group + 1)
        BY <1>1
    <2>2. worker' = [worker EXCEPT ![w] = [at |-> p, id |-> @.id, group |-> g, tries |-> @.tries + 1, error |-> @.error]]
        BY Zenon DEF updateFailed
    <2> QED BY <2>1, <2>2, Zenon
<1>3. /\ worker' \in WorkerType /\ OthersWait(w)
      /\ worker'[w].at = p /\ worker'[w].id = worker[w].id /\ worker'[w].group = g
    BY <1>1, <1>2, AgainUpdate, ZenonT(40) DEF Place
<1>4. sends' \in Seq(SendStatus) /\ Len(sends)' = Len(sends)
    BY <1>1, SendsUpdate, Zenon DEF SendStatus
<1>5. NotificationTypeOK'
    BY <1>1, <1>3, <1>4, Zenon DEF NotificationInv, NotificationTypeOK, SendStatus
<1>6. Budget'
    <2>1. Cardinality(Live) \in Nat /\ Cardinality(Live)' = Cardinality(Live)
        BY <1>1, <1>3, LiveCount, Zenon DEF LivePlace
    <2> QED BY <1>1, <2>1, ClaimableStays, Zenon DEF NotificationInv, NotificationTypeOK, Budget
<1>7. ~overrun /\ JobOf(w) /\ OwnRecord(w) => JobOf(w)' /\ OwnRecord(w)'
    <2> SUFFICES ASSUME JobOf(w), OwnRecord(w) PROVE JobOf(w)' /\ OwnRecord(w)'
        BY Zenon
    <2>1. accepted' <= unrecorded' /\ accepted' <= 1 + unrecorded' /\ worker[w].group = Len(sends)
        BY <1>1, Zenon DEF JobOf, OwnRecord
    <2> QED BY <1>1, <1>2, <1>3, <1>4, <2>1, ClaimableStays DEF JobOf, OwnRecord
<1> QED BY <1>1, <1>3, <1>5, <1>6, <1>7, InJobStep, Zenon

\* UPDATE ... WHERE id = $2, which may or may not take effect.
LEMMA MarkedRow ==
    ASSUME NotificationTypeOK, NEW w, NEW status \in {"completed", "failed"}, attempt' \in {attempt, marked(w, status)}
    PROVE  /\ attempt' \in [id: Nat, status: {"none", "pending", "completed", "failed"}, age: {"fresh", "stale", "expired"}]
           /\ attempt'.id = attempt.id
           /\ Claimable \in {0, 1} /\ Claimable' \in {0, 1}
           /\ status = "completed" => (claimable(attempt)' => claimable(attempt)) /\ Claimable' <= Claimable
<1>1. attempt' = attempt \/ attempt' = [attempt EXCEPT !.status = status]
    BY Zenon DEF marked
<1>2. /\ attempt' \in [id: Nat, status: {"none", "pending", "completed", "failed"}, age: {"fresh", "stale", "expired"}]
      /\ attempt'.id = attempt.id /\ attempt'.age = attempt.age
      /\ attempt' = attempt \/ attempt'.status = status
    BY <1>1, Zenon DEF NotificationTypeOK
<1>3. status = "completed" => (claimable(attempt)' => claimable(attempt))
    BY <1>2, Zenon DEF claimable
<1> QED BY <1>2, <1>3 DEF Claimable

LEMMA MarkInv == ASSUME FiniteSetFacts, NotificationInv, NEW w \in JobWorker, markCompleted(w) \/ markFailed(w) PROVE NotificationInv'
<1>1. PICK status \in {"completed", "failed"} :
         /\ attempt' = marked(w, status)
         /\ worker[w].at = IF status = "completed" THEN "complete" ELSE "fail"
    BY Zenon DEF markCompleted, markFailed
<1>2. /\ UNCHANGED <<sends, claims, accepted, unrecorded, overrun, jobFaults>> /\ InJob(w)
      /\ worker \in WorkerType /\ worker' = [worker EXCEPT ![w] = IdleWorker]
    BY Zenon DEF markCompleted, markFailed, InJob, LivePlace, NotificationInv, NotificationTypeOK
<1>3. worker' \in WorkerType /\ OthersWait(w) /\ worker'[w].at = "idle"
    BY <1>2, IdleUpdate, Zenon
<1>4. /\ attempt' \in [id: Nat, status: {"none", "pending", "completed", "failed"}, age: {"fresh", "stale", "expired"}]
      /\ Claimable \in {0, 1} /\ Claimable' \in {0, 1} /\ (status = "completed" => Claimable' <= Claimable)
    BY <1>1, MarkedRow, Zenon DEF NotificationInv
<1>5. NotificationTypeOK'
    BY <1>2, <1>3, <1>4, Zenon DEF NotificationInv, NotificationTypeOK
<1>6. Budget'
    <2>1. /\ Cardinality(Live) \in Nat
          /\ Cardinality(Live)' = IF status = "completed" THEN Cardinality(Live) ELSE Cardinality(Live) - 1
        BY <1>1, <1>3, LiveCount, Zenon DEF LivePlace
    <2> QED BY <1>2, <1>4, <2>1, SMTT(30) DEF NotificationInv, NotificationTypeOK, Budget
<1>7. ~overrun /\ JobOf(w) /\ OwnRecord(w) => JobOf(w)' /\ OwnRecord(w)'
    BY <1>1, <1>2, <1>3, Zenon DEF JobOf, InJob, LivePlace, OwnRecord, isSent
<1> QED BY <1>2, <1>3, <1>5, <1>6, <1>7, InJobStep, Zenon

LEMMA MarkCompletedFailsInv == ASSUME FiniteSetFacts, NotificationInv, NEW w \in JobWorker, markCompletedFails(w) PROVE NotificationInv'
<1>1. /\ UNCHANGED <<sends, claims, accepted, unrecorded, overrun>> /\ InJob(w) /\ jobFaults' = jobFaults + 1
      /\ worker \in WorkerType /\ worker' = [worker EXCEPT ![w].at = "fail"] /\ worker[w].at = "complete"
      /\ attempt' \in {attempt, marked(w, "completed")}
    BY Zenon DEF markCompletedFails, InJob, LivePlace, NotificationInv, NotificationTypeOK
<1>2. Goes(w, "fail")
    BY <1>1, AtUpdate, Zenon DEF Place
<1>3. /\ attempt' \in [id: Nat, status: {"none", "pending", "completed", "failed"}, age: {"fresh", "stale", "expired"}]
      /\ Claimable \in {0, 1} /\ Claimable' \in {0, 1} /\ Claimable' <= Claimable
      /\ attempt'.id = attempt.id /\ (claimable(attempt)' => claimable(attempt))
    BY <1>1, MarkedRow, Zenon DEF NotificationInv
<1>4. NotificationTypeOK'
    BY <1>1, <1>2, <1>3 DEF NotificationInv, NotificationTypeOK, Goes
<1>5. Budget'
    <2>1. Cardinality(Live) \in Nat /\ Cardinality(Live)' = Cardinality(Live) + 1
        BY <1>1, <1>2, LiveCount, Zenon DEF Goes, LivePlace
    <2> QED BY <1>1, <1>3, <2>1, SMTT(30) DEF NotificationInv, NotificationTypeOK, Budget
<1>6. ~overrun /\ JobOf(w) /\ OwnRecord(w) => JobOf(w)' /\ OwnRecord(w)'
    BY <1>1, <1>2, <1>3, Zenon DEF Goes, JobOf, OwnRecord, isSent
<1> QED BY <1>1, <1>2, <1>4, <1>5, <1>6, InJobStep, Zenon DEF Goes

LEMMA DeliveryThrowsInv == ASSUME FiniteSetFacts, NotificationInv, NEW w \in JobWorker, deliveryThrows(w) PROVE NotificationInv'
<1>1. /\ UNCHANGED <<attempt, sends, claims, accepted, unrecorded, overrun>> /\ InJob(w) /\ jobFaults' = jobFaults + 1
      /\ worker \in WorkerType /\ worker' = [worker EXCEPT ![w].at = "fail"]
      /\ worker[w].at \in LivePlace /\ worker[w].at # "sent"
    BY Zenon DEF deliveryThrows, InJob, LivePlace, NotificationInv, NotificationTypeOK
<1>2. Goes(w, "fail")
    BY <1>1, AtUpdate, Zenon DEF Place
<1>3. NotificationTypeOK'
    BY <1>1, <1>2 DEF NotificationInv, NotificationTypeOK, Goes
<1>4. Budget'
    <2>1. Cardinality(Live) \in Nat /\ Cardinality(Live)' = Cardinality(Live)
        BY <1>1, <1>2, LiveCount, Zenon DEF Goes, LivePlace
    <2> QED BY <1>1, <2>1, ClaimableStays DEF NotificationInv, NotificationTypeOK, Budget
<1>5. ~overrun /\ JobOf(w) /\ OwnRecord(w) => JobOf(w)' /\ OwnRecord(w)'
    BY <1>1, <1>2, ClaimableStays, Zenon DEF Goes, JobOf, OwnRecord, isSent
<1> QED BY <1>1, <1>2, <1>3, <1>4, <1>5, InJobStep, Zenon DEF Goes

LEMMA WorkerCrashesInv == ASSUME FiniteSetFacts, NotificationInv, NEW w \in JobWorker, workerCrashes(w) PROVE NotificationInv'
<1>1. /\ UNCHANGED <<attempt, sends, claims, accepted, overrun>> /\ jobFaults' = jobFaults + 1
      /\ unrecorded' = IF worker[w].at = "sent" THEN unrecorded + 1 ELSE unrecorded
      /\ worker \in WorkerType /\ worker' = [worker EXCEPT ![w] = IdleWorker]
    BY Zenon DEF workerCrashes, NotificationInv, NotificationTypeOK
<1>2. worker' \in WorkerType /\ OthersWait(w) /\ worker'[w].at = "idle" /\ ~InJob(w)'
    BY <1>1, IdleUpdate, Zenon DEF InJob, LivePlace
<1>3. CASE ~InJob(w)
    <2>1. unrecorded' = unrecorded
        BY <1>1, <1>3, Zenon DEF InJob
    <2> QED BY <1>1, <1>2, <1>3, <2>1, OutOfJobStep, Zenon
<1>4. CASE InJob(w)
    <2>1. NotificationTypeOK'
        BY <1>1, <1>2 DEF NotificationInv, NotificationTypeOK
    <2>2. Budget'
        <3>1. Cardinality(Live) \in Nat /\ Cardinality(Live)' \in Nat /\ Cardinality(Live)' <= Cardinality(Live)
            BY <1>2, LiveCount, SMTT(30) DEF LivePlace
        <3> QED BY <1>1, <3>1, ClaimableStays, SMTT(30) DEF NotificationInv, NotificationTypeOK, Budget
    <2>3. ~overrun /\ JobOf(w) /\ OwnRecord(w) => JobOf(w)' /\ OwnRecord(w)'
        BY <1>1, <1>2 DEF JobOf, OwnRecord, isSent, NotificationInv, NotificationTypeOK
    <2> QED BY <1>1, <1>2, <1>4, <2>1, <2>2, <2>3, InJobStep
<1> QED BY <1>3, <1>4, Zenon

\* Time passes: a claim that runs out costs a fault, and under its worker an
\* overrun.
LEMMA AttemptAgesInv == ASSUME FiniteSetFacts, NotificationInv, attemptAges PROVE NotificationInv'
<1> DEFINE next == [attempt EXCEPT !.age = IF @ = "fresh" THEN "stale" ELSE "expired"]
           runsOut == ~claimable(attempt) /\ claimable(next)
           running == \E w \in JobWorker : worker[w].at # "idle" /\ worker[w].id = attempt.id
<1>1. /\ attempt' = next /\ UNCHANGED <<worker, sends, claims, accepted, unrecorded>>
      /\ overrun' = (overrun \/ (runsOut /\ running))
      /\ jobFaults' = IF runsOut THEN jobFaults + 1 ELSE jobFaults
    BY Zenon DEF attemptAges
<1>2. next \in [id: Nat, status: {"none", "pending", "completed", "failed"}, age: {"fresh", "stale", "expired"}]
      /\ next.id = attempt.id
    BY Zenon DEF NotificationInv, NotificationTypeOK
<1>3. claimable(next) <=> claimable(attempt)'
    BY <1>1, Zenon DEF claimable
<1> HIDE DEF next
<1>4. NotificationTypeOK'
    BY <1>1, <1>2, SMTT(30) DEF NotificationInv, NotificationTypeOK
<1>5. Budget'
    <2>1. Live' = Live /\ Cardinality(Live) \in Nat
        <3>1. Live \subseteq JobWorker
            BY Zenon DEF Live
        <3>2. Cardinality(Live) \in Nat
            BY <3>1, WorkersFinite, Zenon DEF FiniteSetFacts, SubsetFact, CountFact
        <3> QED BY <1>1, <3>2, Zenon DEF Live
    <2>2. Claimable \in {0, 1} /\ Claimable' \in {0, 1} /\ (~runsOut => Claimable' <= Claimable)
        BY <1>3 DEF Claimable
    <2> QED BY <1>1, <2>1, <2>2, SMTT(30) DEF NotificationInv, NotificationTypeOK, Budget
<1>6. ASSUME ~overrun' PROVE OneJob' /\ Recorded' /\ \A w \in JobWorker : JobOf(w)'
    <2>1. OneJob /\ Recorded /\ (\A w \in JobWorker : JobOf(w)) /\ ~(runsOut /\ running)
        BY <1>1, <1>6, Zenon DEF NotificationInv
    <2>2. OneJob' /\ Recorded'
        BY <1>1, <2>1, Zenon DEF OneJob, Recorded, InJob, isSent
    <2>3. ASSUME NEW w \in JobWorker PROVE JobOf(w)'
        <3>1. ASSUME InJob(w) PROVE ~claimable(attempt)'
            <4>1. worker[w].at # "idle" /\ worker[w].id = attempt.id /\ ~claimable(attempt)
                BY <2>1, <3>1, Zenon DEF JobOf, InJob, LivePlace
            <4> QED BY <1>3, <2>1, <4>1, Zenon
        <3>2. InJob(w)' <=> InJob(w)
            BY <1>1, Zenon DEF InJob
        <3> QED BY <1>1, <1>2, <2>1, <3>1, <3>2, Zenon DEF JobOf
    <2> QED BY <2>2, <2>3, Zenon
<1> QED BY <1>4, <1>5, <1>6, Zenon DEF NotificationInv

\* A provider reports on the last attempt.
LEMMA ReconcileInv == ASSUME FiniteSetFacts, NotificationInv, reconcileSend PROVE NotificationInv'
<1>1. PICK status \in {"sent", "failed"} :
         /\ sends' = [sends EXCEPT ![Len(sends)] = status]
         /\ unrecorded' = IF status = "failed" /\ isSent(Len(sends)) THEN unrecorded + 1 ELSE unrecorded
    BY Zenon DEF reconcileSend
<1>2. /\ jobFaults' = jobFaults + 1 /\ UNCHANGED <<attempt, worker, claims, accepted, overrun>>
      /\ Len(sends) # 0 /\ sends \in Seq(SendStatus) /\ Len(sends) \in Nat
      /\ unrecorded \in Nat /\ accepted \in Nat
    BY DEF reconcileSend, NotificationInv, NotificationTypeOK, SendStatus
<1>3. sends' \in Seq(SendStatus) /\ Len(sends)' = Len(sends) /\ (isSent(Len(sends))' <=> status = "sent")
    BY <1>1, <1>2, SendsUpdate, Zenon DEF SendStatus
<1>4. NotificationTypeOK'
    BY <1>1, <1>2, <1>3 DEF NotificationInv, NotificationTypeOK, SendStatus
<1>5. Budget'
    <2>1. Live' = Live /\ Cardinality(Live) \in Nat
        <3>1. Live \subseteq JobWorker
            BY Zenon DEF Live
        <3>2. Cardinality(Live) \in Nat
            BY <3>1, WorkersFinite, Zenon DEF FiniteSetFacts, SubsetFact, CountFact
        <3> QED BY <1>2, <3>2, Zenon DEF Live
    <2> QED BY <1>2, <2>1, ClaimableStays DEF NotificationInv, NotificationTypeOK, Budget
<1>6. ASSUME ~overrun' PROVE OneJob' /\ Recorded' /\ \A w \in JobWorker : JobOf(w)'
    <2>1. OneJob /\ Recorded /\ \A w \in JobWorker : JobOf(w)
        BY <1>2, <1>6, Zenon DEF NotificationInv
    <2>2. OneJob'
        BY <1>2, <2>1, Zenon DEF OneJob, InJob
    <2>3. Recorded'
        <3>1. accepted <= 1 + unrecorded /\ unrecorded' \in Nat /\ unrecorded' >= unrecorded
            BY <1>1, <1>2, <2>1 DEF Recorded
        <3>2. CASE isSent(Len(sends))
            <4>1. accepted' <= unrecorded' \/ isSent(Len(sends))'
                BY <1>1, <1>2, <1>3, <3>1, <3>2
            <4>2. accepted' = accepted
                BY <1>2, Zenon
            <4>3. \A a, b, c \in Nat : a <= 1 + b /\ c >= b => a <= 1 + c
                OBVIOUS
            <4>4. accepted <= 1 + unrecorded'
                BY <1>2, <3>1, <4>3, Zenon
            <4> QED BY <4>1, <4>2, <4>4, Zenon DEF Recorded
        <3>3. CASE ~isSent(Len(sends))
            BY <1>1, <1>2, <2>1, <3>3, Zenon DEF Recorded
        <3> QED BY <3>2, <3>3, Zenon
    <2>4. ASSUME NEW w \in JobWorker PROVE JobOf(w)'
        <3>1. accepted <= unrecorded => accepted' <= unrecorded'
            BY <1>1, <1>2, SMTT(30)
        <3>2. (InJob(w)' <=> InJob(w)) /\ (claimable(attempt)' <=> claimable(attempt))
            BY <1>2, Zenon DEF InJob, claimable
        <3> QED BY <1>2, <1>3, <2>1, <3>1, <3>2, Zenon DEF JobOf
    <2> QED BY <2>2, <2>3, <2>4, Zenon
<1> QED BY <1>4, <1>5, <1>6, Zenon DEF NotificationInv

LEMMA NotificationInitInv == ASSUME FiniteSetFacts, NotificationInit PROVE NotificationInv
<1>1. NotificationTypeOK
    BY DEF NotificationInit, NotificationTypeOK, WorkerType, IdleWorker, NoAttempt, Place, Errors
<1>2. \A w \in JobWorker : ~InJob(w)
    BY Zenon DEF NotificationInit, IdleWorker, InJob, LivePlace
<1>3. Live = {}
    BY <1>2, Zenon DEF Live, InJob
<1>4. Budget
    BY <1>3, SMTT(30) DEF FiniteSetFacts, EmptyFact, Budget, Claimable, NotificationInit
<1>5. OneJob /\ Recorded /\ \A w \in JobWorker : JobOf(w)
    BY <1>2 DEF OneJob, JobOf, Recorded, NotificationInit
<1> QED BY <1>1, <1>4, <1>5, Zenon DEF NotificationInv

LEMMA NotificationStepInv == ASSUME FiniteSetFacts, NotificationInv, [NotificationNext]_notificationVars PROVE NotificationInv'
<1>1. CASE UNCHANGED notificationVars
    BY <1>1 DEF notificationVars, NotificationInv, NotificationTypeOK, Budget, Live, Claimable, claimable, OneJob, InJob,
                Recorded, isSent, JobOf
<1>2. ASSUME NEW w \in JobWorker,
             \/ claimAttempt(w) \/ findAttempt(w) \/ getLastSendAttempt(w) \/ getSendByIdempotencyKey(w)
             \/ createSendAttempt(w) \/ providerSend(w) \/ updateSent(w) \/ updateSentFails(w)
      PROVE  NotificationInv'
    BY <1>2, ClaimInv, FindAttemptInv, GetLastInv, GetSendInv, CreateInv, ProviderSendInv, UpdateSentInv, UpdateSentFailsInv, Zenon
<1>3. ASSUME NEW w \in JobWorker,
             \/ updateFailed(w) \/ markCompleted(w) \/ markCompletedFails(w) \/ markFailed(w)
             \/ deliveryThrows(w) \/ workerCrashes(w)
      PROVE  NotificationInv'
    BY <1>3, UpdateFailedInv, MarkInv, MarkCompletedFailsInv, DeliveryThrowsInv, WorkerCrashesInv, Zenon
<1> QED BY <1>1, <1>2, <1>3, AttemptAgesInv, ReconcileInv, ZenonT(40) DEF NotificationNext

-----------------------------------------------------------------------------
INSTANCE FiniteSetTheorems

\* The facts about finite sets that the lemmas assume are the library's.
LEMMA FiniteSetFactsHold == FiniteSetFacts
<1>1. EmptyFact /\ CountFact /\ SingletonFact
    BY FS_EmptySet, FS_CardinalityType, FS_Singleton, Zenon DEF EmptyFact, CountFact, SingletonFact
<1>2. SubsetFact
    BY FS_Subset, Zenon DEF SubsetFact
<1>3. AddFact /\ RemoveFact
    BY FS_AddElement, FS_RemoveElement DEF AddFact, RemoveFact
<1>4. ProductFact
    BY FS_Product, Zenon DEF ProductFact
<1> QED BY <1>1, <1>2, <1>3, <1>4, Zenon DEF FiniteSetFacts

(***************************************************************************)
(* The provider accepts a notification once, and once more at most for     *)
(* each acceptance that was lost and each delivery reported as failed      *)
(* (execute, executeDelivery and the claim of the job's row), for any      *)
(* number of workers, retries, crashes and claims that run out.            *)
(***************************************************************************)
THEOREM NotificationAcceptedOnce == NotificationSpec => []AcceptedOncePerLoss
<1>1. NotificationInv => AcceptedOncePerLoss
    <2> SUFFICES ASSUME NotificationInv PROVE AcceptedOncePerLoss
        BY Zenon
    <2>1. Cardinality(Live) \in Nat
        <3>1. Live \subseteq JobWorker
            BY DEF Live
        <3> QED BY <3>1, WorkersFinite, FS_Subset, FS_CardinalityType
    <2>2. accepted <= 1 + jobFaults
        BY <2>1 DEF NotificationInv, NotificationTypeOK, Budget, Claimable
    <2> QED BY <2>2, Zenon DEF NotificationInv, Recorded, AcceptedOncePerLoss
<1>2. NotificationInit => NotificationInv
    BY NotificationInitInv, FiniteSetFactsHold, Zenon
<1>3. NotificationInv /\ [NotificationNext]_notificationVars => NotificationInv'
    BY NotificationStepInv, FiniteSetFactsHold, Zenon
<1> QED BY <1>1, <1>2, <1>3, PTL DEF NotificationSpec
=============================================================================
