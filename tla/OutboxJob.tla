----------------------------- MODULE OutboxJob -----------------------------
(***************************************************************************)
(* The job that runs the outbox publisher of one replica while the replica *)
(* leads (src/jobs/outbox.ts, with leaderLease.enabled).  The job reacts   *)
(* to the state changes of its WorkerLeaseManager: it creates and starts a *)
(* publisher when it becomes leader and stops it when leadership is lost.  *)
(*                                                                         *)
(* stopPublisher() awaits publisher.stop(), which stops the loop at once   *)
(* and then awaits releaseClaims; only then is this.publisher reset.  A    *)
(* second stopPublisher() meanwhile finds a publisher that does not run,   *)
(* whose stop() returns at once.  The application starts the job once and  *)
(* stops it once (src/index.ts).                                           *)
(***************************************************************************)
EXTENDS Naturals

CONSTANTS
    MaxTerms,       \* bound: how often the replica becomes leader
    PromptRelease,  \* releaseClaims is answered before leadership is regained
    ReleaseMayFail  \* releaseClaims may reject

ASSUME BoundsAssumption ==
    /\ MaxTerms \in Nat \ {0}
    /\ PromptRelease \in BOOLEAN
    /\ ReleaseMayFail \in BOOLEAN

Publisher == 1..MaxTerms    \* the OutboxPublisher objects, in order of creation
null == 0

VARIABLES
    started,    \* this.started
    stopCall,   \* where the call of stop() is: before its guard, awaiting
                \* stopPublisher(), awaiting leaseManager.stop(), ended, rejected
    leading,    \* the state of this.leaseManager
    publisher,  \* this.publisher
    loop,       \* loop[p]: publisher p runs, its timers are set
    releasing,  \* releasing[p]: who awaits releaseClaims in p.stop()
    failed,     \* releaseClaims has rejected at least once
    terms

jobVars == <<started, stopCall, leading, publisher, loop, releasing, failed, terms>>

JobInit ==
    /\ started = FALSE
    /\ stopCall = "none"
    /\ leading = FALSE
    /\ publisher = null
    /\ loop = [p \in Publisher |-> FALSE]
    /\ releasing = [p \in Publisher |-> "none"]
    /\ failed = FALSE
    /\ terms = 0

\* The lease manager was started and its stop() has not been called.
managerRuns == (started \/ stopCall # "none") /\ stopCall \notin {"lease", "done"}

start ==
    /\ ~started /\ stopCall = "none"
    /\ started' = TRUE
    /\ UNCHANGED <<stopCall, leading, publisher, loop, releasing, failed, terms>>

\* A publisher whose first batch fails keeps its timers, so the rejection of
\* publisher.start() changes nothing.
startPublisher ==
    IF publisher # null
    THEN UNCHANGED <<publisher, loop>>
    ELSE /\ publisher' = terms + 1
         /\ loop' = [loop EXCEPT ![terms + 1] = TRUE]

\* Mutant: the reference is dropped and the publisher goes on.
stopPublisherKeepsLoop(caller) ==
    /\ publisher' = null
    /\ UNCHANGED <<loop, releasing>>

\* stopPublisher() up to its await, and to its end when publisher.stop() has
\* nothing to wait for.
stopPublisher(caller) ==
    IF publisher = null
    THEN UNCHANGED <<publisher, loop, releasing>>
    ELSE IF loop[publisher]
    THEN /\ loop' = [loop EXCEPT ![publisher] = FALSE]
         /\ releasing' = [releasing EXCEPT ![publisher] = caller]
         /\ UNCHANGED publisher
    ELSE /\ publisher' = null
         /\ UNCHANGED <<loop, releasing>>

\* onStateChange('leader').
becomeLeader ==
    /\ managerRuns /\ ~leading /\ terms < MaxTerms
    /\ PromptRelease => \A p \in Publisher : releasing[p] = "none"
    /\ leading' = TRUE
    /\ startPublisher
    /\ terms' = terms + 1
    /\ UNCHANGED <<started, stopCall, releasing, failed>>

\* onStateChange('standby'), after a failed heartbeat or a connection error.
loseLeadership ==
    /\ managerRuns /\ leading
    /\ leading' = FALSE
    /\ stopPublisher("event")
    /\ UNCHANGED <<started, stopCall, failed, terms>>

\* The second half of stop(): leaseManager.stop() revokes leadership; its
\* callback finds this.publisher reset and has nothing to stop.
stopLease ==
    /\ stopCall' = "lease"
    /\ leading' = FALSE

\* stop(), to its first real wait.
stop ==
    /\ started
    /\ started' = FALSE
    /\ stopPublisher("stop")
    /\ IF publisher # null /\ loop[publisher]
       THEN stopCall' = "publisher" /\ UNCHANGED leading
       ELSE stopLease
    /\ UNCHANGED <<failed, terms>>

\* releaseClaims answers: the stopPublisher() that waited resets this.publisher,
\* whichever publisher it now holds.
released(p) ==
    /\ releasing[p] # "none"
    /\ releasing' = [releasing EXCEPT ![p] = "none"]
    /\ publisher' = null
    /\ IF releasing[p] = "stop" THEN stopLease ELSE UNCHANGED <<stopCall, leading>>
    /\ UNCHANGED <<started, loop, failed, terms>>

\* releaseClaims rejects: stopPublisher() ends before its last line, and so
\* does the stop() that called it.
releaseFailed(p) ==
    /\ ReleaseMayFail
    /\ releasing[p] # "none"
    /\ releasing' = [releasing EXCEPT ![p] = "none"]
    /\ stopCall' = IF releasing[p] = "stop" THEN "rejected" ELSE stopCall
    /\ failed' = TRUE
    /\ UNCHANGED <<started, leading, publisher, loop, terms>>

\* leaseManager.stop() ends and stop() with it.
leaseStopped ==
    /\ stopCall = "lease"
    /\ stopCall' = "done"
    /\ UNCHANGED <<started, leading, publisher, loop, releasing, failed, terms>>

JobNext ==
    \/ start
    \/ becomeLeader
    \/ loseLeadership
    \/ stop
    \/ leaseStopped
    \/ \E p \in Publisher : released(p) \/ releaseFailed(p)

JobSpec == JobInit /\ [][JobNext]_jobVars

-----------------------------------------------------------------------------
isRunning == publisher # null

\* If leadership is lost the publisher is stopped: no publisher loop of this
\* replica runs while the replica does not lead.
LoopOnlyWhileLeading == (\E p \in Publisher : loop[p]) => leading

=============================================================================
