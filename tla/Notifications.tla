---------------------------- MODULE Notifications ----------------------------
(***************************************************************************)
(* One notification of src/services/notifications: workers that deliver()  *)
(* it.  The delivery runs as a job of src/jobs/notificationIdempotency.ts, *)
(* guarded by a row of idempotent_job_attempts, and tries providers in     *)
(* turn, with a row of notification_send_attempts for every try.  Every    *)
(* statement commits by itself; a worker may crash anywhere, a statement   *)
(* may fail, and a provider may accept a message and not answer.           *)
(***************************************************************************)
EXTENDS Naturals, Sequences, FiniteSets

CONSTANTS
    JobWorker,     \* callers of deliver(), each of which may call again
    MaxClaims,     \* bound on claims, whose numbers stand for their ids
    maxAttempts,   \* tries of one delivery
    MaxJobFaults   \* bound on lapses, crashes and failed statements together

ASSUME WorkersFinite == IsFiniteSet(JobWorker)

VARIABLES
    attempt,     \* the job's row; its age is "fresh", "stale" (claimTimeoutSeconds
                 \* have passed) or "expired" (expires_at has)
    worker,      \* worker[w]: where its deliver() is, the id it claimed, and the
                 \* attemptGroup, the try and the error of executeDelivery()
    sends,       \* the status of the send attempts, by attemptGroup
    claims,
    accepted,    \* messages that some provider accepted
    unrecorded,  \* acceptances that no send attempt records, and deliveries
                 \* that a provider reports as failed
    overrun,     \* some claim ran out under its worker
    jobFaults

notificationVars == <<attempt, worker, sends, claims, accepted, unrecorded, overrun, jobFaults>>

NoAttempt == [id |-> 0, status |-> "none", age |-> "fresh"]
IdleWorker == [at |-> "idle", id |-> 0, group |-> 0, tries |-> 0, error |-> "none"]

NotificationInit ==
    /\ attempt = NoAttempt /\ worker = [w \in JobWorker |-> IdleWorker] /\ sends = <<>>
    /\ claims = 0 /\ accepted = 0 /\ unrecorded = 0
    /\ overrun = FALSE /\ jobFaults = 0

\* The WHERE clause of the upsert.
claimable(row) ==
    \/ row.status \in {"none", "failed"} \/ row.age = "expired"
    \/ row.status = "pending" /\ row.age = "stale"

\* randomUUID(): "Rotate the id".
newId == claims + 1

\* claimAttempt(), called first by execute() and once more after findAttempt().
claimAttempt(w) ==
    /\ worker[w].at \in {"idle", "claim"} /\ claims < MaxClaims
    /\ IF claimable(attempt)
       THEN /\ attempt' = [id |-> newId, status |-> "pending", age |-> "fresh"]
            /\ worker' = [worker EXCEPT ![w].at = "last", ![w].id = newId]
            /\ claims' = claims + 1
       ELSE /\ worker' = [worker EXCEPT ![w].at = IF @ = "idle" THEN "find" ELSE "findAgain"]
            /\ UNCHANGED <<attempt, claims>>
    /\ UNCHANGED <<sends, accepted, unrecorded, overrun, jobFaults>>

\* findAttempt() and what execute() makes of it: it returns the stored result,
\* throws DuplicateJobExecutionError, or claims once more.
findAttempt(w) ==
    LET visible == attempt.status # "none" /\ attempt.age # "expired"
        ends == \/ worker[w].at = "findAgain"
                \/ visible /\ attempt.status \in {"completed", "pending"}
    IN  /\ worker[w].at \in {"find", "findAgain"}
        /\ worker' = [worker EXCEPT ![w] = IF ends THEN IdleWorker ELSE [@ EXCEPT !.at = "claim"]]
        /\ UNCHANGED <<attempt, sends, claims, accepted, unrecorded, overrun, jobFaults>>

\* Mutant: a delivery does not look for one that was sent.
neverSent(group) == FALSE

isSent(group) == group \in 1..Len(sends) /\ sends[group] = "sent"

\* getLastSendAttempt(): a sent one ends the delivery.
getLastSendAttempt(w) ==
    /\ worker[w].at = "last"
    /\ worker' = [worker EXCEPT ![w].at = IF isSent(Len(sends)) THEN "complete" ELSE "check",
                                ![w].group = Len(sends) + 1]
    /\ UNCHANGED <<attempt, sends, claims, accepted, unrecorded, overrun, jobFaults>>

getSendByIdempotencyKey(w) ==
    /\ worker[w].at = "check"
    /\ worker' = [worker EXCEPT ![w].at = IF isSent(worker[w].group) THEN "complete" ELSE "create"]
    /\ UNCHANGED <<attempt, sends, claims, accepted, unrecorded, overrun, jobFaults>>

\* It returns a row with the same key, or trips over it when it inserts.
createSendAttempt(w) ==
    /\ worker[w].at = "create"
    /\ IF worker[w].group > Len(sends)
       THEN sends' = Append(sends, "pending") /\ worker' = [worker EXCEPT ![w].at = "send"]
       ELSE /\ \E next \in {"send", "fail"} : worker' = [worker EXCEPT ![w].at = next]
            /\ UNCHANGED sends
    /\ UNCHANGED <<attempt, claims, accepted, unrecorded, overrun, jobFaults>>

\* provider.send() resolves, or rejects with an error of one of the kinds of
\* classifyDeliveryError(); only after a timeout was the message accepted.
providerSend(w) ==
    /\ worker[w].at = "send"
    /\ \/ /\ worker' = [worker EXCEPT ![w].at = "sent"]
          /\ accepted' = accepted + 1 /\ UNCHANGED <<unrecorded, jobFaults>>
       \/ /\ \E error \in {"ambiguous", "retryable", "permanent"} :
                worker' = [worker EXCEPT ![w].at = "failed", ![w].error = error]
          /\ UNCHANGED <<accepted, unrecorded, jobFaults>>
       \/ /\ jobFaults < MaxJobFaults
          /\ worker' = [worker EXCEPT ![w].at = "failed", ![w].error = "ambiguous"]
          /\ accepted' = accepted + 1 /\ unrecorded' = unrecorded + 1 /\ jobFaults' = jobFaults + 1
    /\ UNCHANGED <<attempt, sends, claims, overrun>>

\* updateSendAttempt(): the message was sent.
updateSent(w) ==
    /\ worker[w].at = "sent"
    /\ sends' = [sends EXCEPT ![worker[w].group] = "sent"]
    /\ worker' = [worker EXCEPT ![w].at = "complete"]
    /\ UNCHANGED <<attempt, claims, accepted, unrecorded, overrun, jobFaults>>

\* That update fails, with or without effect.  The catch block takes its error
\* for the provider's, and may go on to the next provider.
updateSentFails(w) ==
    /\ worker[w].at = "sent" /\ jobFaults < MaxJobFaults
    /\ sends' \in {sends, [sends EXCEPT ![worker[w].group] = "sent"]}
    /\ \E error \in {"ambiguous", "retryable", "permanent"} :
          worker' = [worker EXCEPT ![w].at = "failed", ![w].error = error]
    /\ unrecorded' = unrecorded + 1 /\ jobFaults' = jobFaults + 1
    /\ UNCHANGED <<attempt, claims, accepted, overrun>>

\* The rest of the catch block: only a retryable error leads to another try,
\* and the last one to the dead letters.
updateFailed(w) ==
    LET again == worker[w].error = "retryable" /\ worker[w].tries + 1 < maxAttempts
    IN  /\ worker[w].at = "failed"
        /\ sends' = [sends EXCEPT ![worker[w].group] = "failed"]
        /\ worker' = [worker EXCEPT ![w] =
               [at |-> IF again THEN "check" ELSE "fail", id |-> @.id, group |-> IF again THEN @.group + 1 ELSE @.group,
                tries |-> @.tries + 1, error |-> @.error]]
        /\ UNCHANGED <<attempt, claims, accepted, unrecorded, overrun, jobFaults>>

\* UPDATE ... WHERE id = $2
marked(w, status) == IF attempt.id = worker[w].id THEN [attempt EXCEPT !.status = status] ELSE attempt

markCompleted(w) ==
    /\ worker[w].at = "complete"
    /\ attempt' = marked(w, "completed")
    /\ worker' = [worker EXCEPT ![w] = IdleWorker]
    /\ UNCHANGED <<sends, claims, accepted, unrecorded, overrun, jobFaults>>

\* The answer to markCompleted() is an error, before or after the update: the
\* catch block goes on to markFailed().
markCompletedFails(w) ==
    /\ worker[w].at = "complete" /\ jobFaults < MaxJobFaults
    /\ attempt' \in {attempt, marked(w, "completed")}
    /\ worker' = [worker EXCEPT ![w].at = "fail"]
    /\ jobFaults' = jobFaults + 1
    /\ UNCHANGED <<sends, claims, accepted, unrecorded, overrun>>

markFailed(w) ==
    /\ worker[w].at = "fail"
    /\ attempt' = marked(w, "failed")
    /\ worker' = [worker EXCEPT ![w] = IdleWorker]
    /\ UNCHANGED <<sends, claims, accepted, unrecorded, overrun, jobFaults>>

\* Another statement of executeDelivery() fails, and with it the job.
deliveryThrows(w) ==
    /\ worker[w].at \in {"last", "check", "create", "failed"} /\ jobFaults < MaxJobFaults
    /\ worker' = [worker EXCEPT ![w].at = "fail"]
    /\ jobFaults' = jobFaults + 1
    /\ UNCHANGED <<attempt, sends, claims, accepted, unrecorded, overrun>>

\* The process of w crashes, or a statement of execute() fails.
workerCrashes(w) ==
    /\ worker[w].at # "idle" /\ jobFaults < MaxJobFaults
    /\ unrecorded' = IF worker[w].at = "sent" THEN unrecorded + 1 ELSE unrecorded
    /\ worker' = [worker EXCEPT ![w] = IdleWorker]
    /\ jobFaults' = jobFaults + 1
    /\ UNCHANGED <<attempt, sends, claims, accepted, overrun>>

\* Time passes.
attemptAges ==
    LET next == [attempt EXCEPT !.age = IF @ = "fresh" THEN "stale" ELSE "expired"]
        lapses == ~claimable(attempt) /\ claimable(next)
        running == \E w \in JobWorker : worker[w].at # "idle" /\ worker[w].id = attempt.id
    IN  /\ attempt.status # "none" /\ attempt.age # "expired"
        /\ attempt' = next
        /\ overrun' = (overrun \/ (lapses /\ running))
        /\ jobFaults' = IF lapses THEN jobFaults + 1 ELSE jobFaults
        /\ jobFaults' <= MaxJobFaults
        /\ UNCHANGED <<worker, sends, claims, accepted, unrecorded>>

\* reconcileSend(): a provider reports what became of the last attempt.
reconcileSend ==
    LET last == Len(sends)
    IN  /\ last # 0 /\ jobFaults < MaxJobFaults
        /\ \/ accepted > 0 /\ sends' = [sends EXCEPT ![last] = "sent"] /\ UNCHANGED unrecorded
           \/ /\ sends' = [sends EXCEPT ![last] = "failed"]
              /\ unrecorded' = IF isSent(last) THEN unrecorded + 1 ELSE unrecorded
        /\ jobFaults' = jobFaults + 1
        /\ UNCHANGED <<attempt, worker, claims, accepted, overrun>>

NotificationNext ==
    \/ attemptAges \/ reconcileSend
    \/ \E w \in JobWorker :
          \/ claimAttempt(w) \/ findAttempt(w)
          \/ getLastSendAttempt(w) \/ getSendByIdempotencyKey(w) \/ createSendAttempt(w)
          \/ providerSend(w) \/ updateSent(w) \/ updateSentFails(w) \/ updateFailed(w)
          \/ markCompleted(w) \/ markCompletedFails(w) \/ markFailed(w)
          \/ deliveryThrows(w) \/ workerCrashes(w)

NotificationSpec == NotificationInit /\ [][NotificationNext]_notificationVars

(***************************************************************************)
(* A message is accepted once, and once more at most for each acceptance   *)
(* that was lost (a timeout or a crash after it, or an update that failed) *)
(* and each delivery reported as failed.  A job that was marked failed,    *)
(* crashed or expired after its message was recorded does not send it      *)
(* again: the send attempts guard what the job's row no longer does.  Once *)
(* a claim has run out under its worker a recorded message may hide behind *)
(* a newer attempt, and the bound is one more for each fault whatever it   *)
(* was (executeDelivery and execute).                                      *)
(***************************************************************************)
AcceptedOncePerLoss ==
    /\ accepted <= 1 + jobFaults
    /\ overrun \/ accepted <= 1 + unrecorded

=============================================================================
