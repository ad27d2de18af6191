------------------------------ MODULE Webhooks ------------------------------
(***************************************************************************)
(* One event on its way to the subscribed webhooks: calls of               *)
(* WebhookService.emit() with the event's id (services/webhooks), the dead *)
(* letters they leave, and the three ways of replaying one: runs of the    *)
(* WebhookDlqProcessor (jobs/webhookDlqProcessor.ts), its replayEntry(),   *)
(* and POST /api/webhooks/dlq/:id/replay (routes/webhookReplay.ts), whose  *)
(* idempotency key finds nothing, since recordReplay() names a constraint  *)
(* that no migration creates and its error is swallowed.                   *)
(* An entry is a pair <<e, h>>: emit e failed to deliver to h.             *)
(***************************************************************************)
EXTENDS Integers, FiniteSets, Sequences

CONSTANTS
    Emit,               \* calls of emit(), each in a process of its own
    Webhook,            \* webhooks subscribed to the event
    RunCall,            \* calls of run() on the one processor
    Replayer,           \* calls of replayEntry() and of the replay route
    DlqBatchSize,       \* batchSize
    MaxUndelivered,     \* bound: deliveries that do not succeed
    MaxStoreFaults,     \* bound: statements that fail and processes that crash
    MaxToggles          \* bound: changes of a webhook's active flag

VARIABLES
    active,             \* webhooks whose active flag is set
    reserved,           \* webhook_delivery_keys: webhooks with a row for the event
    emitting,           \* state of each emit()
    sending,            \* state of each emit()'s deliverWebhook() for each webhook
    dlq,                \* webhook_dlq: state of each entry
    failedAt,           \* the entries in the order of failed_at
    runFlag,            \* this.running, the processor's run flag
    caller,             \* state of each run and replay
    batch,              \* the entries a run or replay has yet to send, as it read them
    sent,               \* how often a replay of the entry was acknowledged
    undelivered,        \* deliveries that did not succeed so far
    storeFaults,        \* failed statements and crashes so far
    toggles

emitVars == <<emitting, sending, reserved>>
dlqVars == <<dlq, failedAt>>
replayVars == <<runFlag, caller, batch, sent>>
webhookVars == <<active, emitVars, dlqVars, replayVars, undelivered, storeFaults, toggles>>

Entry == Emit \X Webhook
Caller == RunCall \cup Replayer

\* The runs of the processor are not the replays asked for one by one.
ASSUME WebhookBounds ==
    /\ MaxUndelivered \in Nat /\ MaxStoreFaults \in Nat /\ MaxToggles \in Nat
    /\ DlqBatchSize \in Nat \ {0}
    /\ IsFiniteSet(Emit) /\ IsFiniteSet(Webhook) /\ IsFiniteSet(Replayer)
    /\ RunCall \cap Replayer = {}

WebhookInit ==
    /\ active = Webhook
    /\ reserved = {}
    /\ emitting = [e \in Emit |-> "new"]
    /\ sending = [p \in Entry |-> "none"]
    /\ dlq = [p \in Entry |-> "none"]
    /\ failedAt = << >>
    /\ runFlag = FALSE
    /\ caller = [c \in Caller |-> "idle"]
    /\ batch = [c \in Caller |-> << >>]
    /\ sent = [p \in Entry |-> 0]
    /\ undelivered = 0 /\ storeFaults = 0 /\ toggles = 0

storeFails == storeFaults < MaxStoreFaults /\ storeFaults' = storeFaults + 1

-----------------------------------------------------------------------------
\* emit(): getByEvent() and the filter on active, up to the deliveries.
emit(e) ==
    /\ emitting[e] = "new"
    /\ emitting' = [emitting EXCEPT ![e] = IF active = {} THEN "returned" ELSE "sending"]
    /\ sending' = [p \in Entry |-> IF p[1] = e /\ p[2] \in active THEN "reserve" ELSE sending[p]]
    /\ UNCHANGED <<active, reserved, dlqVars, replayVars, undelivered, storeFaults, toggles>>

\* INSERT ... ON CONFLICT (subscriber_id, event_id) DO NOTHING: rowCount > 0
reserves(p) == p[2] \notin reserved

reserveWebhookDelivery(p) ==
    /\ sending[p] = "reserve"
    /\ sending' = [sending EXCEPT ![p] = IF reserves(p) THEN "deliver" ELSE "skipped"]
    /\ reserved' = reserved \cup {p[2]}
    /\ UNCHANGED <<active, emitting, dlqVars, replayVars, undelivered, storeFaults, toggles>>

\* A rejected delivery rejects the Promise.all() of emit(); the other
\* deliveries go on, and nobody looks at what becomes of them.
throws(p) ==
    /\ sending' = [sending EXCEPT ![p] = "threw"]
    /\ emitting' = [emitting EXCEPT ![p[1]] = IF @ = "sending" THEN "threw" ELSE @]

reserveFails(p) ==
    /\ sending[p] = "reserve" /\ storeFails
    /\ throws(p)
    /\ reserved' \in {reserved, reserved \cup {p[2]}}
    /\ UNCHANGED <<active, dlqVars, replayVars, undelivered, toggles>>

\* deliverSingleWebhook() with its retries, for all chunks of the payload.
deliverWebhook(p) ==
    /\ sending[p] = "deliver"
    /\ \/ /\ sending' = [sending EXCEPT ![p] = "ok"]
          /\ UNCHANGED undelivered
       \/ /\ undelivered < MaxUndelivered
          /\ sending' = [sending EXCEPT ![p] = "clear"]
          /\ undelivered' = undelivered + 1
    /\ UNCHANGED <<active, emitting, reserved, dlqVars, replayVars, storeFaults, toggles>>

\* In the try block, or for a second time in the catch block, which rethrows.
clearWebhookDeliveryAttempt(p) ==
    /\ sending[p] \in {"clear", "clearAgain"}
    /\ reserved' = reserved \ {p[2]}
    /\ IF sending[p] = "clear"
       THEN sending' = [sending EXCEPT ![p] = "failed"] /\ UNCHANGED emitting
       ELSE throws(p)
    /\ UNCHANGED <<active, dlqVars, replayVars, undelivered, storeFaults, toggles>>

clearFails(p) ==
    /\ sending[p] \in {"clear", "clearAgain"} /\ storeFails
    /\ reserved' \in {reserved, reserved \ {p[2]}}
    /\ IF sending[p] = "clear"
       THEN sending' = [sending EXCEPT ![p] = "clearAgain"] /\ UNCHANGED emitting
       ELSE throws(p)
    /\ UNCHANGED <<active, dlqVars, replayVars, undelivered, toggles>>

\* Mutant: the failures are counted in the metrics only.
countedOnly(e) == {}

\* exhaustedResults, flattened over the webhooks
exhaustedResults(e) == {p \in Entry : p[1] = e /\ sending[p] = "failed"}

allSettled(e) == \A p \in Entry : p[1] = e => sending[p] \in {"none", "ok", "skipped", "failed"}

\* PostgresDlqStore.push() of some of the failures.  The processor skips an
\* entry that is invalid or was attempted too often: it is held.
pushed(S) ==
    /\ \E invalid \in SUBSET S :
          dlq' = [p \in Entry |-> IF p \in invalid THEN "held" ELSE IF p \in S THEN "recent" ELSE dlq[p]]
    /\ \E order \in [1..Cardinality(S) -> S] :
          /\ \A i, j \in DOMAIN order : i # j => order[i] # order[j]
          /\ failedAt' = failedAt \o order

\* The end of emit(), once every delivery has settled.
pushAll(e) ==
    /\ emitting[e] = "sending" /\ allSettled(e)
    /\ pushed(exhaustedResults(e))
    /\ emitting' = [emitting EXCEPT ![e] = "returned"]
    /\ UNCHANGED <<active, sending, reserved, replayVars, undelivered, storeFaults, toggles>>

\* A push fails: the others may have been made, and emit() rejects.
pushFails(e) ==
    /\ emitting[e] = "sending" /\ allSettled(e) /\ exhaustedResults(e) # {} /\ storeFails
    /\ \E S \in SUBSET exhaustedResults(e) : pushed(S)
    /\ emitting' = [emitting EXCEPT ![e] = "threw"]
    /\ UNCHANGED <<active, sending, reserved, replayVars, undelivered, toggles>>

emitCrashes(e) ==
    /\ \/ emitting[e] = "sending"
       \/ emitting[e] = "threw" /\ \E p \in Entry : p[1] = e /\ sending[p] \in {"reserve", "deliver", "clear", "clearAgain"}
    /\ storeFails
    /\ emitting' = [emitting EXCEPT ![e] = "crashed"]
    /\ sending' = [p \in Entry |-> IF p[1] = e THEN "none" ELSE sending[p]]
    /\ UNCHANGED <<active, reserved, dlqVars, replayVars, undelivered, toggles>>

-----------------------------------------------------------------------------
\* Mutant: an entry that was replayed already is sent once more.
eligibleTwice(p) == dlq[p] \in {"ripe", "replayed"}

\* classify(): not replayed, valid, not attempted too often, older than minAgeMs
eligible(p) == dlq[p] = "ripe"

toggle(h) ==
    /\ toggles < MaxToggles
    /\ active' = IF h \in active THEN active \ {h} ELSE active \cup {h}
    /\ toggles' = toggles + 1
    /\ UNCHANGED <<emitVars, dlqVars, replayVars, undelivered, storeFaults>>

minAgePasses(p) ==
    /\ dlq[p] = "recent"
    /\ dlq' = [dlq EXCEPT ![p] = "ripe"]
    /\ UNCHANGED <<active, emitVars, failedAt, replayVars, undelivered, storeFaults, toggles>>

\* run(), by the interval or by hand, unless a run is in progress.
run(c) ==
    /\ c \in RunCall /\ caller[c] = "idle" /\ ~runFlag
    /\ runFlag' = TRUE
    /\ caller' = [caller EXCEPT ![c] = "list"]
    /\ UNCHANGED <<active, emitVars, dlqVars, batch, sent, undelivered, storeFaults, toggles>>

\* list() is ORDER BY failed_at DESC.
newer(p, q) == \E i, j \in DOMAIN failedAt : j < i /\ failedAt[i] = p /\ failedAt[j] = q

\* The entries that a run sends: the newest of the eligible ones.
newestFirst(todo) ==
    /\ \A i \in DOMAIN todo : eligible(todo[i]) /\ \A j \in DOMAIN todo : i < j => newer(todo[i], todo[j])
    /\ \A p \in Entry : eligible(p) =>
          \/ \E i \in DOMAIN todo : todo[i] = p
          \/ /\ Len(todo) = DlqBatchSize
             /\ \A i \in DOMAIN todo : newer(todo[i], p)

list(c) ==
    /\ caller[c] = "list"
    /\ \E size \in 0..DlqBatchSize : \E todo \in [1..size -> Entry] :
          newestFirst(todo) /\ batch' = [batch EXCEPT ![c] = todo]
    /\ caller' = [caller EXCEPT ![c] = "next"]
    /\ UNCHANGED <<active, emitVars, dlqVars, runFlag, sent, undelivered, storeFaults, toggles>>

\* Mutant: the flag is reset at the end of the try block only.
listFailsKeepingFlag(c) ==
    /\ caller[c] = "list" /\ storeFails
    /\ caller' = [caller EXCEPT ![c] = "idle"]
    /\ UNCHANGED <<active, emitVars, dlqVars, runFlag, batch, sent, undelivered, toggles>>

\* list() rejects; finally { this.running = false }
listFails(c) ==
    /\ caller[c] = "list" /\ storeFails
    /\ caller' = [caller EXCEPT ![c] = "idle"]
    /\ runFlag' = FALSE
    /\ UNCHANGED <<active, emitVars, dlqVars, batch, sent, undelivered, toggles>>

\* replayEntry() and replayWebhook(): get the entry and its webhook.  The
\* first stops at an inactive webhook; neither looks at replayed_at.
replayEntry(c, p) ==
    /\ c \in Replayer /\ caller[c] = "idle" /\ dlq[p] # "none"
    /\ \/ caller' = [caller EXCEPT ![c] = "deliver"] /\ batch' = [batch EXCEPT ![c] = <<p>>]
       \/ p[2] \notin active /\ caller' = [caller EXCEPT ![c] = "done"] /\ UNCHANGED batch
    /\ UNCHANGED <<active, emitVars, dlqVars, runFlag, sent, undelivered, storeFaults, toggles>>

\* The loop of run() on to the next entry: replayEntryInternal() up to the
\* delivery, which starts with the webhook just read.
replayEntryInternal(c) ==
    /\ caller[c] = "next" /\ batch[c] # << >>
    /\ IF Head(batch[c])[2] \in active
       THEN caller' = [caller EXCEPT ![c] = "deliver"] /\ UNCHANGED batch
       ELSE batch' = [batch EXCEPT ![c] = Tail(@)] /\ UNCHANGED caller
    /\ UNCHANGED <<active, emitVars, dlqVars, runFlag, sent, undelivered, storeFaults, toggles>>

\* The webhook of an entry cannot be read: the entry failed, the run goes on.
lookupFails(c) ==
    /\ caller[c] = "next" /\ batch[c] # << >> /\ storeFails
    /\ batch' = [batch EXCEPT ![c] = Tail(@)]
    /\ UNCHANGED <<active, emitVars, dlqVars, runFlag, caller, sent, undelivered, toggles>>

\* The end of a run or of a replay.
finish(c) ==
    /\ caller[c] = "next" /\ batch[c] = << >>
    /\ caller' = [caller EXCEPT ![c] = IF c \in RunCall THEN "idle" ELSE "done"]
    /\ runFlag' = (runFlag /\ c \notin RunCall)
    /\ UNCHANGED <<active, emitVars, dlqVars, batch, sent, undelivered, storeFaults, toggles>>

\* Mutant: whatever became of the delivery, the entry is marked.
markAnyway(c) ==
    /\ caller[c] = "deliver"
    /\ caller' = [caller EXCEPT ![c] = "mark"]
    /\ \/ sent' = [sent EXCEPT ![Head(batch[c])] = @ + 1] /\ UNCHANGED undelivered
       \/ undelivered < MaxUndelivered /\ undelivered' = undelivered + 1 /\ UNCHANGED sent
    /\ UNCHANGED <<active, emitVars, dlqVars, runFlag, batch, storeFaults, toggles>>

\* attemptDelivery() and replayWebhook(), the delivery: on to markReplayed()
\* if every chunk was acknowledged, and else to the next entry.
attemptDelivery(c) ==
    /\ caller[c] = "deliver"
    /\ \/ /\ caller' = [caller EXCEPT ![c] = "mark"]
          /\ sent' = [sent EXCEPT ![Head(batch[c])] = @ + 1]
          /\ UNCHANGED <<batch, undelivered>>
       \/ /\ undelivered < MaxUndelivered
          /\ undelivered' = undelivered + 1
          /\ caller' = [caller EXCEPT ![c] = "next"]
          /\ batch' = [batch EXCEPT ![c] = Tail(@)]
          /\ UNCHANGED sent
    /\ UNCHANGED <<active, emitVars, dlqVars, runFlag, storeFaults, toggles>>

markReplayed(c) ==
    /\ caller[c] = "mark"
    /\ dlq' = [dlq EXCEPT ![Head(batch[c])] = "replayed"]
    /\ caller' = [caller EXCEPT ![c] = "next"]
    /\ batch' = [batch EXCEPT ![c] = Tail(@)]
    /\ UNCHANGED <<active, emitVars, failedAt, runFlag, sent, undelivered, storeFaults, toggles>>

\* "The duplicate is the acceptable outcome."
markFails(c) ==
    /\ caller[c] = "mark" /\ storeFails
    /\ dlq' \in {dlq, [dlq EXCEPT ![Head(batch[c])] = "replayed"]}
    /\ caller' = [caller EXCEPT ![c] = "next"]
    /\ batch' = [batch EXCEPT ![c] = Tail(@)]
    /\ UNCHANGED <<active, emitVars, failedAt, runFlag, sent, undelivered, toggles>>

\* The process of the processor dies with the runs and replays in it.
processorCrashes ==
    /\ \E c \in Caller : caller[c] \notin {"idle", "done"}
    /\ storeFails
    /\ caller' = [c \in Caller |-> IF c \in RunCall THEN "idle" ELSE IF caller[c] = "idle" THEN "idle" ELSE "done"]
    /\ batch' = [c \in Caller |-> << >>]
    /\ runFlag' = FALSE
    /\ UNCHANGED <<active, emitVars, dlqVars, sent, undelivered, toggles>>

emitStep(p) ==
    \/ reserveWebhookDelivery(p) \/ reserveFails(p) \/ deliverWebhook(p)
    \/ clearWebhookDeliveryAttempt(p) \/ clearFails(p)

\* What a run does of itself, as long as its process lives.
callStep(c) ==
    list(c) \/ replayEntryInternal(c) \/ finish(c) \/ attemptDelivery(c) \/ markReplayed(c)

WebhookNext ==
    \/ \E h \in Webhook : toggle(h)
    \/ \E e \in Emit : emit(e) \/ pushAll(e) \/ pushFails(e) \/ emitCrashes(e)
    \/ \E p \in Entry : emitStep(p) \/ minAgePasses(p) \/ \E c \in Replayer : replayEntry(c, p)
    \/ \E c \in Caller :
          run(c) \/ callStep(c) \/ listFails(c) \/ lookupFails(c) \/ markFails(c)
    \/ processorCrashes

WebhookSpec == WebhookInit /\ [][WebhookNext]_webhookVars

-----------------------------------------------------------------------------
(***************************************************************************)
(* "An entry is marked replayed only after a delivery has been observed to *)
(* succeed" (webhookDlqProcessor.ts:12), by runs, operators and the route, *)
(* with failed marks and crashes: no dead letter is closed unsent.         *)
(***************************************************************************)
MarkedWasDelivered == \A p \in Entry : dlq[p] = "replayed" => sent[p] > 0

(***************************************************************************)
(* emit() answers success for a webhook it skipped (delivery.ts:520).  As  *)
(* long as no statement fails and no process dies, the event was, or is    *)
(* being, delivered to that webhook by another emit, or is dead-lettered.  *)
(***************************************************************************)
SkipsAreCovered ==
    storeFaults = 0 =>
        \A p \in Entry : emitting[p[1]] = "returned" /\ sending[p] \in {"skipped", "failed"} =>
            \E e \in Emit :
                \/ sending[<<e, p[2]>>] \in {"deliver", "ok", "clear"}
                \/ sending[<<e, p[2]>>] = "failed" /\ emitting[e] = "sending"
                \/ dlq[<<e, p[2]>>] # "none"

(***************************************************************************)
(* "A run already in progress short-circuits concurrent callers rather     *)
(* than replaying the same entries twice" (webhookDlqProcessor.ts:30): an  *)
(* entry is sent once, and once more at most for each failed mark, each    *)
(* crash, and each call of an operator or of the route.                    *)
(***************************************************************************)
SentPerReason ==
    \A p \in Entry :
        sent[p] <= 1 + storeFaults + Cardinality({c \in Replayer : caller[c] # "idle"})

(***************************************************************************)
(* "This job is the only recovery path" (webhookDlqProcessor.ts:7): a dead *)
(* letter that the processor may send is sent in the end, if the webhooks  *)
(* stay active and deliveries fail only so often.  All webhooks: an entry  *)
(* of an inactive one takes a place of the batch in every run, so that a   *)
(* batch full of them keeps the older entries of others from their turn.   *)
(***************************************************************************)
DeadLettersRecover ==
    \A p \in Entry :
        <>[](active = Webhook) => (dlq[p] \in {"recent", "ripe"} ~> dlq[p] = "replayed")
=============================================================================
