------------------------------- MODULE Outbox -------------------------------
(***************************************************************************)
(* The transactional outbox: the table event_outbox with the statements of *)
(* OutboxRepository (src/db/outbox/repository.ts) and the publishers that  *)
(* drain it (src/db/outbox/publisher.ts).                                  *)
(*                                                                         *)
(* The poll timer of a publisher calls processBatch() without waiting for  *)
(* the previous call, so a consumer has several runs of it at a time.      *)
(* Every await of a run is a step boundary; a statement is one step.       *)
(* Events are numbered in the order of their creation.                     *)
(***************************************************************************)
EXTENDS Naturals, Sequences, FiniteSets

CONSTANTS
    Event,        \* 1..n, the rows that can be created
    AggOf,        \* AggOf[e]: aggregate_type and aggregate_id of e
    Poison,       \* events for which detectPoisonPill finds a reason
    Consumer,     \* publisher instances; each has a consumer_id of its own
    Run,          \* overlapping calls of processBatch() in one publisher
    None,         \* SQL NULL
    BatchSize,    \* config.batchSize
    LateRenewal,  \* a lease may expire although its consumer runs
    MaxCrashes, MaxStops, MaxFailures   \* bounds

ASSUME OutboxAssumption ==
    /\ IsFiniteSet(Event) /\ Event \subseteq Nat
    /\ Poison \subseteq Event
    /\ None \notin Consumer
    /\ BatchSize \in Nat \ {0}
    /\ LateRenewal \in BOOLEAN
    /\ MaxCrashes \in Nat /\ MaxStops \in Nat /\ MaxFailures \in Nat

VARIABLES
    status,     \* status[e], with "none" before the insert and "deleted" after cleanup
    owner,      \* owner[e]: consumer_id
    leased,     \* leased[e]: lease_expires_at lies in the future
    key,        \* key[e]: publish_idempotency_key is set
    reinjected, \* quarantined events whose reinjected_at is set
    consumer,   \* consumer[c]: life cycle of the publisher
    at,         \* at[c][r]: what run r of c awaits
    todo,       \* todo[c][r]: claimed events the run still has to process
    keyed,      \* keyed[c][r]: those that had a key when they were claimed
    delivered,  \* delivered[e]: how often the event reached its subscribers
    crashes, stops, failures,
    reclaimed   \* history: a publisher claimed an event another run of its own was to skip

rowVars == <<status, owner, leased, key, reinjected>>
runVars == <<at, todo, keyed>>
counters == <<crashes, stops, failures, reclaimed>>
vars == <<rowVars, consumer, runVars, delivered, counters>>

TypeOK ==
    /\ status \in [Event -> {"none", "pending", "processing", "published", "quarantined", "deleted"}]
    /\ owner \in [Event -> Consumer \cup {None}]
    /\ leased \in [Event -> BOOLEAN]
    /\ key \in [Event -> BOOLEAN]
    /\ reinjected \subseteq Event
    /\ consumer \in [Consumer -> {"new", "running", "stopping", "stopped", "crashed"}]
    /\ at \in [Consumer -> [Run -> {"idle", "claim", "next", "publish", "skip", "mark"}]]
    /\ todo \in [Consumer -> [Run -> Seq(Event)]]
    /\ keyed \in [Consumer -> [Run -> SUBSET Event]]
    /\ delivered \in [Event -> Nat]

Init ==
    /\ status = [e \in Event |-> "none"]
    /\ owner = [e \in Event |-> None]
    /\ leased = [e \in Event |-> FALSE]
    /\ key = [e \in Event |-> FALSE]
    /\ reinjected = {}
    /\ consumer = [c \in Consumer |-> "new"]
    /\ at = [c \in Consumer |-> [r \in Run |-> "idle"]]
    /\ todo = [c \in Consumer |-> [r \in Run |-> <<>>]]
    /\ keyed = [c \in Consumer |-> [r \in Run |-> {}]]
    /\ delivered = [e \in Event |-> 0]
    /\ crashes = 0 /\ stops = 0 /\ failures = 0 /\ reclaimed = FALSE

-----------------------------------------------------------------------------
(* The life of a row outside the publishers.                               *)

isNext(e) == status[e] = "none" /\ \A d \in Event : d < e => status[d] # "none"

\* create(): the insert becomes visible with the business transaction.
create(e) ==
    /\ isNext(e)
    /\ status' = [status EXCEPT ![e] = "pending"]
    /\ UNCHANGED <<owner, leased, key, reinjected, consumer, runVars, delivered, counters>>

\* reinjectQuarantined(): a new row of the same aggregate, with another payload.
reinject(q, e) ==
    /\ status[q] = "quarantined" /\ q \notin reinjected
    /\ isNext(e) /\ AggOf[e] = AggOf[q]
    /\ status' = [status EXCEPT ![e] = "pending"]
    /\ reinjected' = reinjected \cup {q}
    /\ UNCHANGED <<owner, leased, key, consumer, runVars, delivered, counters>>

\* cleanup() of a published row past its retention, by any running publisher.
cleanup(e) ==
    /\ \E c \in Consumer : consumer[c] = "running"
    /\ status[e] = "published"
    /\ status' = [status EXCEPT ![e] = "deleted"]
    /\ UNCHANGED <<owner, leased, key, reinjected, consumer, runVars, delivered, counters>>

\* Time passes lease_expires_at.  renewLease() comes twice per lease, so the
\* lease of a running consumer expires only if the renewal is late.
leaseExpires(e) ==
    /\ status[e] = "processing" /\ leased[e]
    /\ LateRenewal \/ consumer[owner[e]] # "running"
    /\ leased' = [leased EXCEPT ![e] = FALSE]
    /\ UNCHANGED <<status, owner, key, reinjected, consumer, runVars, delivered, counters>>

-----------------------------------------------------------------------------
(* Life cycle of a publisher.                                               *)

start(c) ==
    /\ consumer[c] = "new"
    /\ consumer' = [consumer EXCEPT ![c] = "running"]
    /\ UNCHANGED <<rowVars, runVars, delivered, counters>>

renewLease(c) ==
    /\ consumer[c] = "running"
    /\ \E e \in Event : owner[e] = c /\ status[e] = "processing" /\ ~leased[e]
    /\ leased' = [e \in Event |-> leased[e] \/ (owner[e] = c /\ status[e] = "processing")]
    /\ UNCHANGED <<status, owner, key, reinjected, consumer, runVars, delivered, counters>>

\* stop() clears the timers; the runs in flight are not told.
stop(c) ==
    /\ stops < MaxStops /\ stops' = stops + 1
    /\ consumer[c] = "running"
    /\ consumer' = [consumer EXCEPT ![c] = "stopping"]
    /\ UNCHANGED <<rowVars, runVars, delivered, crashes, failures, reclaimed>>

\* releaseClaims(), the last statement of stop(), also clears the keys.
releaseClaims(c) ==
    /\ consumer[c] = "stopping"
    /\ consumer' = [consumer EXCEPT ![c] = "stopped"]
    /\ LET mine == {e \in Event : owner[e] = c /\ status[e] = "processing"}
       IN  /\ status' = [e \in Event |-> IF e \in mine THEN "pending" ELSE status[e]]
           /\ owner' = [e \in Event |-> IF e \in mine THEN None ELSE owner[e]]
           /\ leased' = [e \in Event |-> leased[e] /\ e \notin mine]
           /\ key' = [e \in Event |-> key[e] /\ e \notin mine]
    /\ UNCHANGED <<reinjected, runVars, delivered, counters>>

\* The process dies.  A restarted process is another consumer.
crash(c) ==
    /\ crashes < MaxCrashes /\ crashes' = crashes + 1
    /\ consumer[c] \in {"running", "stopping", "stopped"}
    /\ consumer' = [consumer EXCEPT ![c] = "crashed"]
    /\ at' = [at EXCEPT ![c] = [r \in Run |-> "idle"]]
    /\ todo' = [todo EXCEPT ![c] = [r \in Run |-> <<>>]]
    /\ keyed' = [keyed EXCEPT ![c] = [r \in Run |-> {}]]
    /\ UNCHANGED <<rowVars, delivered, stops, failures, reclaimed>>

-----------------------------------------------------------------------------
(* processBatch().                                                          *)

\* The poll timer fires: the check of this.running.
processBatch(c, r) ==
    /\ consumer[c] = "running"
    /\ at[c][r] = "idle"
    /\ at' = [at EXCEPT ![c][r] = "claim"]
    /\ UNCHANGED <<rowVars, consumer, todo, keyed, delivered, counters>>

\* Mutant: a lease that ran out is never taken over.
claimablePending == {e \in Event : status[e] = "pending"}

claimable == {e \in Event : status[e] = "pending" \/ (status[e] = "processing" /\ ~leased[e])}

\* ORDER BY created_at ASC LIMIT $1.
oldest(S) == {e \in S : Cardinality({d \in S : d < e}) < BatchSize}

\* groupByAggregate() of the returned rows, whose order UPDATE ... RETURNING does
\* not promise: every aggregate is processed in one stretch.
groupByAggregate(S) ==
    LET D == 1..Cardinality(S)
        injective(s) == \A i, j \in D : s[i] = s[j] => i = j
        grouped(s) == \A i, j, k \in D :
            i < j /\ j < k /\ AggOf[s[i]] = AggOf[s[k]] => AggOf[s[j]] = AggOf[s[i]]
    IN  {s \in [D -> S] : injective(s) /\ grouped(s)}

claimEvents(c, r) ==
    /\ at[c][r] = "claim"
    /\ LET S == oldest(claimable)
       IN  /\ status' = [e \in Event |-> IF e \in S THEN "processing" ELSE status[e]]
           /\ owner' = [e \in Event |-> IF e \in S THEN c ELSE owner[e]]
           /\ leased' = [e \in Event |-> leased[e] \/ e \in S]
           /\ \E rows \in groupByAggregate(S) : todo' = [todo EXCEPT ![c][r] = rows]
           /\ keyed' = [keyed EXCEPT ![c][r] = {e \in S : key[e]}]
           /\ at' = [at EXCEPT ![c][r] = IF S = {} THEN "idle" ELSE "next"]
           /\ reclaimed' = (reclaimed \/ \E q \in Run : at[c][q] = "skip" /\ Head(todo[c][q]) \in S)
    /\ UNCHANGED <<key, reinjected, consumer, delivered, crashes, stops, failures>>

\* The head of the run is done: go on with the next event or end.
advance(c, r) ==
    /\ todo' = [todo EXCEPT ![c][r] = Tail(@)]
    /\ at' = [at EXCEPT ![c][r] = IF Len(todo[c][r]) = 1 THEN "idle" ELSE "next"]
    /\ keyed' = [keyed EXCEPT ![c][r] = IF Len(todo[c][r]) = 1 THEN {} ELSE @]

\* An error leaves processBatch(); the rest of the batch is not processed.
abandon(c, r) ==
    /\ todo' = [todo EXCEPT ![c][r] = <<>>]
    /\ at' = [at EXCEPT ![c][r] = "idle"]
    /\ keyed' = [keyed EXCEPT ![c][r] = {}]

owns(c, e) == status[e] = "processing" /\ owner[e] = c

\* Mutant: the statement does not compare consumer_id.
markAnyOwners(c, r, e) ==
    IF status[e] = "processing"
    THEN /\ status' = [status EXCEPT ![e] = "published"]
         /\ owner' = [owner EXCEPT ![e] = None]
         /\ leased' = [leased EXCEPT ![e] = FALSE]
         /\ key' = [key EXCEPT ![e] = FALSE]
         /\ advance(c, r)
    ELSE abandon(c, r) /\ UNCHANGED <<status, owner, leased, key>>

\* markPublished() throws unless it updates one row.
markPublished(c, r, e) ==
    IF owns(c, e)
    THEN /\ status' = [status EXCEPT ![e] = "published"]
         /\ owner' = [owner EXCEPT ![e] = None]
         /\ leased' = [leased EXCEPT ![e] = FALSE]
         /\ key' = [key EXCEPT ![e] = FALSE]
         /\ advance(c, r)
    ELSE abandon(c, r) /\ UNCHANGED <<status, owner, leased, key>>

\* processEvent() on a poison pill: quarantine() moves the row, whoever owns it.
quarantine(c, r) ==
    /\ at[c][r] = "next"
    /\ LET e == Head(todo[c][r])
       IN  /\ e \in Poison
           /\ status' = [status EXCEPT ![e] = "quarantined"]
           /\ owner' = [owner EXCEPT ![e] = None]
           /\ leased' = [leased EXCEPT ![e] = FALSE]
           /\ key' = [key EXCEPT ![e] = FALSE]
    /\ advance(c, r)
    /\ UNCHANGED <<reinjected, consumer, delivered, counters>>

\* The claimed row already had a key: it counts as published.
skipKeyed(c, r) ==
    /\ at[c][r] = "next"
    /\ LET e == Head(todo[c][r])
       IN e \notin Poison /\ e \in keyed[c][r] /\ markPublished(c, r, e)
    /\ UNCHANGED <<reinjected, consumer, delivered, counters>>

\* Mutant: publish_idempotency_key IS NULL is not required.
trySetKeyAgain(c, r) ==
    /\ at[c][r] = "next"
    /\ LET e == Head(todo[c][r])
       IN  /\ e \notin Poison /\ e \notin keyed[c][r]
           /\ key' = [key EXCEPT ![e] = @ \/ owns(c, e)]
           /\ at' = [at EXCEPT ![c][r] = IF owns(c, e) THEN "publish" ELSE "skip"]
    /\ UNCHANGED <<status, owner, leased, reinjected, consumer, todo, keyed, delivered, counters>>

trySetPublishIdempotencyKey(c, r) ==
    /\ at[c][r] = "next"
    /\ LET e == Head(todo[c][r])
           acquired == owns(c, e) /\ ~key[e]
       IN  /\ e \notin Poison /\ e \notin keyed[c][r]
           /\ key' = [key EXCEPT ![e] = @ \/ acquired]
           /\ at' = [at EXCEPT ![c][r] = IF acquired THEN "publish" ELSE "skip"]
    /\ UNCHANGED <<status, owner, leased, reinjected, consumer, todo, keyed, delivered, counters>>

\* The key was not acquired: the event counts as published.
skipUnacquired(c, r) ==
    /\ at[c][r] = "skip"
    /\ markPublished(c, r, Head(todo[c][r]))
    /\ UNCHANGED <<reinjected, consumer, delivered, counters>>

deliver(e) == delivered' = [delivered EXCEPT ![e] = @ + 1]

publish(c, r) ==
    /\ at[c][r] = "publish"
    /\ deliver(Head(todo[c][r]))
    /\ at' = [at EXCEPT ![c][r] = "mark"]
    /\ UNCHANGED <<rowVars, consumer, todo, keyed, counters>>

\* publisher.publish() rejects, with or without having reached the subscribers.
\* handlePublishFailure() passes a Boolean where markFailed() expects the
\* consumer, so markFailed() throws without having changed the row.
publishFails(c, r) ==
    /\ failures < MaxFailures /\ failures' = failures + 1
    /\ at[c][r] = "publish"
    /\ deliver(Head(todo[c][r])) \/ UNCHANGED delivered
    /\ abandon(c, r)
    /\ UNCHANGED <<rowVars, consumer, crashes, stops, reclaimed>>

\* After the delivery.  If the row is no longer ours, handlePublishFailure()
\* throws as well.
mark(c, r) ==
    /\ at[c][r] = "mark"
    /\ markPublished(c, r, Head(todo[c][r]))
    /\ UNCHANGED <<reinjected, consumer, delivered, counters>>

-----------------------------------------------------------------------------
runStep(c, r) ==
    \/ claimEvents(c, r)
    \/ quarantine(c, r)
    \/ skipKeyed(c, r)
    \/ trySetPublishIdempotencyKey(c, r)
    \/ skipUnacquired(c, r)
    \/ publish(c, r)
    \/ mark(c, r)

Next ==
    \/ \E e \in Event : create(e) \/ cleanup(e) \/ leaseExpires(e)
    \/ \E q, e \in Event : reinject(q, e)
    \/ \E c \in Consumer :
          \/ start(c) \/ renewLease(c) \/ stop(c) \/ releaseClaims(c) \/ crash(c)
          \/ \E r \in Run : processBatch(c, r) \/ runStep(c, r) \/ publishFails(c, r)

Spec == Init /\ [][Next]_vars

-----------------------------------------------------------------------------
\* The publish idempotency key prevents duplicate emissions: no event is
\* delivered twice, through crashes, failed publishes, reclaims of expired
\* leases and overlapping batches.
NoDuplicateDelivery == \A e \in Event : delivered[e] <= 1

TerminalKept ==
    \A e \in Event :
        /\ status[e] = "published" => status'[e] \in {"published", "deleted"}
        /\ status[e] \in {"quarantined", "deleted"} => status'[e] = status[e]

\* A row never leaves a terminal state; cleanup removes published rows only.
TerminalStays == [][TerminalKept]_vars

\* Domain events are never lost: a row marked as published was delivered, or
\* the run that holds its key is about to deliver it.
PublishedIsDelivered ==
    \A e \in Event : status[e] \in {"published", "deleted"} =>
        \/ delivered[e] > 0
        \/ \E c \in Consumer, r \in Run : at[c][r] = "publish" /\ Head(todo[c][r]) = e

\* Handing rows over loses nothing: until a publisher crashes or a publish
\* fails, stops, expired leases and overlapping batches never mark an
\* undelivered row as published.  One hand-over does: markPublished() knows
\* its row by consumer_id alone, so that a run about to skip an event it lost
\* marks it if another run of its publisher has claimed it again meanwhile.
OnlyFaultsLose == crashes + failures = 0 /\ ~reclaimed => PublishedIsDelivered

\* The timers of a running publisher fire, awaited statements are answered and
\* leases that nobody renews run out.
Fairness ==
    /\ \A e \in Event : WF_vars(leaseExpires(e))
    /\ \A c \in Consumer : /\ WF_vars(start(c)) /\ WF_vars(releaseClaims(c))
                           /\ \A r \in Run : /\ WF_vars(processBatch(c, r))
                                             /\ WF_vars(runStep(c, r))

FairSpec == Spec /\ Fairness

\* As long as some publisher keeps running, every event is published or
\* quarantined in the end: no claim is held for ever.
EventsSettle ==
    (\E c \in Consumer : <>[](consumer[c] = "running")) =>
        \A e \in Event : status[e] = "pending" ~> status[e] \in {"published", "quarantined", "deleted"}
=============================================================================
