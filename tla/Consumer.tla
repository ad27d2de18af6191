------------------------------ MODULE Consumer ------------------------------
(***************************************************************************)
(* IdempotentConsumer.process() (src/services/idempotentConsumer.ts) for   *)
(* one message that the Horizon withdrawal listener may be handed more     *)
(* than once: the deliveries of one process, which share its inflight map, *)
(* and the stored record.  A query is answered at one moment and its       *)
(* continuation runs later.                                                *)
(***************************************************************************)
EXTENDS Naturals

CONSTANTS
    Delivery,          \* deliveries of the message
    NoDelivery,
    MaxConsumerFaults  \* bound on crashes, failed saves and expiries together

ASSUME NoDeliveryApart == NoDelivery \notin Delivery /\ MaxConsumerFaults \in Nat

VARIABLES
    processed,       \* the record of a success exists
    inflight,        \* inflight.get(messageId): the delivery that executes
    delivery,        \* delivery[d]: where process() is
    handled,         \* handlers that succeeded
    staleReads,      \* deliveries that went on after a lookup made out of date
    consumerFaults

consumerVars == <<processed, inflight, delivery, handled, staleReads, consumerFaults>>

Executing == {"handler", "save", "delete"}

\* Deliveries have their types.
ConsumerTypeOK ==
    /\ processed \in BOOLEAN /\ inflight \in Delivery \cup {NoDelivery}
    /\ delivery \in [Delivery -> {"new", "found", "missed", "joined", "succeeded", "failed"} \cup Executing]
    /\ handled \in Nat /\ staleReads \in Nat /\ consumerFaults \in Nat

ConsumerInit ==
    /\ processed = FALSE /\ inflight = NoDelivery
    /\ delivery = [d \in Delivery |-> "new"]
    /\ handled = 0 /\ staleReads = 0 /\ consumerFaults = 0

moveTo(d, place) == delivery' = [delivery EXCEPT ![d] = place]

\* findByKey() is answered.
findRecord(d) ==
    /\ delivery[d] = "new"
    /\ moveTo(d, IF processed THEN "found" ELSE "missed")
    /\ UNCHANGED <<processed, inflight, handled, staleReads, consumerFaults>>

\* Mutant: the inflight map is not consulted.
startAnyway(d) == moveTo(d, "handler") /\ inflight' = d

\* After a miss, join the execution in flight or begin one.
joinOrStart(d) ==
    IF inflight # NoDelivery
    THEN moveTo(d, "joined") /\ UNCHANGED inflight
    ELSE moveTo(d, "handler") /\ inflight' = d

\* The continuation of the lookup.
resume(d) ==
    \/ /\ delivery[d] = "found" /\ moveTo(d, "succeeded")
       /\ UNCHANGED <<processed, inflight, handled, staleReads, consumerFaults>>
    \/ /\ delivery[d] = "missed" /\ joinOrStart(d)
       /\ staleReads' = IF processed /\ inflight = NoDelivery THEN staleReads + 1 ELSE staleReads
       /\ UNCHANGED <<processed, handled, consumerFaults>>

\* handler() resolves or rejects.
handlerEnds(d) ==
    /\ delivery[d] = "handler"
    /\ \E place \in {"save", "delete"} :
          /\ moveTo(d, place)
          /\ handled' = IF place = "save" THEN handled + 1 ELSE handled
    /\ UNCHANGED <<processed, inflight, staleReads, consumerFaults>>

\* Mutant: the entry of the map is kept.
endLeaking(d, outcome) ==
    /\ delivery' = [e \in Delivery |-> IF e = d THEN outcome ELSE delivery[e]]
    /\ UNCHANGED inflight

\* The execution of d returns: its entry of the map is deleted, and the
\* deliveries that joined it have the same result.
endExecution(d, outcome) ==
    /\ delivery' = [e \in Delivery |-> IF e = d \/ delivery[e] = "joined" THEN outcome ELSE delivery[e]]
    /\ inflight' = NoDelivery

saveRecord(d) ==
    /\ delivery[d] = "save"
    /\ processed' = TRUE
    /\ endExecution(d, "succeeded")
    /\ UNCHANGED <<handled, staleReads, consumerFaults>>

\* save() rejects, before or after the record is stored.
saveFails(d) ==
    /\ delivery[d] = "save" /\ consumerFaults < MaxConsumerFaults
    /\ processed' \in {processed, TRUE}
    /\ moveTo(d, "delete")
    /\ consumerFaults' = consumerFaults + 1
    /\ UNCHANGED <<inflight, handled, staleReads>>

\* delete(messageId), whose own failure is ignored.
deleteRecord(d) ==
    /\ delivery[d] = "delete"
    /\ processed' \in {FALSE, processed}
    /\ endExecution(d, "failed")
    /\ UNCHANGED <<handled, staleReads, consumerFaults>>

\* The listener is handed the message again.
redeliver(d) ==
    /\ delivery[d] = "failed" /\ moveTo(d, "new")
    /\ UNCHANGED <<processed, inflight, handled, staleReads, consumerFaults>>

\* The process restarts with an empty map, and is handed the message again.
consumerCrashes ==
    /\ consumerFaults < MaxConsumerFaults
    /\ consumerFaults' = consumerFaults + 1
    /\ inflight' = NoDelivery
    /\ delivery' = [d \in Delivery |-> IF delivery[d] = "succeeded" THEN "succeeded" ELSE "new"]
    /\ UNCHANGED <<processed, handled, staleReads>>

\* ttlSeconds pass.
recordExpires ==
    /\ processed /\ consumerFaults < MaxConsumerFaults
    /\ processed' = FALSE /\ consumerFaults' = consumerFaults + 1
    /\ UNCHANGED <<inflight, delivery, handled, staleReads>>

deliveryStep(d) ==
    findRecord(d) \/ resume(d) \/ handlerEnds(d) \/ saveRecord(d) \/ deleteRecord(d)

ConsumerNext ==
    \/ consumerCrashes \/ recordExpires
    \/ \E d \in Delivery : deliveryStep(d) \/ saveFails(d) \/ redeliver(d)

ConsumerSpec == ConsumerInit /\ [][ConsumerNext]_consumerVars

(***************************************************************************)
(* The handler of a message succeeds once, and once more at most for each  *)
(* crash, failed save or expiry, and for each delivery whose lookup was    *)
(* answered before the save of the execution that it missed                *)
(* (idempotentConsumer.ts:60 reads the map after the await of line 50).    *)
(***************************************************************************)
HandledOncePerFault == handled <= 1 + consumerFaults + staleReads

(***************************************************************************)
(* In one process no two handlers of a message run at once, whatever the   *)
(* lookups returned (the check and the set of the inflight map).           *)
(***************************************************************************)
OneHandlerAtATime ==
    \A d, e \in Delivery : delivery[d] \in Executing /\ delivery[e] \in Executing => d = e

\* Every delivery is answered, those that wait for another's execution too,
\* as the finally block of line 93 makes sure.
DeliveriesAnswered ==
    \A d \in Delivery : delivery[d] = "joined" ~> delivery[d] \in {"succeeded", "failed", "new"}
=============================================================================
