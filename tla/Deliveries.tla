----------------------------- MODULE Deliveries -----------------------------
(***************************************************************************)
(* What must be delivered in the end, and not twice: the answers to        *)
(* requests that carry an idempotency key, and the events of the outbox.   *)
(* The parts share no state, and focus is the one that moves.  For TLC:    *)
(* three requests of one key (MCIdempotency); three events, one of them    *)
(* poisoned, and two publishers (MCOutbox).                                *)
(***************************************************************************)
EXTENDS MCIdempotency, MCOutbox

VARIABLE focus

deliveriesVars == <<idempotencyVars, vars, focus>>

DeliveriesInit ==
    /\ IdempotencyInit /\ Init
    /\ focus \in {"requests", "outbox"}

RequestStep == focus = "requests" /\ IdempotencyNext /\ UNCHANGED <<vars, focus>>

OutboxStep == focus = "outbox" /\ Next /\ UNCHANGED <<idempotencyVars, focus>>

DeliveriesNext == RequestStep \/ OutboxStep

(***************************************************************************)
(* Of the requests: the database answers, handlers settle, and a save that *)
(* was started ends.  Of the outbox: its Fairness.                         *)
(***************************************************************************)
DeliveriesFairness ==
    /\ \A r \in Request :
          /\ WF_idempotencyVars(focus = "requests" /\ findByKey(r))
          /\ WF_idempotencyVars(focus = "requests" /\ \E k \in Code : handler(r, k))
    /\ WF_idempotencyVars(focus = "requests" /\ \E s \in saves : save(s))
    /\ \A e \in Event : WF_vars(focus = "outbox" /\ leaseExpires(e))
    /\ \A c \in Consumer :
          /\ WF_vars(focus = "outbox" /\ start(c)) /\ WF_vars(focus = "outbox" /\ releaseClaims(c))
          /\ \A r \in Run : WF_vars(focus = "outbox" /\ processBatch(c, r)) /\ WF_vars(focus = "outbox" /\ runStep(c, r))

DeliveriesSpec == DeliveriesInit /\ [][DeliveriesNext]_deliveriesVars /\ DeliveriesFairness
=============================================================================
