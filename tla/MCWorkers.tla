------------------------------ MODULE MCWorkers ------------------------------
(***************************************************************************)
(* Two replicas with a connection each (MCWorkerLease), three deliveries   *)
(* of one message, and two replicas, one of which shuts down with three    *)
(* clients.  An event is emitted twice to a webhook, so that there are two *)
(* dead letters for batches of one; run() is called twice at a time, and   *)
(* there is one replay by hand.                                            *)
(***************************************************************************)
EXTENDS Workers, MCWorkerLease

CONSTANTS q1, q2, q3

Deliveries == {q1, q2, q3}
Replicas == {q1, q2}
ThisReplica == q1
TwoEmits == {q1, q2}
OneWebhook == {q1}
TwoRunCalls == {q1, q2}
OneReplay == {q3}
==============================================================================
