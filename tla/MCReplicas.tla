----------------------------- MODULE MCReplicas -----------------------------
(***************************************************************************)
(* Two replicas whose pools can have two connections open each             *)
(* (MCWorkerLease); three keys and two generations of a key at once; two   *)
(* requests that import one of two files of three rows under one key; two  *)
(* callers that run a backfill, up to four times, over rows 2 to 4 in      *)
(* batches of two.                                                         *)
(***************************************************************************)
EXTENDS Replicas, MCWorkerLease

TwoCalls == {w1, w2}
TwoFiles == {"first", "second"}
=============================================================================
