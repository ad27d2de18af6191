----------------------------- MODULE MCPayments -----------------------------
(***************************************************************************)
(* Two events of one aggregate, two publishers and two overlapping batches *)
(* of each (MCOutbox); two transaction hashes and two overlapping payout   *)
(* calls; two overlapping reconciliation runs over two settlements; a      *)
(* wallet and two changes of it.  Only one part moves, so that the parts   *)
(* can share their model values and the permutations stay few.             *)
(***************************************************************************)
EXTENDS Payments, MCOutbox

TwoCallers == TwoConsumers
TwoRows == TwoRuns
=============================================================================
