--------------------------- MODULE MCIdempotency ---------------------------
(***************************************************************************)
(* Idempotency with up to three requests of one key, the first two of the  *)
(* same actor with the same payload.                                       *)
(***************************************************************************)
EXTENDS Idempotency

CONSTANTS q1, q2, q3, h1, h2

OneRequest == {q1}
TwoRequests == {q1, q2}
ThreeRequests == {q1, q2, q3}
Hashes == [r \in ThreeRequests |-> IF r = q3 THEN h2 ELSE h1]
=============================================================================
