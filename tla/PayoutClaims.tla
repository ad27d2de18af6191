---------------------------- MODULE PayoutClaims ----------------------------
(***************************************************************************)
(* What the settlements table promises about payouts: a payout is claimed  *)
(* by whoever records its transaction hash first, it is paid at most once  *)
(* and by its claimant, and one that is dropped is never taken up again.   *)
(***************************************************************************)
CONSTANT Hash

VARIABLE stage

ClaimsInit == stage = [h \in Hash |-> "new"]

Move(h, from, to) ==
    /\ stage[h] = from
    /\ stage' = [stage EXCEPT ![h] = to]

Claim(h) == Move(h, "new", "claimed")
Pay(h) == Move(h, "claimed", "paid")
Drop(h) == Move(h, "new", "dropped") \/ Move(h, "claimed", "dropped")

ClaimsNext == \E h \in Hash : Claim(h) \/ Pay(h) \/ Drop(h)

ClaimsSpec == ClaimsInit /\ [][ClaimsNext]_stage
=============================================================================
