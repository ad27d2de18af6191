----------------------------- MODULE MCServices -----------------------------
(***************************************************************************)
(* Small instances: the outbox job over twenty terms; two slash requests   *)
(* with four voters and up to three signers, so that there are more voters *)
(* than signers; two disputes and two texts; a proposal with two signers,  *)
(* one person who is no signer, and two calls at a time; an organisation   *)
(* with two owners, one of whom may have a second row, and two admins;     *)
(* two workers that deliver a notification in two tries; three bond        *)
(* operations and two handlers; three calls through the breaker; two       *)
(* writers of audit logs and three rows; two callers of a cached key that  *)
(* is updated once.                                                        *)
(***************************************************************************)
EXTENDS Services, TLC

CONSTANTS r1, r2, v1, v2, v3, v4, d1, d2, t1, t2, none, s1, s2, p1, c1, c2, w1, w2, w3,
          m1, m2, m3, u1, u2

Requests == {r1, r2}
Voters == {v1, v2, v3, v4}
Filed == {d1, d2}
Texts == {t1, t2}
TwoSigners == {s1, s2}
ThreePersons == {s1, s2, p1}
TwoCalls == {c1, c2}
ThreeCalls == {w1, w2, w3}
MemberRows == {m1, m2, m3}
Users == {u1, u2}
RowUser == [m \in MemberRows |-> IF m = m3 THEN u2 ELSE u1]
Owners == {m1, m3}

\* Only one part moves, so that the parts can share their model values, and
\* the group of permutations stays small.
Symmetry == Permutations(TwoSigners) \cup Permutations(TwoCalls)
=============================================================================
