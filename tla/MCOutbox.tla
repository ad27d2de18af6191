------------------------------ MODULE MCOutbox ------------------------------
(* Instances of Outbox.  Events 1 and 2 belong to one aggregate, 3 to another. *)
EXTENDS Outbox, TLC

CONSTANTS c1, c2, r1, r2, a, b

TwoEvents == 1..2
ThreeEvents == 1..3
Aggregates == <<a, a, b>>
OneConsumer == {c1}
TwoConsumers == {c1, c2}
OneRun == {r1}
TwoRuns == {r1, r2}
NoPoison == {}
PoisonFirst == {1}
Symmetry == Permutations({c1, c2}) \cup Permutations({r1, r2})
=============================================================================
