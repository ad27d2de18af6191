------------------------------ MODULE SetFacts ------------------------------
(***************************************************************************)
(* What the proofs use of the library's theorems on finite sets.  Their    *)
(* lemmas take it as a hypothesis, which the last section of each module   *)
(* of proofs discharges from FiniteSetTheorems.                            *)
(***************************************************************************)
EXTENDS Integers, FiniteSets

EmptyFact == IsFiniteSet({}) /\ Cardinality({}) = 0

CountFact == \A S : IsFiniteSet(S) => Cardinality(S) \in Nat /\ (Cardinality(S) = 0 => S = {})

SingletonFact == \A x : Cardinality({x}) = 1 /\ IsFiniteSet({x})

SubsetFact ==
    \A S : IsFiniteSet(S) => \A T \in SUBSET S : IsFiniteSet(T) /\ Cardinality(T) <= Cardinality(S)

AddFact ==
    \A S : IsFiniteSet(S) => \A x : x \notin S =>
        IsFiniteSet(S \cup {x}) /\ Cardinality(S \cup {x}) = Cardinality(S) + 1

RemoveFact ==
    \A S : IsFiniteSet(S) => \A x \in S : Cardinality(S \ {x}) = Cardinality(S) - 1

ProductFact == \A S, T : IsFiniteSet(S) /\ IsFiniteSet(T) => IsFiniteSet(S \X T)

FiniteSetFacts ==
    EmptyFact /\ CountFact /\ SingletonFact /\ SubsetFact /\ AddFact /\ RemoveFact /\ ProductFact
=============================================================================
