------------------------------ MODULE Counting ------------------------------
(***************************************************************************)
(* What the proofs use of finite sets.  A proof module assumes what it     *)
(* needs of this, and proves it from the library as its last step: the     *)
(* library then weighs on none of its other steps.                         *)
(***************************************************************************)
EXTENDS Integers, FiniteSets

EmptyCount == IsFiniteSet({}) /\ Cardinality({}) = 0

SubsetCount ==
    \A S : IsFiniteSet(S) =>
        /\ Cardinality(S) \in Nat /\ (Cardinality(S) = 0 => S = {})
        /\ \A T \in SUBSET S : IsFiniteSet(T) /\ Cardinality(T) \in Nat
                               /\ Cardinality(T) <= Cardinality(S)

AddCount ==
    \A S, x : IsFiniteSet(S) /\ x \notin S =>
        IsFiniteSet(S \cup {x}) /\ Cardinality(S \cup {x}) = Cardinality(S) + 1

RemoveCount ==
    \A S : \A x \in S : IsFiniteSet(S) =>
        IsFiniteSet(S \ {x}) /\ Cardinality(S \ {x}) = Cardinality(S) - 1

UnionCount ==
    \A S, T : IsFiniteSet(S) /\ IsFiniteSet(T) /\ S \cap T = {} =>
        IsFiniteSet(S \cup T) /\ Cardinality(S \cup T) = Cardinality(S) + Cardinality(T)

RangeCount ==
    \A n \in Nat : /\ IsFiniteSet(0 .. n - 1) /\ Cardinality(0 .. n - 1) = n
                  /\ IsFiniteSet(1 .. n) /\ Cardinality(1 .. n) = n

\* A one-to-one map counts its values.
ImageCount ==
    \A S, T : \A f \in [S -> T] :
        /\ IsFiniteSet(S)
        /\ \A x, y \in S : f[x] = f[y] => x = y
        /\ \A t \in T : \E x \in S : f[x] = t
        => IsFiniteSet(T) /\ Cardinality(T) = Cardinality(S)

PairCount ==
    \A S, T : IsFiniteSet(S) /\ IsFiniteSet(T) =>
        IsFiniteSet(S \X T) /\ Cardinality(S \X T) = Cardinality(S) * Cardinality(T)

LeastOne == \A S \in SUBSET Nat : S # {} => \E i \in S : \A j \in S : i <= j

=============================================================================
