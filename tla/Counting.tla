------------------------------ MODULE Counting ------------------------------
(***************************************************************************)
(* What the proofs need to know of the number of elements of the subsets   *)
(* of a set.  Every finite set has it: CountsWhenFinite in RoundProofs.    *)
(***************************************************************************)
EXTENDS Integers, FiniteSets

SubsetsCount(S) ==
    \A a \in SUBSET S :
        /\ Cardinality(a) \in Nat
        /\ Cardinality(a) = 0 <=> a = {}
        /\ \A b \in SUBSET S :
              /\ a \subseteq b => Cardinality(a) <= Cardinality(b)
              /\ a \cap b = {} =>
                    Cardinality(a \cup b) = Cardinality(a) + Cardinality(b)
=============================================================================
