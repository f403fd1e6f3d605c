---------------------------- MODULE MCWalkForward ----------------------------
(* Instances of WalkForward for TLC. *)
EXTENDS WalkForward

Sorted(S) ==
    [k \in 1..Cardinality(S) |->
        CHOOSE x \in S : Cardinality({y \in S : y <= x}) = k]

\* Every matrix over the calendar: any session may be missing.
MCMatrices == {Sorted(S) : S \in SUBSET Calendar \ {{}}}
===============================================================================
