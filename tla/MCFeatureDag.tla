----------------------------- MODULE MCFeatureDag -----------------------------
(* Instances of FeatureDag for TLC. *)
EXTENDS FeatureDag

\* Every graph over three features, one of which may mention a fourth that is not
\* registered, and every graph over four in which 4 depends on the others and
\* nothing depends on 4.
MCRegistries ==
    [1..3 -> SUBSET (1..3)]
        \cup {[g EXCEPT ![3] = @ \cup {4}] : g \in [1..3 -> SUBSET (1..3)]}
        \cup {g \in [1..4 -> SUBSET (1..3)] : \A f \in 1..4 : f \notin g[f]}

MCWants == {{1}, {3}, {4}, {2, 3}, {3, 4}}

\* A chain, and a feature that reads two others.
MCReads == <<{}, {1}, {2}, {1, 3}>>
===============================================================================
