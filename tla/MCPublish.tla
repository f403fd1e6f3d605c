------------------------------ MODULE MCPublish ------------------------------
(* Instances of Publish for TLC. *)
EXTENDS Publish, TLC

CONSTANTS f1, b1, b2, k1, k2

MCTarget ==
    [r \in Run |-> CASE r = f1 -> "features"
                     [] r \in {b1, b2} -> "labels"
                     [] r \in {k1, k2} -> "ranks"]

\* The second rebuild makes labels that tie at a cut and features that lead to
\* infinite scores: neither the label nor the rank frame validates.
MCRefused == {<<"labels", 2>>, <<"ranks", 2>>}

\* The runs of one command differ only in their names.
RunSymmetry ==
    {g @@ h : g \in Permutations({b1, b2}), h \in Permutations({k1, k2})}
===============================================================================
