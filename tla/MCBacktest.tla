------------------------------ MODULE MCBacktest ------------------------------
(* Instances of Backtest for TLC. *)
EXTENDS Backtest, TLC

Sorted(S) ==
    [k \in 1..Cardinality(S) |->
        CHOOSE x \in S : Cardinality({y \in S : y <= x}) = k]

\* Labels reach to the last session but Horizon; the matrix may be short, and
\* may miss any one session that has a label.
Labelled == 0..LastSession - Horizon

MCMatrices ==
    {Sorted(Labelled), Sorted(0..2)} \cup {Sorted(Labelled \ {x}) : x \in Labelled}

\* At most one missing opening price.
MCGaps == {{}} \cup {{g} : g \in Stock \X Calendar}

AllStocks == {Stock}

OneMayMiss == {Stock} \cup {Stock \ {x} : x \in Stock}

StockSymmetry == Permutations(Stock)
===============================================================================
