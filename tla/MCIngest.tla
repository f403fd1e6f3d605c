------------------------------- MODULE MCIngest -------------------------------
(* Instances of Ingest, with a reader beside it, for TLC. *)
EXTENDS L1Readers, TLC

CONSTANTS c1, c2

\* Two equity files, of which c2 has a gap against the calendar; corporate actions c2
\* fail their report, and so does the symbol map, which L1 does not use.
MCOffered == [corporate_actions |-> {c1, c2}, equity_eod |-> {c1, c2},
              symbol_isin_map |-> {c2}, trading_calendar |-> {c1}]

MCDqOk == [corporate_actions |-> {c1}, equity_eod |-> {c1, c2},
           symbol_isin_map |-> {c1}, trading_calendar |-> {c1, c2}]

MCHardGap == {<<c2, c1>>}

\* The runs differ only in their names.
RunSymmetry == Permutations(Run)
===============================================================================
