------------------------------- MODULE Backtest -------------------------------
(***************************************************************************)
(* run_walkforward_backtest (src/stock_engine/backtest/engine.py): the     *)
(* paper book traded on the test sessions of the purged folds.  Every      *)
(* Horizon test sessions of a fold a long and a short side are picked from *)
(* the scores and filled name by name at the open of the next session; the *)
(* book is held for Horizon sessions.  A name with no fill ends the book   *)
(* of that decision.                                                       *)
(*                                                                         *)
(* Scores are abstracted to the orders they induce, which may be any two   *)
(* orders of the names, and returns to whether both fills exist.           *)
(***************************************************************************)
EXTENDS PurgedFolds, FiniteSets

CONSTANTS
    Stock,
    TopK,         \* top_k
    HistoryTail,  \* sessions asked for beyond training and horizon: 21
    Eligible,     \* the sets of names a matrix may have on one session
    Gaps          \* sets of <<name, session>> without an opening price

ASSUME BacktestAssumption ==
    /\ TopK \in Nat /\ TopK >= 1
    /\ HistoryTail \in Nat
    /\ Eligible \subseteq SUBSET Stock /\ {} \notin Eligible
    /\ Gaps \subseteq SUBSET (Stock \X Calendar)
    /\ IsFiniteSet(Stock)

VARIABLES
    unpriced,  \* <<name, session>> missing from the L1 price panel
    pc,        \* where the run is
    fold,      \* the place of the current fold; 0 before the first
    days,      \* decision_sessions of the fold still to come
    day,       \* decision
    longs, shorts,
    unfilled,  \* names of the side in progress still to be filled
    trades,    \* trade_rows
    periods    \* period_rows

book == <<day, longs, shorts, unfilled>>
results == <<trades, periods>>
btVars == <<foldVars, unpriced, pc, fold, days, book, results>>

Trade == [fold_id : Nat, decision : Calendar, isin : Stock, side : {"long", "short"}]

Period == [fold_id : Nat, decision : Calendar,
           longs : SUBSET Stock, shorts : SUBSET Stock]

BacktestTypeOK ==
    /\ FoldsTypeOK
    /\ unpriced \subseteq Stock \X Calendar
    /\ pc \in {"check", "folds", "fold", "day", "longs", "shorts", "close",
               "success", "failed"}
    /\ fold \in 0..Len(folds)
    /\ days \subseteq Calendar /\ day \in Calendar
    /\ longs \subseteq Stock /\ shorts \subseteq Stock /\ unfilled \subseteq Stock
    /\ trades \subseteq Trade
    /\ periods \subseteq Period

BacktestInit ==
    /\ FoldsInit
    /\ unpriced \in Gaps
    /\ pc = "check" /\ fold = 0
    /\ days = {} /\ day = 0
    /\ longs = {} /\ shorts = {} /\ unfilled = {}
    /\ trades = {} /\ periods = {}

-------------------------------------------------------------------------------
(* Folds. *)

\* The panel or the matrix cannot be loaded, or the history is too short, or the
\* folds are cut.
CheckHistory ==
    /\ pc = "check"
    /\ pc' \in {"failed",
               IF Len(sessions) < MinTrain + Horizon + HistoryTail THEN "failed" ELSE "folds"}
    /\ UNCHANGED <<foldVars, unpriced, fold, days, book, results>>

BuildFolds ==
    /\ pc = "folds"
    /\ BuildFold
    /\ UNCHANGED <<unpriced, pc, fold, days, book, results>>

FoldsBuilt ==
    /\ pc = "folds"
    /\ ~MoreFolds
    /\ pc' = IF folds = <<>> THEN "failed" ELSE "fold"
    /\ UNCHANGED <<foldVars, unpriced, fold, days, book, results>>

\* Mutant: every test session is a decision.
DecisionSessionsDaily(f) == TestSessions(f)

\* test_sessions[::horizon]
DecisionSessions(f) ==
    {t \in TestSessions(f) :
        Cardinality({s \in TestSessions(f) : s < t}) % Horizon = 0}

\* Fit on the training sessions of the next fold.  The folds are cut from the sessions
\* of the matrix, so neither slice is empty and the skip of engine.py:198 is left out.
NextFold ==
    /\ pc = "fold"
    /\ fold < Len(folds)
    /\ fold' = fold + 1
    /\ days' = DecisionSessions(folds[fold'])
    /\ pc' = "day"
    /\ UNCHANGED <<foldVars, unpriced, book, results>>

\* After the last fold: a run without a completed period has failed.
Finish ==
    /\ pc = "fold"
    /\ fold = Len(folds)
    /\ pc' = IF periods = {} THEN "failed" ELSE "success"
    /\ UNCHANGED <<foldVars, unpriced, fold, days, book, results>>

-------------------------------------------------------------------------------
(* One decision. *)

LegSize(n) ==
    LET half == IF n \div 2 < 1 THEN 1 ELSE n \div 2
    IN IF TopK < half THEN TopK ELSE half

\* head(k) of the names in some order of their scores.
Heads(names, k) ==
    {h \in SUBSET names :
        Cardinality(h) = IF k < Cardinality(names) THEN k ELSE Cardinality(names)}

\* Mutant: an empty short side is not picked again.
LegsWithoutRefill(names) ==
    LET k == LegSize(Cardinality(names))
    IN UNION {{long} \X {short \ long} : long, short \in Heads(names, k)}

\* _pick_legs: a name on both sides stays long; a short side left empty is picked
\* again from the other names.
ShortLegs(names, k, long, short) ==
    IF short \ long # {} THEN {short \ long}
    ELSE IF Cardinality(names) > k THEN Heads(names \ long, k) ELSE {{}}

Legs(names) ==
    LET k == LegSize(Cardinality(names))
    IN UNION {{long} \X ShortLegs(names, k, long, short) : long, short \in Heads(names, k)}

\* The next decision session of the fold, in order; a book with an empty side is
\* not traded.
Decide ==
    /\ pc = "day"
    /\ \E t \in days : \E names \in Eligible : \E legs \in Legs(names) :
         /\ \A u \in days : t <= u
         /\ days' = days \ {t}
         /\ day' = t
         /\ longs' = legs[1] /\ shorts' = legs[2] /\ unfilled' = legs[1]
         /\ pc' = IF {} \in {legs[1], legs[2]} THEN "day" ELSE "longs"
    /\ UNCHANGED <<foldVars, unpriced, fold, results>>

FoldDone ==
    /\ pc = "day"
    /\ days = {}
    /\ pc' = "fold"
    /\ UNCHANGED <<foldVars, unpriced, fold, days, book, results>>

Entry(t) == t + 1

Exit(t) == t + 1 + Horizon

\* holding_period_return is not None.
Filled(isin, t) ==
    /\ Exit(t) <= LastSession
    /\ <<isin, Entry(t)>> \notin unpriced /\ <<isin, Exit(t)>> \notin unpriced

NewTrade(isin, side) ==
    [fold_id |-> fold - 1, decision |-> day, isin |-> isin, side |-> side]

\* Mutant: a name without a fill is passed over.
FillLegOrSkip(label, side, next_label, next_side) ==
    /\ pc = label
    /\ \E isin \in unfilled :
         /\ trades' = IF Filled(isin, day) THEN trades \cup {NewTrade(isin, side)} ELSE trades
         /\ IF unfilled = {isin}
            THEN pc' = next_label /\ unfilled' = next_side
            ELSE pc' = label /\ unfilled' = unfilled \ {isin}
    /\ UNCHANGED <<foldVars, unpriced, fold, days, day, longs, shorts, periods>>

\* One name of a side: it goes into the blotter, or ends the book.
FillLeg(label, side, next_label, next_side) ==
    /\ pc = label
    /\ \E isin \in unfilled :
         IF Filled(isin, day)
         THEN /\ trades' = trades \cup {NewTrade(isin, side)}
              /\ IF unfilled = {isin}
                 THEN pc' = next_label /\ unfilled' = next_side
                 ELSE pc' = label /\ unfilled' = unfilled \ {isin}
         ELSE /\ pc' = "day" /\ unfilled' = {}
              /\ UNCHANGED trades
    /\ UNCHANGED <<foldVars, unpriced, fold, days, day, longs, shorts, periods>>

FillLong == FillLeg("longs", "long", "shorts", shorts)

FillShort == FillLeg("shorts", "short", "close", {})

ClosePeriod ==
    /\ pc = "close"
    /\ periods' = periods \cup {[fold_id |-> fold - 1, decision |-> day,
                                 longs |-> longs, shorts |-> shorts]}
    /\ pc' = "day"
    /\ UNCHANGED <<foldVars, unpriced, fold, days, book, trades>>

BacktestNext ==
    \/ CheckHistory \/ BuildFolds \/ FoldsBuilt \/ NextFold \/ Finish
    \/ Decide \/ FoldDone \/ FillLong \/ FillShort \/ ClosePeriod

BacktestSpec == BacktestInit /\ [][BacktestNext]_btVars

-------------------------------------------------------------------------------
(* Properties. *)

\* ADR 08, "no in-sample paper PnL": no label that the model of a fold was trained
\* on looked at a price within the embargo of a session it decides on.
NoInSampleBooks ==
    \A p \in periods : \A s \in TrainSessions(folds[p.fold_id + 1]) :
        s + Horizon + Embargo < p.decision

Overlapping(p, q) == p.decision < q.decision /\ Entry(q.decision) < Exit(p.decision)

\* engine.py:194, "Non-overlapping decisions inside each fold": a book is closed
\* before the next one of its fold is opened, also where the matrix misses sessions.
BooksOfAFoldDoNotOverlap ==
    \A p, q \in periods : p.fold_id = q.fold_id => ~Overlapping(p, q)

\* A return that enters the metrics is that of one full book: both sides non-empty,
\* no name on both, at most TopK names a side, and every leg in the blotter exactly
\* as it was picked and with both its fills.
ReturnsAreOfFullBooks ==
    \A p \in periods :
        /\ p.longs # {} /\ p.shorts # {} /\ p.longs \cap p.shorts = {}
        /\ Cardinality(p.longs) <= TopK /\ Cardinality(p.shorts) <= TopK
        /\ \A isin \in p.longs \cup p.shorts : Filled(isin, p.decision)
        /\ {<<t.isin, t.side>> : t \in {t \in trades : t.decision = p.decision
                                                       /\ t.fold_id = p.fold_id}} =
             (p.longs \X {"long"}) \cup (p.shorts \X {"short"})

\* Without price gaps, and names enough for two sides on every session, no decision
\* whose exit is in the calendar is lost.
NoDecisionLost ==
    (pc \in {"success", "failed"} /\ unpriced = {}
        /\ \A names \in Eligible : Cardinality(names) >= 2) =>
        \A k \in 1..fold : \A t \in DecisionSessions(folds[k]) :
            Exit(t) <= LastSession =>
                \E p \in periods : p.fold_id = k - 1 /\ p.decision = t

\* metrics.py:25, "period_returns are non-overlapping H-day book returns".
BooksDoNotOverlap == \A p, q \in periods : ~Overlapping(p, q)
===============================================================================
