----------------------------- MODULE WalkForward -----------------------------
(***************************************************************************)
(* Training of one model (src/stock_engine/models/): per_stock.py's        *)
(* train_one_stock tunes on a temporal holdout, evaluates on the purged    *)
(* walk-forward folds and fits the final model; walkforward.py's           *)
(* run_walkforward and fit_final do the same for the pooled model, without *)
(* tuning.  What matters of a fitted model is the sessions it has seen.    *)
(***************************************************************************)
EXTENDS PurgedFolds, FiniteSets

CONSTANTS
    TuneMin,   \* fewer sessions than this are not tuned on (per_stock.py:43)
    ValPart    \* one session in ValPart is held out: val_fraction = 1 / ValPart

ASSUME WalkForwardAssumption ==
    TuneMin \in Nat /\ ValPart \in Nat /\ ValPart >= 2

VARIABLES
    training, \* where train_one_stock is
    holdout,  \* the sessions the tuning fitted on and was scored on
    reports,  \* fold_reports
    final     \* the sessions of the final fit

wfVars == <<foldVars, training, holdout, reports, final>>

Report == [fold_id : Nat, train : SUBSET Calendar, test : SUBSET Calendar]

WalkForwardTypeOK ==
    /\ FoldsTypeOK
    /\ training \in {"tune", "folds", "evaluate", "fit", "done"}
    /\ holdout \in [train : SUBSET Calendar, val : SUBSET Calendar]
    /\ reports \in Seq(Report)
    /\ final \subseteq Calendar

WalkForwardInit ==
    /\ FoldsInit
    /\ training \in {"tune", "folds"}
    /\ holdout = [train |-> {}, val |-> {}]
    /\ reports = <<>>
    /\ final = {}

\* max(1, int(n * (1 - val_fraction)))
SplitAt(n) ==
    LET k == (n * (ValPart - 1)) \div ValPart IN IF k < 1 THEN 1 ELSE k

\* tune_stock_params: a grid search scored on the last sessions.
Tune ==
    /\ training = "tune"
    /\ LET n == Len(sessions)
           end == sessions[SplitAt(n)]
       IN holdout' = IF n < TuneMin THEN holdout
                     ELSE [train |-> {s \in SessionSet : s <= end},
                           val |-> {s \in SessionSet : s > end}]
    /\ training' = "folds"
    /\ UNCHANGED <<foldVars, reports, final>>

AddFold ==
    /\ training = "folds"
    /\ BuildFold
    /\ UNCHANGED <<training, holdout, reports, final>>

\* Mutant: a matrix too short for a fold is never done with.
FoldsAddedIfAny ==
    /\ training = "folds"
    /\ ~MoreFolds /\ folds # <<>>
    /\ training' = "evaluate"
    /\ UNCHANGED <<foldVars, holdout, reports, final>>

FoldsAdded ==
    /\ training = "folds"
    /\ ~MoreFolds
    /\ training' = "evaluate"
    /\ UNCHANGED <<foldVars, holdout, reports, final>>

Unreported == {k \in DOMAIN folds : \A j \in DOMAIN reports : reports[j].fold_id < k - 1}

\* One turn of the loop over the folds: fit on the training sessions, predict the
\* test sessions.  A fold that has no rows of the one or the other would be skipped
\* (walkforward.py:74, per_stock.py:124); folds are cut from the sessions of the same
\* matrix, so there is none, and the skip is left out.
EvaluateFold ==
    /\ training = "evaluate"
    /\ \E k \in Unreported :
         /\ \A j \in Unreported : k <= j
         /\ reports' = Append(reports, [fold_id |-> k - 1,
                                       train |-> TrainSessions(folds[k]),
                                       test |-> TestSessions(folds[k])])
    /\ UNCHANGED <<foldVars, training, holdout, final>>

FoldsEvaluated ==
    /\ training = "evaluate"
    /\ Unreported = {}
    /\ training' = "fit"
    /\ UNCHANGED <<foldVars, holdout, reports, final>>

\* fit_final, on the whole matrix; an empty one is an error.
FitFinal ==
    /\ training = "fit"
    /\ final' = SessionSet
    /\ training' = "done"
    /\ UNCHANGED <<foldVars, holdout, reports>>

WalkForwardNext ==
    \/ Tune \/ AddFold \/ FoldsAdded
    \/ EvaluateFold \/ FoldsEvaluated \/ FitFinal

WalkForwardSpec ==
    /\ WalkForwardInit /\ [][WalkForwardNext]_wfVars
    /\ WF_wfVars(WalkForwardNext)

-------------------------------------------------------------------------------
(* Properties. *)

\* Every metric reported is out of sample: no price a training label looked at is
\* within the embargo of a session that was predicted.
OutOfSample ==
    \A k \in DOMAIN reports : \A s \in reports[k].train, t \in reports[k].test :
        s + Horizon + Embargo < t

\* The loop over i ends, whatever the step and the fold, and then n_folds counts the
\* folds: none is dropped for want of rows, none is reported twice, and a training set
\* is never smaller than min_train_sessions.
TrainingEnds ==
    <>[](/\ training = "done"
         /\ Len(reports) = Len(folds)
         /\ \A k \in DOMAIN reports :
              /\ Cardinality(reports[k].train) >= MinTrain
              /\ Cardinality(reports[k].test) = TestFold)
===============================================================================
