----------------------------- MODULE PurgedFolds -----------------------------
(***************************************************************************)
(* build_expanding_folds (src/stock_engine/models/purge.py): the expanding *)
(* walk-forward folds over the sessions of a training matrix, purged by    *)
(* the label horizon and an embargo.  The walk-forward evaluation and the  *)
(* backtest both start from these folds.                                   *)
(*                                                                         *)
(* A session is its position in the open-session calendar.  The sessions   *)
(* of a matrix are those with both a feature row and a known label: some   *)
(* positions are missing, and the horizon of a label is counted on the     *)
(* calendar while the gap of a fold is counted on the matrix.              *)
(***************************************************************************)
EXTENDS Integers, Sequences

CONSTANTS
    Horizon,      \* H, in sessions
    Embargo,      \* embargo_sessions
    MinTrain,     \* min_train_sessions
    TestFold,     \* test_fold_sessions
    StepBy,       \* step_sessions
    LastSession,  \* bound: the last position of the calendar
    Matrices      \* the session lists a training matrix may have

Calendar == 0..LastSession

\* Sorted and without duplicates: a later session is at least as many positions
\* later as it is places later.
IsOrdered(s) ==
    /\ s \in Seq(Calendar)
    /\ \A a, b \in DOMAIN s : a <= b => s[b] - s[a] >= b - a

\* The arguments build_expanding_folds does not refuse with a ValueError.
ASSUME FoldsAssumption ==
    /\ Horizon \in Nat /\ Horizon >= 1
    /\ Embargo \in Nat
    /\ MinTrain \in Nat /\ MinTrain >= 1
    /\ TestFold \in Nat /\ TestFold >= 1
    /\ StepBy \in Nat /\ StepBy >= 1
    /\ LastSession \in Nat
    /\ \A s \in Matrices : IsOrdered(s)

VARIABLES
    sessions,  \* ordered_sessions of the matrix
    next,      \* i: index, from 0, of the next test start
    folds      \* the folds built so far; fold_id is the place less one

foldVars == <<sessions, next, folds>>

SessionSet == {sessions[a] : a \in DOMAIN sessions}

Fold == [train_end : Calendar, test_start : Calendar, test_end : Calendar]

FoldsTypeOK ==
    /\ IsOrdered(sessions)
    /\ next \in Nat
    /\ folds \in Seq(Fold)

PurgeGap == Horizon + Embargo

FoldsInit ==
    /\ sessions \in Matrices
    /\ next = MinTrain + PurgeGap
    /\ folds = <<>>

MoreFolds == next + TestFold <= Len(sessions)

\* Mutant: the embargo is forgotten.
TrainEndWithoutEmbargo(i) == i - Horizon - 1

\* train_end_idx, counted from 0.
TrainEndIndex(i) == i - PurgeGap - 1

\* Mutant: test_end is taken for an exclusive end.
FoldAtExclusive(i) ==
    [train_end  |-> sessions[TrainEndIndex(i) + 1],
     test_start |-> sessions[i + 1],
     test_end   |-> sessions[i + TestFold] + 1]

\* The fold whose test starts at index i, counted from 0.
FoldAt(i) ==
    [train_end  |-> sessions[TrainEndIndex(i) + 1],
     test_start |-> sessions[i + 1],
     test_end   |-> sessions[i + TestFold]]

\* One turn of the while loop.
BuildFold ==
    /\ MoreFolds
    /\ folds' = IF TrainEndIndex(next) < MinTrain - 1
                THEN folds ELSE Append(folds, FoldAt(next))
    /\ next' = next + StepBy
    /\ UNCHANGED sessions

\* Mutant: everything before the test.
TrainSessionsToTest(f) == {s \in SessionSet : s < f.test_start}

\* mask_train_fold and mask_test_fold, on the sessions of the matrix.
TrainSessions(f) == {s \in SessionSet : s <= f.train_end}

TestSessions(f) == {s \in SessionSet : f.test_start <= s /\ s <= f.test_end}

-------------------------------------------------------------------------------
(* Properties of the folds built so far. *)

\* ADR 07, "purge + embargo": the label of a training session s looks at prices up
\* to s + Horizon, and no session within Embargo of that window is tested on,
\* however many sessions the matrix is missing.
PurgedAndEmbargoed ==
    \A k \in DOMAIN folds :
        \A s \in TrainSessions(folds[k]), t \in TestSessions(folds[k]) :
            s + Horizon + Embargo < t

\* With a step of at least a fold no session is tested twice, so fold metrics can
\* be averaged and fold returns chained.
TestFoldsDisjoint ==
    StepBy >= TestFold =>
        \A j, k \in DOMAIN folds :
            j < k => folds[j].test_end < folds[k].test_start

\* When the loop has ended, the sessions that were never tested are those the
\* first fold needs for training and gap, those a step beyond a fold skips, and a
\* tail shorter than a fold.
EverySessionTested ==
    (~MoreFolds /\ StepBy <= TestFold) =>
        \A a \in DOMAIN sessions :
            (a > MinTrain + PurgeGap /\ a + TestFold <= Len(sessions) + 1) =>
                \E k \in DOMAIN folds : sessions[a] \in TestSessions(folds[k])

\* With a step of a fold: every session that can be tested is, and only once.
TestedExactlyOnce == TestFoldsDisjoint /\ EverySessionTested
===============================================================================
