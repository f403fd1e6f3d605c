----------------------------- MODULE TrainMatrix -----------------------------
(***************************************************************************)
(* The training matrix (src/stock_engine/models: io.py, join.py): labels   *)
(* joined with features that are published on every date as well.  A       *)
(* matrix of date a holds the features of earlier sessions as the run of a *)
(* computed them, while inference, on each of those sessions, scored what  *)
(* the run of its own date had computed.  Of the features there are a      *)
(* price (raw__close_adj__l1, and the averages on its scale) and a return  *)
(* (mom__ret__<k>d); training takes every column of the frame.             *)
(***************************************************************************)
EXTENDS Labels

CONSTANT Period   \* rows between the two closes of a return

ASSUME TrainMatrixAssumption == Period \in Nat \ {0} /\ None \notin Nat \X Nat

VARIABLE features   \* as_of -> the published feature frame or None

trainVars == <<vars, features>>

-----------------------------------------------------------------------------
(* Features (features/compute/common.py).                                  *)

FeatureRows == {r \in Isin \X (1 .. asOf) : HasRow(r[1], r[2])}

\* The rows of the name from q up to the one before r.
Between(q, r) ==
    {p \in FeatureRows : p[1] = r[1] /\ q[2] <= p[2] /\ p[2] < r[2]}

\* groupby("isin").pct_change(Period): the row Period rows before r.
ReturnBase(r) ==
    {q \in FeatureRows : q[1] = r[1] /\ Cardinality(Between(q, r)) = Period}

PriceFeature(r) == CloseAdj(r[1], r[2])

\* Mutant: the earlier close is the one that was traded.
ReturnFeatureOnTraded(r) ==
    IF ReturnBase(r) = {} THEN None
    ELSE LET q == CHOOSE q \in ReturnBase(r) : TRUE
         IN  <<CloseAdj(r[1], r[2]), CloseRaw(q[1], q[2])>>

\* A fraction, as in Labels.
ReturnFeature(r) ==
    IF ReturnBase(r) = {} THEN None
    ELSE LET q == CHOOSE q \in ReturnBase(r) : \A p \in ReturnBase(r) : p[2] <= q[2]
         IN  <<CloseAdj(r[1], r[2]), CloseAdj(q[1], q[2])>>

\* A feature run of the date; the whole history is computed again.
PublishFeatures ==
    /\ asOf > 0 /\ features[asOf] = None
    /\ features' = [features EXCEPT
           ![asOf] = [r \in FeatureRows |-> [price |-> PriceFeature(r), ret |-> ReturnFeature(r)]]]
    /\ UNCHANGED vars

-----------------------------------------------------------------------------
(* The matrix.                                                             *)

\* build_train_matrix: an inner join on name and session.  Keys are unique, by
\* the checks of the publishers, and the horizon is that of the labels read.
BuildTrainMatrix(feat, lab) ==
    [r \in Rows(feat) \cap Rows(lab) |->
        [price |-> feat[r].price, ret |-> feat[r].ret,
         bullish |-> lab[r] = "bullish", bearish |-> lab[r] = "bearish"]]

\* load_train_matrix raises: a partition is not there, or the matrix is empty.
MatrixRefused(a) ==
    \/ features[a] = None \/ published[a] \in {None, Refused}
    \/ Rows(features[a]) \cap Rows(published[a]) = {}

Matrix(a) == BuildTrainMatrix(features[a], published[a])

-----------------------------------------------------------------------------

TrainInit ==
    /\ LabelsInit
    /\ features = [s \in Session |-> None]

\* The daily path publishes features before the next date.
TrainNext ==
    \/ PublishFeatures
    \/ /\ asOf \in Session => features[asOf] # None
       /\ LabelsNext
       /\ UNCHANGED features

TrainSpec == TrainInit /\ [][TrainNext]_trainVars

-----------------------------------------------------------------------------
(* Properties.                                                             *)

SameReturn(f, g) == IF f = None \/ g = None THEN f = g ELSE Tied(f, g)

\* What a model is trained on for a session is what inference scored on it: the row
\* was in the frame published on that session, with the same return, although every
\* close in it may have been adjusted again, and its label was not known then
\* (join.py:81, adjust.py:67).
TrainedAsServed ==
    \A a \in Session : ~MatrixRefused(a) =>
        LET matrix == Matrix(a)
        IN  \A r \in Rows(matrix) :
                /\ r \in Rows(features[r[2]])
                /\ SameReturn(matrix[r].ret, features[r[2]][r].ret)
                /\ ~MatrixRefused(r[2]) => r \notin Rows(Matrix(r[2]))

\* The same of prices.  raw__close_adj__l1.yaml:7 calls the feature a point-in-time
\* projection.
PricesArePointInTime ==
    \A a \in Session : ~MatrixRefused(a) =>
        LET matrix == Matrix(a)
        IN  \A r \in Rows(matrix) :
                r \in Rows(features[r[2]]) => matrix[r].price = features[r[2]][r].price

=============================================================================
