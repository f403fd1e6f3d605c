---------------------------- MODULE FeatureFrame ----------------------------
(***************************************************************************)
(* The feature frame of one as_of date as a function of the L1 partition   *)
(* (src/stock_engine/features: inputs.py, compute/common.py, pipeline.py,  *)
(* publish.py).  Values are abstracted to where they come from: a return   *)
(* to the session it is counted from, a mean or a deviation to whether its *)
(* window is full.                                                         *)
(***************************************************************************)
EXTENDS DataQuality

CONSTANTS Period,       \* the k of mom__ret__<k>d
          Windows       \* the windows of vol__std and liq__adv

ASSUME FeatureFrameAssumption ==
    Period \in Nat \ {0} /\ Windows \subseteq Nat \ {0} /\ IsFiniteSet(Windows)

\* apply_pit_filter.
PitRows(l1) == {r \in l1.equity : r.session <= l1.asOf}

\* load_open_sessions.
FeatureSessions(l1) == {d \in OpenSessions(l1.calendar) : d <= l1.asOf}

\* require_upstream: rows of a name on open sessions.
UpstreamRows(l1, i) ==
    {r.session : r \in {p \in PitRows(l1) : p.isin = i /\ p.session \in FeatureSessions(l1)}}

\* project_l1_column with require_positive, for close_adj, volume_adj, traded_value.
NotProjectable(l1) ==
    \E r \in PitRows(l1) : \E cell \in {r.close, r.volume, r.value} : cell = Null \/ cell <= 0

\* The run publishes nothing: a raw feature raises, every derived one finds no
\* row, or the frames cannot be merged one to one.
FeaturesRefused(l1) ==
    \/ PitRows(l1) = {}
    \/ NotProjectable(l1)
    \/ \A r \in PitRows(l1) : r.session \notin FeatureSessions(l1)
    \/ Twice([r \in PitRows(l1) |-> EquityKey(r)])

\* groupby("isin"): the session k rows before t, if there is one.
RowsBack(sessions, t, k) ==
    IF \E u \in sessions : Cardinality({v \in sessions : u < v /\ v <= t}) = k
    THEN CHOOSE u \in sessions : Cardinality({v \in sessions : u < v /\ v <= t}) = k
    ELSE Null

\* rolling(window, min_periods=window) over a column with a value in every row.
FullWindow(sessions, t, n) == Cardinality({v \in sessions : v <= t}) >= n

\* One row of the merged frame.  Raw features have every row; derived ones those
\* of open sessions.  mom__ret__1d is null in the first row of a name, so a
\* deviation over n returns needs n + 1 rows.
FeatureRow(l1, r) ==
    LET rows == UpstreamRows(l1, r.isin)
        derived == r.session \in rows
    IN  [isin |-> r.isin, session |-> r.session,
         base |-> IF derived THEN RowsBack(rows, r.session, Period) ELSE Null,
         vol  |-> {n \in Windows : derived /\ FullWindow(rows, r.session, n + 1)},
         liq  |-> {n \in Windows : derived /\ FullWindow(rows, r.session, n)}]

\* _merge_feature_frames: an outer join.
MergedFrame(l1) == {FeatureRow(l1, r) : r \in PitRows(l1)}

=============================================================================
