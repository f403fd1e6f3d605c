---------------------------- MODULE BacktestProofs ----------------------------
(***************************************************************************)
(* The paper book never trades in sample, books of a fold do not overlap,  *)
(* the metrics are fed with full books only and no decision is lost, for   *)
(* every horizon, embargo, fold, step, matrix, universe and set of missing *)
(* prices.                                                                 *)
(***************************************************************************)
EXTENDS Backtest, WalkForwardProofs, FiniteSetTheorems

InFold == pc \in {"day", "longs", "shorts", "close"}

\* Where the run is among the folds, and which sessions it may decide on.
DecisionsInFold ==
    /\ fold \in Nat /\ fold <= Len(folds)
    /\ pc \in {"check", "folds"} => fold = 0 /\ periods = {}
    /\ InFold => /\ fold >= 1
                 /\ days \subseteq DecisionSessions(folds[fold])
    /\ InFold /\ pc # "day" => day \in DecisionSessions(folds[fold])

\* Every period was decided on a decision session of its fold.
PeriodsInFold ==
    \A p \in periods : \E k \in DOMAIN folds :
        p.fold_id = k - 1 /\ p.decision \in DecisionSessions(folds[k])

BacktestInv == FoldsInv /\ DecisionsInFold /\ PeriodsInFold

LEMMA BacktestInvInit == BacktestInit => BacktestInv
<1> SUFFICES ASSUME BacktestInit PROVE BacktestInv
  OBVIOUS
<1>1. FoldsInv
  BY FoldsInvInit DEF BacktestInit
<1>2. folds = <<>>
  BY DEF BacktestInit, FoldsInit
<1> QED
  BY <1>1, <1>2 DEF BacktestInit, BacktestInv, DecisionsInFold, PeriodsInFold, InFold

LEMMA FoldPlaces == FoldsInv => Len(folds) \in Nat /\ DOMAIN folds = 1..Len(folds)
BY DEF FoldsInv

\* A step that leaves the folds alone means the same sessions by them.
LEMMA SameSessions ==
    ASSUME UNCHANGED foldVars
    PROVE  /\ folds' = folds
           /\ \A f : DecisionSessions(f)' = DecisionSessions(f)
BY DEF foldVars, DecisionSessions, TestSessions, SessionSet

\* With no new period and the folds as they are, the periods stay in their folds.
LEMMA PeriodsKept ==
    ASSUME PeriodsInFold, UNCHANGED foldVars, periods' \subseteq periods
    PROVE  PeriodsInFold'
<1>1. /\ folds' = folds
      /\ \A f : DecisionSessions(f)' = DecisionSessions(f)
  BY SameSessions
<1> SUFFICES ASSUME NEW p \in periods'
             PROVE  \E k \in DOMAIN folds' : \E f : f = folds'[k] /\
                      p.fold_id = k - 1 /\ p.decision \in DecisionSessions(f)'
  BY DEF PeriodsInFold, DecisionSessions, TestSessions, SessionSet
<1>2. PICK k \in DOMAIN folds : p.fold_id = k - 1 /\ p.decision \in DecisionSessions(folds[k])
  BY DEF PeriodsInFold
<1> QED
  BY <1>1, <1>2

LEMMA BuildFoldsKeeps ==
    ASSUME BacktestInv, BuildFolds
    PROVE  BacktestInv'
<1>1. FoldsInv'
  BY FoldsInvNext DEF BuildFolds, BacktestInv
<1>2. pc' = "folds" /\ fold' = 0 /\ periods' = {}
  BY DEF BuildFolds, BacktestInv, DecisionsInFold, results
<1>3. Len(folds)' \in Nat
  BY <1>1 DEF FoldsInv
<1> QED
  BY <1>1, <1>2, <1>3 DEF BacktestInv, DecisionsInFold, PeriodsInFold, InFold

LEMMA NextFoldKeeps ==
    ASSUME BacktestInv, NextFold
    PROVE  BacktestInv'
<1>1. UNCHANGED foldVars /\ UNCHANGED periods
  BY DEF NextFold, results
<1>2. FoldsInv'
  BY <1>1, FoldsInvStutter DEF BacktestInv
<1>3. /\ fold' = fold + 1 /\ fold < Len(folds) /\ pc' = "day"
      /\ days' = DecisionSessions(folds[fold'])
  BY DEF NextFold
<1>4. days' \subseteq DecisionSessions(folds[fold'])
  BY <1>3
<1>5. DecisionsInFold'
  <2>1. fold' \in Nat /\ fold' <= Len(folds') /\ fold' >= 1
    BY <1>1, <1>3, FoldPlaces DEF BacktestInv, DecisionsInFold, foldVars
  <2>2. days' \subseteq DecisionSessions(folds[fold])'
    BY <1>1, <1>4 DEF foldVars, DecisionSessions, TestSessions, SessionSet
  <2> QED
    BY <1>3, <2>1, <2>2 DEF DecisionsInFold, InFold
<1>6. PeriodsInFold'
  BY <1>1, PeriodsKept DEF BacktestInv
<1> QED
  BY <1>2, <1>5, <1>6 DEF BacktestInv

LEMMA DecideKeeps ==
    ASSUME BacktestInv, Decide
    PROVE  BacktestInv'
<1>1. UNCHANGED foldVars /\ UNCHANGED <<fold, periods>> /\ pc = "day"
  BY DEF Decide, results
<1>2. FoldsInv'
  BY <1>1, FoldsInvStutter DEF BacktestInv
<1>3. pc' \in {"day", "longs"} /\ day' \in days /\ days' \subseteq days
  BY DEF Decide
<1>4. days \subseteq DecisionSessions(folds[fold]) /\ fold >= 1
  BY <1>1 DEF BacktestInv, DecisionsInFold, InFold
<1>5. DecisionSessions(folds[fold])' = DecisionSessions(folds[fold])
  BY <1>1 DEF foldVars, DecisionSessions, TestSessions, SessionSet
<1>6. DecisionsInFold'
  <2>1. fold' \in Nat /\ fold' <= Len(folds') /\ fold' >= 1
    BY <1>1, <1>4 DEF BacktestInv, DecisionsInFold, foldVars
  <2>2. days' \subseteq DecisionSessions(folds[fold])' /\ day' \in DecisionSessions(folds[fold])'
    BY <1>3, <1>4, <1>5
  <2> QED
    BY <1>3, <2>1, <2>2 DEF DecisionsInFold, InFold
<1>7. PeriodsInFold'
  BY <1>1, PeriodsKept DEF BacktestInv
<1> QED
  BY <1>2, <1>6, <1>7 DEF BacktestInv

LEMMA ClosePeriodKeeps ==
    ASSUME BacktestInv, ClosePeriod
    PROVE  BacktestInv'
<1>1. UNCHANGED foldVars /\ UNCHANGED <<fold, days>> /\ pc = "close" /\ pc' = "day"
  BY DEF ClosePeriod
<1>2. FoldsInv'
  BY <1>1, FoldsInvStutter DEF BacktestInv
<1>3. /\ days \subseteq DecisionSessions(folds[fold]) /\ day \in DecisionSessions(folds[fold])
      /\ fold >= 1 /\ fold \in Nat /\ fold <= Len(folds)
  BY <1>1 DEF BacktestInv, DecisionsInFold, InFold
<1>4. DecisionsInFold'
  <2>0. DecisionSessions(folds[fold])' = DecisionSessions(folds[fold])
    BY <1>1 DEF foldVars, DecisionSessions, TestSessions, SessionSet
  <2>1. days' \subseteq DecisionSessions(folds[fold])'
    BY <1>1, <1>3, <2>0
  <2>2. fold' \in Nat /\ fold' <= Len(folds') /\ fold' >= 1
    BY <1>1, <1>3 DEF foldVars
  <2> QED
    BY <1>1, <2>1, <2>2 DEF DecisionsInFold, InFold
<1>5. PeriodsInFold'
  <2> SUFFICES ASSUME NEW p \in periods'
               PROVE  \E k \in DOMAIN folds' : \E f : f = folds'[k] /\
                        p.fold_id = k - 1 /\ p.decision \in DecisionSessions(f)'
    BY DEF PeriodsInFold, DecisionSessions, TestSessions, SessionSet
  <2>1. /\ folds' = folds
        /\ \A f : DecisionSessions(f)' = DecisionSessions(f)
    BY <1>1, SameSessions
  <2>2. CASE p \in periods
    BY <2>1, <2>2 DEF BacktestInv, PeriodsInFold
  <2>3. CASE p \notin periods
    <3>1. p.fold_id = fold - 1 /\ p.decision = day
      BY <2>3 DEF ClosePeriod
    <3>2. fold \in DOMAIN folds
      BY <1>3, FoldPlaces DEF BacktestInv
    <3> QED
      BY <1>3, <2>1, <3>1, <3>2
  <2> QED
    BY <2>2, <2>3
<1> QED
  BY <1>2, <1>4, <1>5 DEF BacktestInv

\* The other steps stay in the fold, or leave it, with no new period.
LEMMA OtherStepsKeep ==
    ASSUME BacktestInv, UNCHANGED <<foldVars, fold, periods>>,
           \/ UNCHANGED <<pc, days, day>>
           \/ pc' \notin {"check", "folds", "day", "longs", "shorts", "close"}
           \/ pc = "check" /\ pc' = "folds"
           \/ InFold /\ pc' = "day" /\ UNCHANGED <<days, day>>
           \/ InFold /\ pc # "day" /\ InFold' /\ UNCHANGED <<days, day>>
    PROVE  BacktestInv'
<1>1. FoldsInv'
  BY FoldsInvStutter DEF BacktestInv
<1>2. PeriodsInFold'
  BY PeriodsKept DEF BacktestInv
<1>3. DecisionSessions(folds[fold])' = DecisionSessions(folds[fold]) /\ folds' = folds
  BY DEF foldVars, DecisionSessions, TestSessions, SessionSet
<1>4. DecisionsInFold'
  BY <1>3 DEF BacktestInv, DecisionsInFold, InFold
<1> QED
  BY <1>1, <1>2, <1>4 DEF BacktestInv

LEMMA BacktestInvNext == BacktestInv /\ [BacktestNext]_btVars => BacktestInv'
<1> SUFFICES ASSUME BacktestInv, [BacktestNext]_btVars PROVE BacktestInv'
  OBVIOUS
<1>1. CASE CheckHistory
  BY <1>1, OtherStepsKeep DEF CheckHistory, results
<1>2. CASE BuildFolds
  BY <1>2, BuildFoldsKeeps
<1>3. CASE FoldsBuilt
  BY <1>3, OtherStepsKeep DEF FoldsBuilt, results
<1>4. CASE NextFold
  BY <1>4, NextFoldKeeps
<1>5. CASE Finish
  BY <1>5, OtherStepsKeep DEF Finish, results
<1>6. CASE Decide
  BY <1>6, DecideKeeps
<1>7. CASE FoldDone
  BY <1>7, OtherStepsKeep DEF FoldDone, results
<1>8. CASE FillLong
  <2>1. /\ UNCHANGED <<foldVars, fold, periods, days, day>> /\ pc = "longs"
        /\ pc' \in {"shorts", "longs", "day"}
    BY <1>8 DEF FillLong, FillLeg
  <2> QED
    BY <2>1, OtherStepsKeep DEF InFold
<1>9. CASE FillShort
  <2>1. /\ UNCHANGED <<foldVars, fold, periods, days, day>> /\ pc = "shorts"
        /\ pc' \in {"close", "shorts", "day"}
    BY <1>9 DEF FillShort, FillLeg
  <2> QED
    BY <2>1, OtherStepsKeep DEF InFold
<1>10. CASE ClosePeriod
  BY <1>10, ClosePeriodKeeps
<1>11. CASE UNCHANGED btVars
  BY <1>11, OtherStepsKeep DEF btVars, book, results
<1> QED
  BY <1>1, <1>2, <1>3, <1>4, <1>5, <1>6, <1>7, <1>8, <1>9, <1>10, <1>11 DEF BacktestNext

LEMMA BacktestInvHolds == BacktestSpec => []BacktestInv
  BY BacktestInvInit, BacktestInvNext, PTL DEF BacktestSpec

\* What _pick_legs returns are names of the matrix.
LEMMA LegsType ==
    ASSUME NEW names \in SUBSET Stock, NEW legs \in Legs(names)
    PROVE  legs[1] \subseteq Stock /\ legs[2] \subseteq Stock
<1>1. \A k : \A S \in SUBSET Stock : Heads(S, k) \subseteq SUBSET Stock
  BY DEF Heads
<1> DEFINE k == LegSize(Cardinality(names))
<1>2. legs \in UNION {{long} \X ShortLegs(names, k, long, short) : long, short \in Heads(names, k)}
  BY DEF Legs
<1> HIDE DEF k
<1>3. PICK long \in Heads(names, k), short \in Heads(names, k) :
        legs \in {long} \X ShortLegs(names, k, long, short)
  BY <1>2
<1>4. ShortLegs(names, k, long, short) \subseteq SUBSET Stock
  BY <1>1 DEF ShortLegs
<1>5. legs[1] = long /\ legs[2] \in ShortLegs(names, k, long, short)
  BY <1>3
<1> QED  BY <1>1, <1>4, <1>5

\* The variables of a backtest keep their types (engine.py).
THEOREM BooksTypeCorrect == BacktestSpec => []BacktestTypeOK
<1>1. BacktestInit => BacktestTypeOK
  BY FoldsInvInit, FoldsAssumption, BacktestAssumption
  DEF BacktestInit, BacktestTypeOK, FoldsInv, FoldsTypeOK, FoldsInit, Calendar
<1>2. BacktestTypeOK /\ BacktestInv /\ BacktestInv' /\ [BacktestNext]_btVars => BacktestTypeOK'
  <2> SUFFICES ASSUME BacktestTypeOK, BacktestInv, BacktestInv', [BacktestNext]_btVars
               PROVE  BacktestTypeOK'
    OBVIOUS
  <2>1. FoldsTypeOK'
    BY DEF BacktestInv, FoldsInv, FoldsTypeOK
  <2>2. fold' \in 0..Len(folds') /\ fold \in 0..Len(folds)
    BY FoldPlaces DEF BacktestInv, DecisionsInFold, FoldsInv
  <2>3. \A f : TestSessions(f) \subseteq Calendar
    BY SessionPositions DEF BacktestInv, FoldsInv, SessionSet, TestSessions
  <2>4. CASE CheckHistory \/ BuildFolds \/ FoldsBuilt \/ Finish \/ FoldDone
    BY <2>1, <2>2, <2>4
    DEF CheckHistory, BuildFolds, FoldsBuilt, Finish, FoldDone, book, results, BacktestTypeOK
  <2>5. CASE NextFold
    <3>1. days' \subseteq Calendar
      BY <2>3, <2>5 DEF NextFold, DecisionSessions
    <3> QED  BY <2>1, <2>2, <2>5, <3>1 DEF NextFold, book, results, BacktestTypeOK
  <2>6. CASE Decide
    <3>0. PICK names \in Eligible : \E t \in days, legs \in Legs(names) :
            /\ days' = days \ {t} /\ day' = t
            /\ longs' = legs[1] /\ shorts' = legs[2] /\ unfilled' = legs[1]
            /\ pc' = IF {} \in {legs[1], legs[2]} THEN "day" ELSE "longs"
      BY <2>6 DEF Decide
    <3>1. PICK t \in days, legs \in Legs(names) :
            /\ days' = days \ {t} /\ day' = t
            /\ longs' = legs[1] /\ shorts' = legs[2] /\ unfilled' = legs[1]
            /\ pc' = IF {} \in {legs[1], legs[2]} THEN "day" ELSE "longs"
      BY <3>0
    <3>2. legs[1] \subseteq Stock /\ legs[2] \subseteq Stock
      BY BacktestAssumption, LegsType
    <3> QED  BY <2>1, <2>2, <2>6, <3>1, <3>2 DEF Decide, results, BacktestTypeOK
  <2>7. ASSUME NEW isin \in Stock, NEW side \in {"long", "short"}, InFold
        PROVE  NewTrade(isin, side) \in Trade
    <3>1. fold - 1 \in Nat
      BY <2>7 DEF BacktestInv, DecisionsInFold
    <3> QED  BY <3>1 DEF NewTrade, Trade, BacktestTypeOK
  <2>8. CASE FillLong
    <3>1. InFold
      BY <2>8 DEF FillLong, FillLeg, InFold
    <3>2. trades' \subseteq Trade /\ unfilled' \subseteq Stock
      BY <2>7, <2>8, <3>1 DEF FillLong, FillLeg, BacktestTypeOK
    <3> QED  BY <2>1, <2>2, <2>8, <3>2 DEF FillLong, FillLeg, BacktestTypeOK
  <2>9. CASE FillShort
    <3>1. InFold
      BY <2>9 DEF FillShort, FillLeg, InFold
    <3>2. trades' \subseteq Trade /\ unfilled' \subseteq Stock
      BY <2>7, <2>9, <3>1 DEF FillShort, FillLeg, BacktestTypeOK
    <3> QED  BY <2>1, <2>2, <2>9, <3>2 DEF FillShort, FillLeg, BacktestTypeOK
  <2>10. CASE ClosePeriod
    <3>1. fold - 1 \in Nat
      BY <2>10 DEF ClosePeriod, BacktestInv, DecisionsInFold, InFold
    <3>2. periods' \subseteq Period
      BY <2>10, <3>1 DEF ClosePeriod, BacktestTypeOK, Period
    <3> QED  BY <2>1, <2>2, <2>10, <3>2 DEF ClosePeriod, book, BacktestTypeOK
  <2>11. CASE UNCHANGED btVars
    BY <2>1, <2>2, <2>11 DEF btVars, book, results, BacktestTypeOK
  <2> QED
    BY <2>4, <2>5, <2>6, <2>8, <2>9, <2>10, <2>11 DEF BacktestNext
<1> QED
  BY <1>1, <1>2, BacktestInvHolds, PTL DEF BacktestSpec

\* No period is decided on a session that the training of its fold could have seen
\* through a label, embargo included (ADR 08, "no in-sample paper PnL").
THEOREM BooksOutOfSample == BacktestSpec => []NoInSampleBooks
<1>1. ASSUME BacktestInv PROVE NoInSampleBooks
  <2> SUFFICES ASSUME NEW p \in periods,
                      NEW s \in TrainSessions(folds[p.fold_id + 1])
               PROVE  s + Horizon + Embargo < p.decision
    BY DEF NoInSampleBooks
  <2>1. PICK k \in DOMAIN folds :
          p.fold_id = k - 1 /\ p.decision \in TestSessions(folds[k])
    BY <1>1 DEF BacktestInv, PeriodsInFold, DecisionSessions
  <2>2. p.fold_id + 1 = k
    BY <1>1, <2>1, FoldPlaces DEF BacktestInv
  <2>3. PurgedAndEmbargoed
    BY <1>1, FoldsInvPurged DEF BacktestInv
  <2> QED
    BY <2>1, <2>2, <2>3 DEF PurgedAndEmbargoed
<1> QED
  BY <1>1, BacktestInvHolds, PTL

\* Counts of a horizon apart: two different multiples of the horizon differ by at
\* least a horizon.
LEMMA MultiplesApart ==
    ASSUME NEW a \in Nat, NEW b \in Nat, a % Horizon = 0, b % Horizon = 0, a < b
    PROVE  b - a >= Horizon
<1>1. Horizon \in Nat /\ Horizon >= 1
  BY FoldsAssumption
<1> DEFINE p == a \div Horizon
           q == b \div Horizon
<1>2. a = Horizon * p + (a % Horizon) /\ b = Horizon * q + (b % Horizon)
  BY <1>1
<1>3. p \in Int /\ q \in Int
  BY <1>1
<1> HIDE DEF p, q
<1>4. a = Horizon * p /\ b = Horizon * q
  BY <1>1, <1>2, <1>3
<1>5. p < q
  BY <1>1, <1>3, <1>4
<1>6. Horizon * (q - p) >= Horizon
  BY <1>1, <1>3, <1>5
<1> QED
  BY <1>1, <1>3, <1>4, <1>6

\* Of the sessions of a set, at least one and at most u - t lie between t and u.
LEMMA CountBetween ==
    ASSUME NEW n \in Nat, NEW T \in SUBSET (0..n), NEW t \in T, NEW u \in T, t < u
    PROVE  /\ Cardinality({s \in T : s < t}) \in Nat
           /\ Cardinality({s \in T : s < u}) \in Nat
           /\ Cardinality({s \in T : s < t}) < Cardinality({s \in T : s < u})
           /\ Cardinality({s \in T : s < u}) - Cardinality({s \in T : s < t}) <= u - t
<1> DEFINE A == {s \in T : s < t}
           B == {s \in T : s < u}
<1>1. t \in Int /\ u \in Int /\ \A s \in T : s \in Int
  OBVIOUS
<1>2. A \subseteq 0..n /\ B \subseteq 0..n
  OBVIOUS
<1>3. A \subseteq B
  <2> SUFFICES ASSUME NEW s \in T, s < t PROVE s < u
    OBVIOUS
  <2> QED
    BY <1>1
<1>4. t \in B /\ t \notin A
  BY <1>1
<1>5. B \ A \subseteq t..(u - 1)
  <2> SUFFICES ASSUME NEW s \in T, s < u, ~(s < t) PROVE s \in t..(u - 1)
    OBVIOUS
  <2> QED
    BY <1>1
<1>0. IsFiniteSet(0..n)
  <2>1. 0 \in Int /\ n \in Int
    OBVIOUS
  <2> QED
    BY <2>1, FS_Interval
<1> HIDE DEF A, B
<1>6. IsFiniteSet(A) /\ IsFiniteSet(B)
  BY <1>0, <1>2, FS_Subset
<1>7. Cardinality(A) \in Nat /\ Cardinality(B) \in Nat
  BY <1>6, FS_CardinalityType
<1>8. Cardinality(A) < Cardinality(B)
  <2>1. Cardinality(A) <= Cardinality(B) /\ (Cardinality(B) = Cardinality(A) => B = A)
    BY <1>3, <1>6, FS_Subset
  <2> QED
    BY <1>4, <1>7, <2>1
<1>9. Cardinality(B) - Cardinality(A) <= u - t
  <2>0. u - 1 \in Int /\ ~(t > u - 1) /\ (u - 1) - t + 1 = u - t
    BY <1>1
  <2>1. IsFiniteSet(t..(u - 1)) /\ Cardinality(t..(u - 1)) = u - t
    BY <1>1, <2>0, FS_Interval
  <2>2. B \cap A = A
    BY <1>3
  <2>3. Cardinality(B \ A) = Cardinality(B) - Cardinality(A)
    BY <1>6, <2>2, FS_Difference
  <2>4. Cardinality(B \ A) <= u - t
    BY <1>5, <2>1, FS_Subset
  <2> QED
    BY <2>3, <2>4
<1> QED
  BY <1>7, <1>8, <1>9 DEF A, B

\* Every Horizon-th test session, counted on the matrix, is at least Horizon
\* positions of the calendar after the one before it.
LEMMA DecisionsSpaced ==
    ASSUME IsOrdered(sessions), NEW f,
           NEW t \in DecisionSessions(f), NEW u \in DecisionSessions(f), t < u
    PROVE  u - t >= Horizon
<1>1. TestSessions(f) \in SUBSET (0..LastSession)
  BY SessionPositions DEF TestSessions, SessionSet, Calendar
<1>2. LastSession \in Nat /\ Horizon \in Nat
  BY FoldsAssumption
<1> DEFINE a == Cardinality({s \in TestSessions(f) : s < t})
           b == Cardinality({s \in TestSessions(f) : s < u})
<1>3. t \in TestSessions(f) /\ u \in TestSessions(f) /\ a % Horizon = 0 /\ b % Horizon = 0
  BY DEF DecisionSessions
<1>4. t \in Int /\ u \in Int
  BY <1>1, <1>2, <1>3
<1>5. a \in Nat /\ b \in Nat /\ a < b /\ b - a <= u - t
  BY <1>1, <1>2, <1>3, CountBetween
<1> HIDE DEF a, b
<1>6. b - a >= Horizon
  BY <1>3, <1>5, MultiplesApart
<1> QED
  BY <1>2, <1>4, <1>5, <1>6

\* A book is closed no later than the next one of its fold is opened, for every
\* horizon and however many sessions the matrix misses (engine.py:194,
\* "Non-overlapping decisions inside each fold").
THEOREM BooksOfAFoldApart == BacktestSpec => []BooksOfAFoldDoNotOverlap
<1>1. ASSUME BacktestInv PROVE BooksOfAFoldDoNotOverlap
  <2> SUFFICES ASSUME NEW p \in periods, NEW q \in periods,
                      p.fold_id = q.fold_id, Overlapping(p, q)
               PROVE  FALSE
    BY DEF BooksOfAFoldDoNotOverlap
  <2>1. PICK k \in DOMAIN folds :
          p.fold_id = k - 1 /\ p.decision \in DecisionSessions(folds[k])
    BY <1>1 DEF BacktestInv, PeriodsInFold
  <2>2. PICK l \in DOMAIN folds :
          q.fold_id = l - 1 /\ q.decision \in DecisionSessions(folds[l])
    BY <1>1 DEF BacktestInv, PeriodsInFold
  <2>3. k = l
    <3>1. k \in Int /\ l \in Int
      BY <1>1, FoldPlaces DEF BacktestInv
    <3>2. k - 1 = l - 1
      BY <2>1, <2>2
    <3> QED
      BY <3>1, <3>2
  <2>4. p.decision < q.decision /\ q.decision + 1 < p.decision + 1 + Horizon
    BY DEF Overlapping, Entry, Exit
  <2>5. IsOrdered(sessions)
    BY <1>1 DEF BacktestInv, FoldsInv
  <2>6. q.decision - p.decision >= Horizon
    BY <2>1, <2>2, <2>3, <2>4, <2>5, DecisionsSpaced
  <2>7. p.decision \in Int /\ q.decision \in Int /\ Horizon \in Int
    BY <2>1, <2>2, <2>5, SessionPositions, FoldsAssumption
    DEF DecisionSessions, TestSessions, SessionSet
  <2> QED
    BY <2>4, <2>6, <2>7
<1> QED
  BY <1>1, BacktestInvHolds, PTL

-------------------------------------------------------------------------------
(* Every return is that of a full book. *)

InBook == pc \in {"longs", "shorts", "close"}

\* The blotter of one decision, among the trades ts.
Blotter(ts, k, t) ==
    {<<x.isin, x.side>> : x \in {x \in ts : x.decision = t /\ x.fold_id = k}}

FullBook(l, s) ==
    /\ l # {} /\ s # {} /\ l \cap s = {}
    /\ Cardinality(l) <= TopK /\ Cardinality(s) <= TopK

\* A trade or a period is never of a decision still to come, so the blotter of a
\* decision is empty when its book is opened.
Reached(x) ==
    /\ x.fold_id + 1 <= fold
    /\ InFold /\ x.fold_id + 1 = fold => x.decision \notin days

ResultsArePast ==
    /\ InBook => day \notin days
    /\ \A x \in trades : Reached(x)
    /\ \A p \in periods : /\ Reached(p)
                          /\ InBook /\ p.fold_id + 1 = fold => p.decision # day

DoneLongs == IF pc = "longs" THEN longs \ unfilled ELSE longs

DoneShorts ==
    IF pc = "longs" THEN {} ELSE IF pc = "shorts" THEN shorts \ unfilled ELSE shorts

\* The book being filled: what is done of it is in the blotter and filled, and what
\* is left is of the side in progress.
BookInProgress ==
    InBook =>
        /\ FullBook(longs, shorts)
        /\ pc # "close" => unfilled # {}
        /\ pc = "longs" => unfilled \subseteq longs
        /\ pc = "shorts" => unfilled \subseteq shorts
        /\ Blotter(trades, fold - 1, day) =
             (DoneLongs \X {"long"}) \cup (DoneShorts \X {"short"})
        /\ \A isin \in DoneLongs \cup DoneShorts : Filled(isin, day)

FullPeriod(p) ==
    /\ FullBook(p.longs, p.shorts)
    /\ \A isin \in p.longs \cup p.shorts : Filled(isin, p.decision)
    /\ Blotter(trades, p.fold_id, p.decision) =
         (p.longs \X {"long"}) \cup (p.shorts \X {"short"})

PeriodsFull == \A p \in periods : FullPeriod(p)

BooksInv == ResultsArePast /\ BookInProgress /\ PeriodsFull

LEMMA BlotterGrows ==
    ASSUME NEW ts, NEW x, NEW k, NEW t
    PROVE  Blotter(ts \cup {x}, k, t) =
             Blotter(ts, k, t) \cup
               (IF x.decision = t /\ x.fold_id = k THEN {<<x.isin, x.side>>} ELSE {})
BY DEF Blotter

LEMMA SameFills ==
    ASSUME UNCHANGED unpriced
    PROVE  \A isin, t : Filled(isin, t)' <=> Filled(isin, t)
BY DEF Filled

LEMMA LegSizeBounds ==
    ASSUME NEW n \in Nat
    PROVE  LegSize(n) \in Nat /\ 1 <= LegSize(n) /\ LegSize(n) <= TopK
BY BacktestAssumption DEF LegSize

LEMMA HeadsFit ==
    ASSUME NEW names, IsFiniteSet(names), NEW k \in Nat, NEW h \in Heads(names, k)
    PROVE  /\ h \subseteq names /\ IsFiniteSet(h) /\ Cardinality(h) \in Nat
           /\ Cardinality(h) <= k /\ Cardinality(h) <= Cardinality(names)
           /\ Cardinality(h) = IF k < Cardinality(names) THEN k ELSE Cardinality(names)
<1>1. /\ h \subseteq names
      /\ Cardinality(h) = IF k < Cardinality(names) THEN k ELSE Cardinality(names)
  BY DEF Heads
<1>2. IsFiniteSet(h)
  BY <1>1, FS_Subset
<1>3. Cardinality(h) \in Nat /\ Cardinality(names) \in Nat
  BY <1>2, FS_CardinalityType
<1> QED
  BY <1>1, <1>2, <1>3

\* What _pick_legs returns: sides of at most TopK names, no name on both.
LEMMA LegsFit ==
    ASSUME NEW names \in SUBSET Stock, NEW legs \in Legs(names)
    PROVE  /\ legs[1] \cap legs[2] = {}
           /\ Cardinality(legs[1]) <= TopK /\ Cardinality(legs[2]) <= TopK
<1>1. IsFiniteSet(names)
  BY BacktestAssumption, FS_Subset
<1>2. Cardinality(names) \in Nat
  BY <1>1, FS_CardinalityType
<1> DEFINE k == LegSize(Cardinality(names))
<1>3. k \in Nat /\ 1 <= k /\ k <= TopK /\ TopK \in Nat
  BY <1>2, LegSizeBounds, BacktestAssumption
<1>4. legs \in UNION {{long} \X ShortLegs(names, k, long, short) : long, short \in Heads(names, k)}
  BY DEF Legs
<1> HIDE DEF k
<1>5. PICK long \in Heads(names, k), short \in Heads(names, k) :
        legs \in {long} \X ShortLegs(names, k, long, short)
  BY <1>4
<1>6. legs[1] = long /\ legs[2] \in ShortLegs(names, k, long, short)
  BY <1>5
<1>7. /\ Cardinality(long) \in Nat /\ Cardinality(long) <= k
      /\ IsFiniteSet(short) /\ Cardinality(short) \in Nat /\ Cardinality(short) <= k
  BY <1>1, <1>3, HeadsFit
<1>8. legs[2] \cap long = {} /\ Cardinality(legs[2]) <= k /\ Cardinality(legs[2]) \in Nat
  <2>1. CASE short \ long # {}
    <3>1. legs[2] = short \ long
      BY <1>6, <2>1 DEF ShortLegs
    <3>2. /\ IsFiniteSet(short \ long) /\ Cardinality(short \ long) <= Cardinality(short)
          /\ Cardinality(short \ long) \in Nat
      BY <1>7, FS_Subset, FS_CardinalityType
    <3> QED
      BY <1>3, <1>7, <3>1, <3>2
  <2>2. CASE short \ long = {} /\ Cardinality(names) > k
    <3>1. legs[2] \in Heads(names \ long, k)
      BY <1>6, <2>2 DEF ShortLegs
    <3>2. IsFiniteSet(names \ long)
      BY <1>1, FS_Subset
    <3> QED
      BY <1>3, <3>1, <3>2, HeadsFit
  <2>3. CASE short \ long = {} /\ ~(Cardinality(names) > k)
    <3>1. legs[2] = {}
      BY <1>6, <2>3 DEF ShortLegs
    <3> QED
      BY <1>3, <3>1, FS_EmptySet
  <2> QED
    BY <2>1, <2>2, <2>3
<1> QED
  BY <1>3, <1>6, <1>7, <1>8

LEMMA SamePeriods ==
    ASSUME UNCHANGED <<unpriced, trades>>
    PROVE  \A p : FullPeriod(p)' <=> FullPeriod(p)
<1>1. \A isin, t : Filled(isin, t)' <=> Filled(isin, t)
  BY SameFills
<1> QED
  BY <1>1 DEF FullPeriod, FullBook, Blotter

LEMMA PeriodsFullKept ==
    ASSUME PeriodsFull, UNCHANGED <<unpriced, trades, periods>>
    PROVE  PeriodsFull'
<1>1. \A p : FullPeriod(p)' <=> FullPeriod(p)
  BY SamePeriods
<1> SUFFICES ASSUME NEW p \in periods PROVE FullPeriod(p)'
  BY DEF PeriodsFull
<1> QED
  BY <1>1 DEF PeriodsFull

\* Outside the folds nothing is in progress.
LEMMA BooksOutsideKeep ==
    ASSUME BooksInv, UNCHANGED <<unpriced, fold, trades, periods>>, ~InFold'
    PROVE  BooksInv'
<1>1. PeriodsFull'
  BY PeriodsFullKept DEF BooksInv
<1>2. ~InBook'
  BY DEF InFold, InBook
<1>3. ResultsArePast'
  BY <1>2 DEF BooksInv, ResultsArePast, Reached
<1>4. BookInProgress'
  BY <1>2 DEF BookInProgress
<1> QED
  BY <1>1, <1>3, <1>4 DEF BooksInv

LEMMA NextFoldKeepsBooks ==
    ASSUME BacktestTypeOK, BooksInv, NextFold
    PROVE  BooksInv'
<1>1. UNCHANGED <<unpriced, trades, periods>> /\ pc' = "day" /\ fold' = fold + 1
  BY DEF NextFold, results
<1>2. PeriodsFull'
  BY <1>1, PeriodsFullKept DEF BooksInv
<1>3. ~InBook'
  BY <1>1 DEF InBook
<1>4. fold \in Int /\ \A x \in trades \cup periods : x.fold_id \in Int
  BY DEF BacktestTypeOK, Trade, Period
<1>5. \A x \in trades \cup periods : x.fold_id + 1 <= fold
  BY DEF BooksInv, ResultsArePast, Reached
<1>6. \A x \in trades \cup periods : x.fold_id + 1 <= fold + 1 /\ x.fold_id + 1 # fold + 1
  BY <1>4, <1>5
<1>7. ResultsArePast'
  BY <1>1, <1>3, <1>6 DEF ResultsArePast, Reached
<1>8. BookInProgress'
  BY <1>3 DEF BookInProgress
<1> QED
  BY <1>2, <1>7, <1>8 DEF BooksInv

\* A new book starts from an empty blotter.
LEMMA DecideKeepsBooks ==
    ASSUME BacktestTypeOK, BacktestInv, BooksInv, Decide
    PROVE  BooksInv'
<1>1. UNCHANGED <<unpriced, fold, trades, periods>> /\ pc = "day"
  BY DEF Decide, results
<1>2. PeriodsFull'
  BY <1>1, PeriodsFullKept DEF BooksInv
<1>3. PICK t \in days, names \in Eligible : \E legs \in Legs(names) :
        /\ days' = days \ {t}
        /\ day' = t
        /\ longs' = legs[1] /\ shorts' = legs[2] /\ unfilled' = legs[1]
        /\ pc' = IF {} \in {legs[1], legs[2]} THEN "day" ELSE "longs"
  BY DEF Decide
<1>4. PICK legs \in Legs(names) :
        /\ days' = days \ {t}
        /\ day' = t
        /\ longs' = legs[1] /\ shorts' = legs[2] /\ unfilled' = legs[1]
        /\ pc' = IF {} \in {legs[1], legs[2]} THEN "day" ELSE "longs"
  BY <1>3
<1>5. InFold
  BY <1>1 DEF InFold
<1>6. \A x \in trades \cup periods : x.fold_id + 1 = fold => x.decision \notin days
  BY <1>5 DEF BooksInv, ResultsArePast, Reached
<1>7. ResultsArePast'
  <2>1. day' \notin days'
    BY <1>4
  <2>2. \A x \in trades \cup periods :
          /\ x.fold_id + 1 <= fold
          /\ x.fold_id + 1 = fold => x.decision \notin days' /\ x.decision # day'
    BY <1>4, <1>6 DEF BooksInv, ResultsArePast, Reached
  <2> QED
    BY <1>1, <2>1, <2>2 DEF ResultsArePast, Reached
<1>8. BookInProgress'
  <2> SUFFICES ASSUME InBook' PROVE BookInProgress'
    BY DEF BookInProgress
  <2>1. pc' = "longs" /\ legs[1] # {} /\ legs[2] # {}
    BY <1>4 DEF InBook
  <2>2. names \in SUBSET Stock
    BY BacktestAssumption
  <2>3. FullBook(legs[1], legs[2])
    BY <2>1, <2>2, LegsFit DEF FullBook
  <2>4. Blotter(trades, fold - 1, t) = {}
    <3>1. \A x \in trades : x.decision = t => x.fold_id # fold - 1
      <4>1. fold \in Int
        BY DEF BacktestTypeOK
      <4> QED
        BY <1>6, <4>1
    <3> QED
      BY <3>1 DEF Blotter
  <2>5. DoneLongs' = {} /\ DoneShorts' = {}
    BY <1>4, <2>1 DEF DoneLongs, DoneShorts
  <2>6. Blotter(trades, fold - 1, day)' = {}
    BY <1>1, <1>4, <2>4
  <2>7. FullBook(longs, shorts)'
    BY <1>4, <2>3 DEF FullBook
  <2>8. (DoneLongs' \X {"long"}) \cup (DoneShorts' \X {"short"}) = {}
    BY <2>5
  <2> QED
    BY <1>4, <2>1, <2>5, <2>6, <2>7, <2>8 DEF BookInProgress
<1> QED
  BY <1>2, <1>7, <1>8 DEF BooksInv

\* A trade of the book in progress is in the blotter of no period.
LEMMA FillKeepsPeriods ==
    ASSUME BacktestTypeOK, BooksInv, InBook, NEW isin \in Stock, NEW side,
           UNCHANGED <<unpriced, periods>>,
           trades' = trades \cup {NewTrade(isin, side)}
    PROVE  PeriodsFull'
<1> SUFFICES ASSUME NEW p \in periods PROVE FullPeriod(p)'
  BY DEF PeriodsFull
<1>1. FullPeriod(p)
  BY DEF BooksInv, PeriodsFull
<1>2. ~(p.decision = day /\ p.fold_id = fold - 1)
  <2>1. p.fold_id \in Int /\ fold \in Int
    BY DEF BacktestTypeOK, Period
  <2>2. p.fold_id + 1 = fold => p.decision # day
    BY DEF BooksInv, ResultsArePast
  <2> QED
    BY <2>1, <2>2
<1>0. PICK x : x = NewTrade(isin, side)
  OBVIOUS
<1>3. x.decision = day /\ x.fold_id = fold - 1
  BY <1>0 DEF NewTrade
<1>4. Blotter(trades', p.fold_id, p.decision) = Blotter(trades, p.fold_id, p.decision)
  <2>0. ~(x.decision = p.decision /\ x.fold_id = p.fold_id)
    BY <1>2, <1>3
  <2>1. Blotter(trades \cup {x}, p.fold_id, p.decision) =
          Blotter(trades, p.fold_id, p.decision) \cup
            (IF x.decision = p.decision /\ x.fold_id = p.fold_id
             THEN {<<x.isin, x.side>>} ELSE {})
    BY BlotterGrows
  <2> QED
    BY <1>0, <2>0, <2>1
<1>5. \A i, t : Filled(i, t)' <=> Filled(i, t)
  BY SameFills
<1> QED
  BY <1>1, <1>4, <1>5 DEF FullPeriod

\* A book that stops, or is closed, leaves the blotter as it is.
LEMMA BookEnds ==
    ASSUME BooksInv, InBook, pc' = "day",
           UNCHANGED <<unpriced, fold, days, trades, periods>>
    PROVE  BooksInv'
<1>1. PeriodsFull'
  BY PeriodsFullKept DEF BooksInv
<1>2. ~InBook' /\ InFold
  BY DEF InBook, InFold
<1>3. ResultsArePast'
  BY <1>2 DEF BooksInv, ResultsArePast, Reached
<1>4. BookInProgress'
  BY <1>2 DEF BookInProgress
<1> QED
  BY <1>1, <1>3, <1>4 DEF BooksInv

\* One more name of a side is filled and in the blotter.
LEMMA FillKeepsBooks ==
    ASSUME BacktestTypeOK, BooksInv, InBook, InBook', NEW isin \in Stock,
           NEW side \in {"long", "short"}, Filled(isin, day),
           trades' = trades \cup {NewTrade(isin, side)},
           UNCHANGED <<unpriced, fold, days, day, longs, shorts, periods>>,
           DoneLongs' = IF side = "long" THEN DoneLongs \cup {isin} ELSE DoneLongs,
           DoneShorts' = IF side = "short" THEN DoneShorts \cup {isin} ELSE DoneShorts,
           pc' # "close" => unfilled' # {},
           pc' = "longs" => unfilled' \subseteq longs,
           pc' = "shorts" => unfilled' \subseteq shorts
    PROVE  BooksInv'
<1>1. PeriodsFull'
  BY FillKeepsPeriods
<1>0. PICK x : x = NewTrade(isin, side)
  OBVIOUS
<1>2. x.fold_id = fold - 1 /\ x.decision = day /\ x.isin = isin /\ x.side = side
  BY <1>0 DEF NewTrade
<1>3. trades' = trades \cup {x}
  BY <1>0
<1>4. InFold /\ InFold' /\ fold \in Int
  BY DEF InBook, InFold, BacktestTypeOK
<1>5. ResultsArePast'
  <2>1. \A y \in trades : Reached(y)'
    BY <1>4 DEF BooksInv, ResultsArePast, Reached
  <2>2. Reached(x)'
    BY <1>2, <1>4 DEF BooksInv, ResultsArePast, Reached
  <2>3. \A y \in trades' : Reached(y)'
    BY <1>3, <2>1, <2>2
  <2>4. \A p \in periods' : Reached(p)' /\ (InBook' /\ p.fold_id + 1 = fold' => p.decision # day')
    BY <1>4 DEF BooksInv, ResultsArePast, Reached
  <2> QED
    BY <2>3, <2>4 DEF BooksInv, ResultsArePast
<1>6. BookInProgress'
  <2>1. /\ Blotter(trades, fold - 1, day) =
             (DoneLongs \X {"long"}) \cup (DoneShorts \X {"short"})
        /\ \A i \in DoneLongs \cup DoneShorts : Filled(i, day)
        /\ FullBook(longs, shorts)
    BY DEF BooksInv, BookInProgress
  <2>2. Blotter(trades', fold - 1, day) = Blotter(trades, fold - 1, day) \cup {<<isin, side>>}
    BY <1>2, <1>3, BlotterGrows
  <2>3. (DoneLongs' \X {"long"}) \cup (DoneShorts' \X {"short"}) =
          (DoneLongs \X {"long"}) \cup (DoneShorts \X {"short"}) \cup {<<isin, side>>}
    OBVIOUS
  <2>4. \A i, t : Filled(i, t)' <=> Filled(i, t)
    BY SameFills
  <2>5. DoneLongs' \cup DoneShorts' = DoneLongs \cup DoneShorts \cup {isin}
    OBVIOUS
  <2>6. \A i \in DoneLongs' \cup DoneShorts' : Filled(i, day)
    BY <2>1, <2>5
  <2>7. Blotter(trades, fold - 1, day)' =
          (DoneLongs' \X {"long"}) \cup (DoneShorts' \X {"short"})
    BY <2>1, <2>2, <2>3
  <2>8. FullBook(longs, shorts)'
    BY <2>1 DEF FullBook
  <2>9. \A i \in DoneLongs' \cup DoneShorts' : Filled(i, day)'
    BY <2>4, <2>6
  <2> QED
    BY <2>7, <2>8, <2>9 DEF BookInProgress
<1> QED
  BY <1>1, <1>5, <1>6 DEF BooksInv

LEMMA FillLongKeepsBooks ==
    ASSUME BacktestTypeOK, BooksInv, FillLong
    PROVE  BooksInv'
<1>1. pc = "longs" /\ UNCHANGED <<unpriced, fold, days, day, longs, shorts, periods>>
  BY DEF FillLong, FillLeg
<1>2. InBook /\ unfilled \subseteq longs /\ shorts # {}
  BY <1>1 DEF InBook, BooksInv, BookInProgress, FullBook
<1>3. PICK isin \in unfilled :
        IF Filled(isin, day)
        THEN /\ trades' = trades \cup {NewTrade(isin, "long")}
             /\ IF unfilled = {isin}
                THEN pc' = "shorts" /\ unfilled' = shorts
                ELSE pc' = "longs" /\ unfilled' = unfilled \ {isin}
        ELSE /\ pc' = "day" /\ unfilled' = {}
             /\ UNCHANGED trades
  BY DEF FillLong, FillLeg
<1>4. CASE ~Filled(isin, day)
  BY <1>1, <1>2, <1>3, <1>4, BookEnds
<1>5. CASE Filled(isin, day)
  <2>1. isin \in Stock
    BY DEF BacktestTypeOK
  <2>2. /\ pc' \in {"longs", "shorts"} /\ unfilled' # {}
        /\ pc' = "longs" => unfilled' = unfilled \ {isin}
        /\ pc' = "shorts" => unfilled = {isin} /\ unfilled' = shorts
    BY <1>2, <1>3, <1>5
  <2>3. DoneLongs' = DoneLongs \cup {isin}
    BY <1>1, <1>2, <2>2 DEF DoneLongs
  <2>4. DoneShorts' = DoneShorts
    BY <1>1, <2>2 DEF DoneShorts
  <2>5. InBook' /\ pc' # "close"
    BY <2>2 DEF InBook
  <2>6. trades' = trades \cup {NewTrade(isin, "long")}
    BY <1>3, <1>5
  <2> QED
    BY <1>1, <1>2, <1>5, <2>1, <2>2, <2>3, <2>4, <2>5, <2>6, FillKeepsBooks
<1> QED
  BY <1>4, <1>5

LEMMA FillShortKeepsBooks ==
    ASSUME BacktestTypeOK, BooksInv, FillShort
    PROVE  BooksInv'
<1>1. pc = "shorts" /\ UNCHANGED <<unpriced, fold, days, day, longs, shorts, periods>>
  BY DEF FillShort, FillLeg
<1>2. InBook /\ unfilled \subseteq shorts
  BY <1>1 DEF InBook, BooksInv, BookInProgress
<1>3. PICK isin \in unfilled :
        IF Filled(isin, day)
        THEN /\ trades' = trades \cup {NewTrade(isin, "short")}
             /\ IF unfilled = {isin}
                THEN pc' = "close" /\ unfilled' = {}
                ELSE pc' = "shorts" /\ unfilled' = unfilled \ {isin}
        ELSE /\ pc' = "day" /\ unfilled' = {}
             /\ UNCHANGED trades
  BY DEF FillShort, FillLeg
<1>4. CASE ~Filled(isin, day)
  BY <1>1, <1>2, <1>3, <1>4, BookEnds
<1>5. CASE Filled(isin, day)
  <2>1. isin \in Stock
    BY DEF BacktestTypeOK
  <2>2. /\ pc' \in {"shorts", "close"}
        /\ pc' = "shorts" => unfilled' = unfilled \ {isin} /\ unfilled' # {}
        /\ pc' = "close" => unfilled = {isin}
    BY <1>2, <1>3, <1>5
  <2>3. DoneLongs' = DoneLongs
    BY <1>1, <2>2 DEF DoneLongs
  <2>4. DoneShorts' = DoneShorts \cup {isin}
    BY <1>1, <1>2, <2>2 DEF DoneShorts
  <2>5. InBook'
    BY <2>2 DEF InBook
  <2>6. trades' = trades \cup {NewTrade(isin, "short")}
    BY <1>3, <1>5
  <2> QED
    BY <1>1, <1>2, <1>5, <2>1, <2>2, <2>3, <2>4, <2>5, <2>6, FillKeepsBooks
<1> QED
  BY <1>4, <1>5

LEMMA ClosePeriodKeepsBooks ==
    ASSUME BacktestTypeOK, BooksInv, ClosePeriod
    PROVE  BooksInv'
<1>0. PICK new :
        new = [fold_id |-> fold - 1, decision |-> day, longs |-> longs, shorts |-> shorts]
  OBVIOUS
<1>1. /\ UNCHANGED <<unpriced, fold, days, trades>> /\ pc = "close" /\ pc' = "day"
      /\ periods' = periods \cup {new}
  BY <1>0 DEF ClosePeriod, book
<1>2. InBook /\ InFold /\ ~InBook' /\ fold \in Int
  BY <1>1 DEF InBook, InFold, BacktestTypeOK
<1>3. new.fold_id = fold - 1 /\ new.decision = day /\ new.longs = longs /\ new.shorts = shorts
  BY <1>0
<1>4. ResultsArePast'
  <2>1. \A x \in trades \cup periods : Reached(x)'
    BY <1>1, <1>2 DEF BooksInv, ResultsArePast, Reached
  <2>2. Reached(new)'
    BY <1>1, <1>2, <1>3 DEF BooksInv, ResultsArePast, Reached
  <2> QED
    BY <1>1, <1>2, <2>1, <2>2 DEF ResultsArePast
<1>5. BookInProgress'
  BY <1>2 DEF BookInProgress
<1>6. FullPeriod(new)
  <2>1. DoneLongs = longs /\ DoneShorts = shorts
    BY <1>1 DEF DoneLongs, DoneShorts
  <2> QED
    BY <1>1, <1>2, <1>3, <2>1 DEF BooksInv, BookInProgress, FullPeriod
<1>7. PeriodsFull'
  <2>1. \A p : FullPeriod(p)' <=> FullPeriod(p)
    BY <1>1, SamePeriods
  <2> SUFFICES ASSUME NEW p \in periods' PROVE FullPeriod(p)'
    BY DEF PeriodsFull
  <2> QED
    BY <1>1, <1>6, <2>1 DEF BooksInv, PeriodsFull
<1> QED
  BY <1>4, <1>5, <1>7 DEF BooksInv

LEMMA BooksInvNext ==
    ASSUME BacktestTypeOK, BacktestInv, BooksInv, [BacktestNext]_btVars
    PROVE  BooksInv'
<1>1. CASE CheckHistory \/ BuildFolds \/ FoldsBuilt \/ Finish \/ FoldDone
  <2>1. UNCHANGED <<unpriced, fold, trades, periods>> /\ ~InFold'
    BY <1>1 DEF CheckHistory, BuildFolds, FoldsBuilt, Finish, FoldDone, results, InFold
  <2> QED
    BY <2>1, BooksOutsideKeep
<1>2. CASE NextFold
  BY <1>2, NextFoldKeepsBooks
<1>3. CASE Decide
  BY <1>3, DecideKeepsBooks
<1>4. CASE FillLong
  BY <1>4, FillLongKeepsBooks
<1>5. CASE FillShort
  BY <1>5, FillShortKeepsBooks
<1>6. CASE ClosePeriod
  BY <1>6, ClosePeriodKeepsBooks
<1>7. CASE UNCHANGED btVars
  <2>1. UNCHANGED <<unpriced, pc, fold, days, day, longs, shorts, unfilled, trades, periods>>
    BY <1>7 DEF btVars, book, results
  <2>2. PeriodsFull'
    BY <2>1, PeriodsFullKept DEF BooksInv
  <2>3. ResultsArePast'
    BY <2>1 DEF BooksInv, ResultsArePast, Reached, InFold, InBook
  <2>4. \A i, t : Filled(i, t)' <=> Filled(i, t)
    BY <2>1, SameFills
  <2>5. DoneLongs' = DoneLongs /\ DoneShorts' = DoneShorts /\ (InBook' <=> InBook)
    BY <2>1 DEF DoneLongs, DoneShorts, InBook
  <2>6. FullBook(longs, shorts)' <=> FullBook(longs, shorts)
    BY <2>1 DEF FullBook
  <2>7. Blotter(trades, fold - 1, day)' = Blotter(trades, fold - 1, day)
    BY <2>1 DEF Blotter
  <2>8. BookInProgress'
    BY <2>1, <2>4, <2>5, <2>6, <2>7 DEF BooksInv, BookInProgress
  <2> QED
    BY <2>2, <2>3, <2>8 DEF BooksInv
<1> QED
  BY <1>1, <1>2, <1>3, <1>4, <1>5, <1>6, <1>7 DEF BacktestNext

LEMMA BooksInvHolds == BacktestSpec => []BooksInv
<1>1. BacktestInit => BooksInv
  BY DEF BacktestInit, BooksInv, ResultsArePast, BookInProgress, PeriodsFull, InBook, InFold
<1>2. BacktestTypeOK /\ BacktestInv /\ BooksInv /\ [BacktestNext]_btVars => BooksInv'
  BY BooksInvNext
<1> QED
  BY <1>1, <1>2, BooksTypeCorrect, BacktestInvHolds, PTL DEF BacktestSpec

\* Every return that enters the metrics is that of one full book, for every order
\* of the names, every top_k and every set of missing prices: a book stopped by a
\* name without a fill never becomes a period, and no other decision's trades are
\* taken for those of a period.
THEOREM ReturnsOfFullBooks == BacktestSpec => []ReturnsAreOfFullBooks
<1>1. BooksInv => ReturnsAreOfFullBooks
  BY DEF BooksInv, PeriodsFull, FullPeriod, FullBook, Blotter, ReturnsAreOfFullBooks
<1> QED
  BY <1>1, BooksInvHolds, PTL

-------------------------------------------------------------------------------
(* No decision is lost. *)

\* No missing price, and names enough for two sides on every session.
Calm == unpriced = {} /\ \A names \in Eligible : Cardinality(names) >= 2

Pending(k, t) == k = fold /\ InFold /\ (t \in days \/ (InBook /\ t = day))

Kept(k, t) ==
    Exit(t) <= LastSession => \E p \in periods : p.fold_id = k - 1 /\ p.decision = t

\* Every decision of the folds reached is still to come, in progress, or a period.
AllKept ==
    Calm => \A k \in 1..fold : \A t \in DecisionSessions(folds[k]) : Pending(k, t) \/ Kept(k, t)

\* With two names or more, neither side of a book is empty.
LEMMA LegsNotEmpty ==
    ASSUME NEW names \in SUBSET Stock, Cardinality(names) >= 2, NEW legs \in Legs(names)
    PROVE  legs[1] # {} /\ legs[2] # {}
<1>1. IsFiniteSet(names)
  BY BacktestAssumption, FS_Subset
<1> DEFINE n == Cardinality(names)
           k == LegSize(n)
<1>2. n \in Nat /\ n >= 2
  BY <1>1, FS_CardinalityType
<1>3. k \in Nat /\ 1 <= k /\ k < n
  <2> HIDE DEF n
  <2>1. n \div 2 \in Int /\ n \div 2 < n
    BY <1>2
  <2> QED
    BY <1>2, <2>1, LegSizeBounds DEF LegSize
<1>4. legs \in UNION {{long} \X ShortLegs(names, k, long, short) : long, short \in Heads(names, k)}
  BY DEF Legs
<1> HIDE DEF k
<1>5. PICK long \in Heads(names, k), short \in Heads(names, k) :
        legs \in {long} \X ShortLegs(names, k, long, short)
  BY <1>4
<1>6. legs[1] = long /\ legs[2] \in ShortLegs(names, k, long, short)
  BY <1>5
<1>7. long \subseteq names /\ IsFiniteSet(long) /\ Cardinality(long) = k
  BY <1>1, <1>3, HeadsFit
<1>8. long # {}
  BY <1>3, <1>7, FS_EmptySet
<1>9. CASE short \ long # {}
  BY <1>6, <1>8, <1>9 DEF ShortLegs
<1>10. CASE short \ long = {}
  <2>1. legs[2] \in Heads(names \ long, k)
    BY <1>3, <1>6, <1>10 DEF ShortLegs
  <2>2. IsFiniteSet(names \ long) /\ Cardinality(names \ long) = n - k
    <3>1. names \cap long = long
      BY <1>7
    <3> QED
      BY <1>1, <1>7, <3>1, FS_Difference
  <2>3. Cardinality(legs[2]) = IF k < n - k THEN k ELSE n - k
    BY <1>3, <2>1, <2>2, HeadsFit
  <2>4. Cardinality(legs[2]) # 0
    BY <1>2, <1>3, <2>3
  <2>5. legs[2] # {}
    BY <2>4, FS_EmptySet
  <2> QED
    BY <1>6, <1>8, <2>5
<1> QED
  BY <1>9, <1>10

\* A step within the folds keeps the decisions, when it keeps those of its fold that
\* were still pending.
LEMMA KeptCarries ==
    ASSUME AllKept, UNCHANGED <<foldVars, unpriced, fold>>, periods \subseteq periods',
           Calm => \A t : Pending(fold, t) => Pending(fold, t)' \/ Kept(fold, t)'
    PROVE  AllKept'
<1>1. /\ folds' = folds
      /\ \A f : DecisionSessions(f)' = DecisionSessions(f)
  BY SameSessions
<1>2. Calm' <=> Calm
  BY DEF Calm
<1>3. \A k, t : Kept(k, t) => Kept(k, t)'
  BY DEF Kept
<1>4. \A k, t : Pending(k, t) => k = fold
  BY DEF Pending
<1> SUFFICES ASSUME Calm', NEW k \in 1..fold, NEW t, \E f : f = folds[k] /\ t \in DecisionSessions(f)'
             PROVE  Pending(k, t)' \/ Kept(k, t)'
  BY <1>1 DEF AllKept
<1>5. t \in DecisionSessions(folds[k])
  BY <1>1
<1>6. Pending(k, t) \/ Kept(k, t)
  BY <1>2, <1>5 DEF AllKept
<1>7. CASE Kept(k, t)
  BY <1>3, <1>7
<1>8. CASE Pending(k, t)
  BY <1>2, <1>4, <1>8
<1> QED
  BY <1>6, <1>7, <1>8

LEMMA NextFoldKeepsAll ==
    ASSUME BacktestInv, AllKept, NextFold
    PROVE  AllKept'
<1>1. /\ UNCHANGED foldVars /\ UNCHANGED <<unpriced, periods>> /\ pc = "fold" /\ pc' = "day"
      /\ fold' = fold + 1 /\ days' = DecisionSessions(folds[fold'])
  BY DEF NextFold, results
<1>2. /\ folds' = folds
      /\ \A f : DecisionSessions(f)' = DecisionSessions(f)
  BY <1>1, SameSessions
<1>3. fold \in Nat
  BY DEF BacktestInv, DecisionsInFold
<1>4. Calm' <=> Calm
  BY <1>1 DEF Calm
<1>5. \A k, t : Kept(k, t)' <=> Kept(k, t)
  BY <1>1 DEF Kept
<1>6. \A k, t : ~Pending(k, t)
  BY <1>1 DEF Pending, InFold
<1> SUFFICES ASSUME Calm', NEW k \in 1..fold', NEW t, \E f : f = folds[k] /\ t \in DecisionSessions(f)'
             PROVE  Pending(k, t)' \/ Kept(k, t)'
  BY <1>2 DEF AllKept
<1>7. t \in DecisionSessions(folds[k])
  BY <1>2
<1>8. CASE k = fold + 1
  BY <1>1, <1>7, <1>8 DEF Pending, InFold
<1>9. CASE k # fold + 1
  <2>1. k \in 1..fold
    BY <1>1, <1>3, <1>9
  <2> QED
    BY <1>4, <1>5, <1>6, <1>7, <2>1 DEF AllKept
<1> QED
  BY <1>8, <1>9

LEMMA DecideKeepsAll ==
    ASSUME AllKept, Decide
    PROVE  AllKept'
<1>1. UNCHANGED <<foldVars, unpriced, fold, periods>> /\ pc = "day"
  BY DEF Decide, results
<1>2. PICK t \in days, names \in Eligible : \E legs \in Legs(names) :
        /\ days' = days \ {t}
        /\ day' = t
        /\ pc' = IF {} \in {legs[1], legs[2]} THEN "day" ELSE "longs"
  BY DEF Decide
<1>3. PICK legs \in Legs(names) :
        /\ days' = days \ {t}
        /\ day' = t
        /\ pc' = IF {} \in {legs[1], legs[2]} THEN "day" ELSE "longs"
  BY <1>2
<1>4. ASSUME Calm PROVE pc' = "longs"
  <2>1. names \in SUBSET Stock /\ Cardinality(names) >= 2
    BY <1>4, BacktestAssumption DEF Calm
  <2>2. legs[1] # {} /\ legs[2] # {}
    BY <2>1, LegsNotEmpty
  <2> QED
    BY <1>3, <2>2
<1>5. ASSUME Calm, NEW u, Pending(fold, u) PROVE Pending(fold, u)'
  <2>1. u \in days
    BY <1>1, <1>5 DEF Pending, InBook
  <2>2. InFold' /\ InBook' /\ pc' = "longs"
    BY <1>4, <1>5 DEF InFold, InBook
  <2> QED
    BY <1>1, <1>3, <2>1, <2>2 DEF Pending
<1> QED
  BY <1>1, <1>5, KeptCarries

\* Without missing prices a name has no fill only past the end of the calendar.
LEMMA FillKeepsAll ==
    ASSUME AllKept, FillLong \/ FillShort
    PROVE  AllKept'
<1>1. UNCHANGED <<foldVars, unpriced, fold, days, day, periods>> /\ InBook
  BY DEF FillLong, FillShort, FillLeg, InBook
<1>2. PICK isin \in unfilled :
        IF Filled(isin, day) THEN pc' \in {"longs", "shorts", "close"} ELSE pc' = "day"
  BY DEF FillLong, FillShort, FillLeg
<1>3. ASSUME Calm, NEW u, Pending(fold, u) PROVE Pending(fold, u)' \/ Kept(fold, u)'
  <2>1. InFold' /\ fold' = fold /\ (u \in days' \/ u = day')
    BY <1>1, <1>2, <1>3 DEF Pending, InFold
  <2>2. CASE u \in days' \/ Filled(isin, day)
    <3>1. Filled(isin, day) => InBook'
      BY <1>2 DEF InBook
    <3> QED
      BY <2>1, <2>2, <3>1 DEF Pending
  <2>3. CASE u = day' /\ ~Filled(isin, day)
    <3>1. ~(Exit(u) <= LastSession)
      BY <1>1, <1>3, <2>3 DEF Filled, Calm
    <3>2. Exit(u)' = Exit(u)
      BY DEF Exit
    <3> QED
      BY <3>1, <3>2 DEF Kept
  <2> QED
    BY <2>1, <2>2, <2>3
<1> QED
  BY <1>1, <1>3, KeptCarries

LEMMA ClosePeriodKeepsAll ==
    ASSUME AllKept, ClosePeriod
    PROVE  AllKept'
<1>0. PICK new :
        new = [fold_id |-> fold - 1, decision |-> day, longs |-> longs, shorts |-> shorts]
  OBVIOUS
<1>1. /\ UNCHANGED <<foldVars, unpriced, fold, days, day>> /\ pc = "close" /\ pc' = "day"
      /\ periods' = periods \cup {new}
  BY <1>0 DEF ClosePeriod, book
<1>2. new.fold_id = fold - 1 /\ new.decision = day
  BY <1>0
<1>3. ASSUME NEW u, Pending(fold, u) PROVE Pending(fold, u)' \/ Kept(fold, u)'
  <2>1. CASE u \in days
    BY <1>1, <2>1 DEF Pending, InFold
  <2>2. CASE u = day
    BY <1>1, <1>2, <2>2 DEF Kept
  <2> QED
    BY <1>3, <2>1, <2>2 DEF Pending
<1> QED
  BY <1>1, <1>3, KeptCarries

LEMMA AllKeptNext ==
    ASSUME BacktestInv, BacktestInv', AllKept, [BacktestNext]_btVars
    PROVE  AllKept'
<1>1. CASE CheckHistory \/ FoldsBuilt \/ Finish \/ UNCHANGED btVars
  <2>1. UNCHANGED <<foldVars, unpriced, fold, days, day, periods>>
    BY <1>1 DEF CheckHistory, FoldsBuilt, Finish, btVars, book, results
  <2>2. (InFold => UNCHANGED pc)
    BY <1>1 DEF CheckHistory, FoldsBuilt, Finish, InFold, btVars
  <2>3. \A u : Pending(fold, u) => Pending(fold, u)'
    BY <2>1, <2>2 DEF Pending, InFold, InBook
  <2> QED
    BY <2>1, <2>3, KeptCarries
<1>2. CASE BuildFolds
  <2>1. fold' = 0
    BY <1>2 DEF BuildFolds, BacktestInv, DecisionsInFold
  <2> QED
    BY <2>1 DEF AllKept
<1>3. CASE NextFold
  BY <1>3, NextFoldKeepsAll
<1>4. CASE Decide
  BY <1>4, DecideKeepsAll
<1>5. CASE FoldDone
  <2>1. UNCHANGED <<foldVars, unpriced, fold, periods>> /\ days = {} /\ pc = "day"
    BY <1>5 DEF FoldDone, results
  <2>2. \A u : ~Pending(fold, u)
    BY <2>1 DEF Pending, InBook
  <2> QED
    BY <2>1, <2>2, KeptCarries
<1>6. CASE FillLong \/ FillShort
  BY <1>6, FillKeepsAll
<1>7. CASE ClosePeriod
  BY <1>7, ClosePeriodKeepsAll
<1> QED
  BY <1>1, <1>2, <1>3, <1>4, <1>5, <1>6, <1>7 DEF BacktestNext

\* With prices and names enough, every decision session of a fold whose exit is in
\* the calendar has its period when the run ends, for every horizon, step, top_k and
\* order of the names.
THEOREM EveryDecisionKept == BacktestSpec => []NoDecisionLost
<1>1. BacktestInit => AllKept
  BY DEF BacktestInit, AllKept
<1>2. BacktestInv /\ BacktestInv' /\ AllKept /\ [BacktestNext]_btVars => AllKept'
  BY AllKeptNext
<1>3. AllKept => NoDecisionLost
  <2> SUFFICES ASSUME AllKept, pc \in {"success", "failed"}, Calm,
                      NEW k \in 1..fold, NEW t \in DecisionSessions(folds[k]),
                      Exit(t) <= LastSession
               PROVE  \E p \in periods : p.fold_id = k - 1 /\ p.decision = t
    BY DEF NoDecisionLost, Calm
  <2>1. ~Pending(k, t)
    BY DEF Pending, InFold
  <2>2. Kept(k, t)
    BY <2>1 DEF AllKept
  <2> QED
    BY <2>2 DEF Kept
<1> QED
  BY <1>1, <1>2, <1>3, BacktestInvHolds, PTL DEF BacktestSpec
===============================================================================
