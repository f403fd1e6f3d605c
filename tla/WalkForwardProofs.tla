-------------------------- MODULE WalkForwardProofs --------------------------
(***************************************************************************)
(* What holds of the folds while build_expanding_folds builds them, and    *)
(* that training never evaluates in sample, for every horizon, embargo,    *)
(* minimum, fold and step, and for every set of sessions a matrix may be   *)
(* missing.  The lemmas about the folds serve every specification that     *)
(* starts from them; BacktestProofs takes them from here.                  *)
(***************************************************************************)
EXTENDS WalkForward, TLAPS

(***************************************************************************)
(* The folds.                                                              *)
(***************************************************************************)

\* Where a fold comes from: a test start that left room for the minimum and the
\* gap before it, for the whole fold after it, and that the loop has passed.
Located(f) ==
    \E i \in Nat : /\ MinTrain + PurgeGap <= i
                   /\ i + TestFold <= Len(sessions)
                   /\ i + StepBy <= next
                   /\ f = FoldAt(i)

\* The folds leave no session out between the first test start and the next.
Covered ==
    StepBy <= TestFold =>
        \A a \in DOMAIN sessions :
            (a > MinTrain + PurgeGap /\ a <= next) =>
                \E k \in DOMAIN folds : sessions[a] \in TestSessions(folds[k])

FoldsInv ==
    /\ IsOrdered(sessions)
    /\ next \in Nat /\ MinTrain + PurgeGap <= next
    /\ folds \in Seq(Fold)
    /\ \A k \in DOMAIN folds : Located(folds[k])
    /\ TestFoldsDisjoint
    /\ Covered

LEMMA GapNat == PurgeGap \in Nat /\ PurgeGap = Horizon + Embargo
BY FoldsAssumption DEF PurgeGap

LEMMA FoldsInvInit == FoldsInit => FoldsInv
BY FoldsAssumption, GapNat
   DEF FoldsInit, FoldsInv, TestFoldsDisjoint, Covered, IsOrdered

LEMMA SessionPositions ==
    ASSUME IsOrdered(sessions)
    PROVE  /\ \A a \in DOMAIN sessions : sessions[a] \in Calendar /\ sessions[a] \in Int
           /\ \A a, b \in DOMAIN sessions :
                a <= b => sessions[b] - sessions[a] >= b - a
<1>1. sessions \in Seq(Calendar)
  BY DEF IsOrdered
<1>2. \A a \in DOMAIN sessions : sessions[a] \in Calendar
  BY <1>1
<1>3. Calendar \subseteq Int
  BY FoldsAssumption DEF Calendar
<1> QED
  BY <1>2, <1>3 DEF IsOrdered

\* A test start in range makes a fold of sessions.
LEMMA FoldAtType ==
    ASSUME IsOrdered(sessions), NEW i \in Nat, MinTrain + PurgeGap <= i,
           i + TestFold <= Len(sessions)
    PROVE  /\ FoldAt(i) \in Fold
           /\ {i - PurgeGap, i + 1, i + TestFold} \subseteq DOMAIN sessions
           /\ FoldAt(i).train_end = sessions[i - PurgeGap]
           /\ FoldAt(i).test_start = sessions[i + 1]
           /\ FoldAt(i).test_end = sessions[i + TestFold]
<1>1. sessions \in Seq(Calendar)
  BY DEF IsOrdered
<1>2. Len(sessions) \in Nat /\ DOMAIN sessions = 1..Len(sessions)
  BY <1>1
<1>3. {i - PurgeGap, i + 1, i + TestFold} \subseteq DOMAIN sessions
  BY <1>2, FoldsAssumption, GapNat
<1>4. TrainEndIndex(i) + 1 = i - PurgeGap
  BY GapNat DEF TrainEndIndex
<1>5. \A a \in DOMAIN sessions : sessions[a] \in Calendar
  BY SessionPositions
<1> QED
  BY <1>3, <1>4, <1>5 DEF FoldAt, Fold

\* Between the end of the training sessions and the start of the test sessions of
\* a fold lie the horizon and the embargo, whatever sessions the matrix misses.
LEMMA GapBeforeTest ==
    ASSUME IsOrdered(sessions), NEW i \in Nat, MinTrain + PurgeGap <= i,
           i + TestFold <= Len(sessions),
           NEW s \in TrainSessions(FoldAt(i)), NEW t \in TestSessions(FoldAt(i))
    PROVE  s + Horizon + Embargo < t
<1>1. \A a \in DOMAIN sessions : sessions[a] \in Int
  BY SessionPositions
<1>2. s \in Int /\ t \in Int
  BY <1>1 DEF TrainSessions, TestSessions, SessionSet
<1>3. s <= sessions[i - PurgeGap] /\ sessions[i + 1] <= t
  BY FoldAtType DEF TrainSessions, TestSessions
<1>4. /\ i - PurgeGap \in DOMAIN sessions /\ i + 1 \in DOMAIN sessions
  BY FoldAtType
<1>5. sessions[i + 1] - sessions[i - PurgeGap] >= (i + 1) - (i - PurgeGap)
  BY <1>4, GapNat, SessionPositions
<1>6. sessions[i - PurgeGap] \in Int /\ sessions[i + 1] \in Int
  BY <1>1, <1>4
<1> QED
  BY <1>2, <1>3, <1>5, <1>6, GapNat, FoldsAssumption

LEMMA FoldsInvPurged == FoldsInv => PurgedAndEmbargoed
<1> SUFFICES ASSUME FoldsInv, NEW k \in DOMAIN folds,
                    NEW s \in TrainSessions(folds[k]), NEW t \in TestSessions(folds[k])
             PROVE  s + Horizon + Embargo < t
  BY DEF PurgedAndEmbargoed
<1>1. PICK i \in Nat : /\ MinTrain + PurgeGap <= i
                       /\ i + TestFold <= Len(sessions)
                       /\ folds[k] = FoldAt(i)
  BY DEF FoldsInv, Located
<1> QED
  BY <1>1, GapBeforeTest DEF FoldsInv

\* One turn of the loop keeps all of it, also the folds it does not add.
LEMMA FoldsInvNext ==
    ASSUME FoldsInv, BuildFold
    PROVE  FoldsInv'
<1>1. UNCHANGED sessions /\ next' = next + StepBy /\ next + TestFold <= Len(sessions)
  BY DEF BuildFold, MoreFolds
<1>2. /\ IsOrdered(sessions)' /\ next' \in Nat /\ MinTrain + PurgeGap <= next'
      /\ next' >= next /\ next \in Nat
  BY <1>1, FoldsAssumption, GapNat DEF FoldsInv, IsOrdered
<1>3. \A i : FoldAt(i)' = FoldAt(i)
  BY <1>1 DEF FoldAt
<1>4. \A f : Located(f) => Located(f)'
  <2> SUFFICES ASSUME NEW f, NEW i \in Nat, MinTrain + PurgeGap <= i,
                      i + TestFold <= Len(sessions), i + StepBy <= next, f = FoldAt(i)
               PROVE  Located(f)'
    BY DEF Located
  <2>1. i + StepBy <= next'
    BY <1>2, FoldsAssumption
  <2> QED
    BY <1>1, <1>3, <2>1 DEF Located
<1>5. \A f : f = FoldAt(next) => Located(f)'
  <2> SUFFICES ASSUME NEW f, f = FoldAt(next) PROVE Located(f)'
    OBVIOUS
  <2>1. f = FoldAt(next)
    OBVIOUS
  <2>2. /\ MinTrain + PurgeGap <= next /\ next + TestFold <= Len(sessions')
        /\ next + StepBy <= next' /\ next \in Nat
    BY <1>1, <1>2, FoldsAssumption DEF FoldsInv
  <2>3. \A i : FoldAt(i) = FoldAt(i)'
    BY <1>3
  <2> QED
    BY <2>1, <2>2, <2>3 DEF Located
<1>6. FoldAt(next) \in Fold
  BY <1>1, FoldAtType DEF FoldsInv
<1>7. folds' = Append(folds, FoldAt(next))
  <2>1. ~(TrainEndIndex(next) < MinTrain - 1)
    BY <1>2, FoldsAssumption, GapNat DEF FoldsInv, TrainEndIndex
  <2> QED
    BY <2>1 DEF BuildFold
<1>8. FoldsInv'
  <2>1. /\ folds' \in Seq(Fold)
        /\ DOMAIN folds' = DOMAIN folds \cup {Len(folds) + 1}
        /\ \A k \in DOMAIN folds : folds'[k] = folds[k]
        /\ folds'[Len(folds) + 1] = FoldAt(next)
        /\ DOMAIN folds = 1..Len(folds) /\ Len(folds) \in Nat
    BY <1>6, <1>7 DEF FoldsInv
  <2>2. (\A k \in DOMAIN folds : Located(folds[k]))'
    <3> SUFFICES ASSUME NEW k \in DOMAIN folds', NEW f, f = folds'[k]
                 PROVE  Located(f)'
      OBVIOUS
    <3> QED
      BY <1>4, <1>5, <2>1 DEF FoldsInv
  <2>3. TestFoldsDisjoint'
    <3> SUFFICES ASSUME StepBy >= TestFold, NEW j \in DOMAIN folds', NEW k \in DOMAIN folds',
                        j < k
                 PROVE  folds'[j].test_end < folds'[k].test_start
      BY DEF TestFoldsDisjoint
    <3>1. CASE k \in DOMAIN folds
      BY <2>1, <3>1 DEF FoldsInv, TestFoldsDisjoint
    <3>2. CASE k = Len(folds) + 1
      <4>1. j \in DOMAIN folds
        BY <2>1, <3>2
      <4>2. PICK i \in Nat : /\ MinTrain + PurgeGap <= i
                             /\ i + TestFold <= Len(sessions)
                             /\ i + StepBy <= next
                             /\ folds[j] = FoldAt(i)
        BY <4>1 DEF FoldsInv, Located
      <4>3. /\ folds[j].test_end = sessions[i + TestFold]
            /\ i + TestFold \in DOMAIN sessions
        BY <4>2, FoldAtType DEF FoldsInv
      <4>4. /\ FoldAt(next).test_start = sessions[next + 1]
            /\ next + 1 \in DOMAIN sessions
        BY <1>1, <1>2, FoldAtType DEF FoldsInv
      <4>5. i + TestFold < next + 1
        BY <1>2, <4>2, FoldsAssumption
      <4>6. sessions[next + 1] - sessions[i + TestFold] >= (next + 1) - (i + TestFold)
        <5>1. i + TestFold <= next + 1
          BY <1>2, <4>2, <4>5, FoldsAssumption
        <5> QED
          BY <4>3, <4>4, <5>1, SessionPositions DEF FoldsInv
      <4>7. sessions[next + 1] \in Int /\ sessions[i + TestFold] \in Int
        BY <4>3, <4>4, SessionPositions DEF FoldsInv
      <4>8. sessions[i + TestFold] < sessions[next + 1]
        BY <1>2, <4>2, <4>5, <4>6, <4>7, FoldsAssumption
      <4> QED
        BY <2>1, <3>2, <4>1, <4>3, <4>4, <4>8
    <3> QED
      BY <2>1, <3>1, <3>2
  <2>4. \A f : TestSessions(f)' = TestSessions(f)
    BY <1>1 DEF TestSessions, SessionSet
  <2>5. ASSUME NEW a \in DOMAIN sessions, next < a, a <= next + TestFold
        PROVE  sessions[a] \in TestSessions(FoldAt(next))
    <3>1. /\ FoldAt(next).test_start = sessions[next + 1]
          /\ FoldAt(next).test_end = sessions[next + TestFold]
          /\ next + 1 \in DOMAIN sessions /\ next + TestFold \in DOMAIN sessions
      BY <1>1, <1>2, FoldAtType DEF FoldsInv
    <3>2. a \in Nat /\ next + 1 <= a
      BY <1>2, <2>5 DEF FoldsInv, IsOrdered
    <3>3. sessions[a] - sessions[next + 1] >= a - (next + 1)
      BY <2>5, <3>1, <3>2, SessionPositions DEF FoldsInv
    <3>4. sessions[next + TestFold] - sessions[a] >= next + TestFold - a
      <4>1. PICK z \in DOMAIN sessions : z = next + TestFold
        BY <3>1
      <4>2. a <= z /\ a \in DOMAIN sessions
        BY <2>5, <4>1
      <4>3. \A b, c \in DOMAIN sessions : b <= c => sessions[c] - sessions[b] >= c - b
        BY SessionPositions DEF FoldsInv
      <4>4. sessions[z] - sessions[a] >= z - a
        BY <4>1, <4>2, <4>3
      <4> QED
        BY <1>2, <3>2, <4>1, <4>4, FoldsAssumption
    <3>5. sessions[a] \in Int /\ sessions[next + 1] \in Int /\ sessions[next + TestFold] \in Int
      BY <3>1, SessionPositions DEF FoldsInv
    <3>6. sessions[next + 1] <= sessions[a] /\ sessions[a] <= sessions[next + TestFold]
      BY <1>2, <2>5, <3>2, <3>3, <3>4, <3>5, FoldsAssumption
    <3> QED
      BY <3>1, <3>6 DEF TestSessions, SessionSet
  <2>6. Covered'
    <3> SUFFICES ASSUME StepBy <= TestFold, NEW a \in DOMAIN sessions,
                        a > MinTrain + PurgeGap, a <= next'
                 PROVE  \E k \in DOMAIN folds' : \E f : /\ f = folds'[k]
                                                       /\ sessions[a] \in TestSessions(f)
      BY <1>1, <2>4 DEF Covered, TestSessions, SessionSet, PurgeGap
    <3>1. a \in Nat
      BY DEF FoldsInv, IsOrdered
    <3>2. CASE a <= next
      BY <2>1, <3>2 DEF FoldsInv, Covered
    <3>3. CASE a > next
      <4>1. a <= next + TestFold
        BY <1>1, <1>2, <3>1, FoldsAssumption
      <4> QED
        BY <2>1, <2>5, <3>3, <4>1
    <3> QED
      BY <1>2, <3>1, <3>2, <3>3
  <2> QED
    BY <1>2, <2>1, <2>2, <2>3, <2>6 DEF FoldsInv
<1> QED
  BY <1>8

\* When the loop has ended, what it has passed is all that can be tested.
LEMMA FoldsInvTested == FoldsInv => TestedExactlyOnce
<1> SUFFICES ASSUME FoldsInv, ~MoreFolds, StepBy <= TestFold, NEW a \in DOMAIN sessions,
                    a > MinTrain + PurgeGap, a + TestFold <= Len(sessions) + 1
             PROVE  \E k \in DOMAIN folds : sessions[a] \in TestSessions(folds[k])
  BY DEF TestedExactlyOnce, EverySessionTested, FoldsInv
<1>1. a \in Nat /\ Len(sessions) \in Nat /\ next \in Nat
  BY DEF FoldsInv, IsOrdered
<1>2. a <= next
  BY <1>1, FoldsAssumption DEF MoreFolds
<1> QED
  BY <1>2 DEF FoldsInv, Covered

LEMMA FoldsInvStutter ==
    ASSUME FoldsInv, UNCHANGED foldVars
    PROVE  FoldsInv'
BY DEF FoldsInv, foldVars, IsOrdered, Located, FoldAt, TestFoldsDisjoint, Covered,
       TestSessions, SessionSet

-------------------------------------------------------------------------------
(***************************************************************************)
(* The training that is evaluated on them.                                 *)
(***************************************************************************)

\* Every report is about the sessions of some fold.
ReportsInv ==
    /\ reports \in Seq(Report)
    /\ \A k \in DOMAIN reports : \E j \in DOMAIN folds :
         /\ reports[k].train = TrainSessions(folds[j])
         /\ reports[k].test = TestSessions(folds[j])

WalkForwardInv == FoldsInv /\ ReportsInv

LEMMA SessionSubsets ==
    ASSUME FoldsInv, NEW f
    PROVE  TrainSessions(f) \in SUBSET Calendar /\ TestSessions(f) \in SUBSET Calendar
<1>1. SessionSet \subseteq Calendar
  BY SessionPositions DEF FoldsInv, SessionSet
<1> QED
  BY <1>1 DEF TrainSessions, TestSessions

LEMMA WalkForwardInvInit == WalkForwardInit => WalkForwardInv
BY FoldsInvInit DEF WalkForwardInit, WalkForwardInv, ReportsInv

\* The loop over i only adds folds.
LEMMA AddFoldReports ==
    ASSUME WalkForwardInv, AddFold
    PROVE  WalkForwardInv'
<1>1. FoldsInv'
  BY FoldsInvNext DEF AddFold, WalkForwardInv
<1>2. UNCHANGED <<sessions, reports>>
  BY DEF AddFold, BuildFold
<1>3. /\ DOMAIN folds \subseteq DOMAIN folds'
      /\ \A j \in DOMAIN folds : folds'[j] = folds[j]
  <2>1. folds' = folds \/ folds' = Append(folds, FoldAt(next))
    BY DEF AddFold, BuildFold
  <2>2. folds \in Seq(Fold) /\ FoldAt(next) \in Fold
    BY FoldAtType DEF WalkForwardInv, FoldsInv, AddFold, BuildFold, MoreFolds
  <2> QED
    BY <2>1, <2>2
<1>4. \A f : TrainSessions(f)' = TrainSessions(f) /\ TestSessions(f)' = TestSessions(f)
  BY <1>2 DEF TrainSessions, TestSessions, SessionSet
<1>5. ReportsInv'
  <2> SUFFICES ASSUME NEW k \in DOMAIN reports
               PROVE  \E j \in DOMAIN folds' :
                        \E f : /\ f = folds'[j]
                               /\ reports[k].train = TrainSessions(f)'
                               /\ reports[k].test = TestSessions(f)'
    BY <1>2 DEF ReportsInv, WalkForwardInv, TrainSessions, TestSessions, SessionSet
  <2>1. PICK j \in DOMAIN folds : /\ reports[k].train = TrainSessions(folds[j])
                                  /\ reports[k].test = TestSessions(folds[j])
    BY DEF WalkForwardInv, ReportsInv
  <2> QED
    BY <1>3, <1>4, <2>1
<1> QED
  BY <1>1, <1>5 DEF WalkForwardInv

\* A report is made from the sessions of the fold it evaluates.
LEMMA EvaluateFoldReports ==
    ASSUME WalkForwardInv, EvaluateFold
    PROVE  WalkForwardInv'
<1>1. PICK j \in Unreported :
        reports' = Append(reports, [fold_id |-> j - 1, train |-> TrainSessions(folds[j]),
                                    test |-> TestSessions(folds[j])])
  BY DEF EvaluateFold
<1> DEFINE rep == [fold_id |-> j - 1, train |-> TrainSessions(folds[j]),
                   test |-> TestSessions(folds[j])]
<1>2. UNCHANGED foldVars
  BY DEF EvaluateFold
<1>3. FoldsInv'
  BY <1>2, FoldsInvStutter DEF WalkForwardInv
<1>4. j \in DOMAIN folds /\ j \in Nat /\ j >= 1
  <2>1. folds \in Seq(Fold) /\ j \in DOMAIN folds
    BY DEF Unreported, WalkForwardInv, FoldsInv
  <2> QED
    BY <2>1
<1>5. rep \in Report
  BY <1>4, SessionSubsets DEF Report, WalkForwardInv
<1>6. /\ \A f : TrainSessions(f)' = TrainSessions(f) /\ TestSessions(f)' = TestSessions(f)
      /\ folds' = folds
  BY <1>2 DEF foldVars, TrainSessions, TestSessions, SessionSet
<1>7. /\ reports' \in Seq(Report)
      /\ DOMAIN reports' = DOMAIN reports \cup {Len(reports) + 1}
      /\ \A k \in DOMAIN reports : reports'[k] = reports[k]
      /\ reports'[Len(reports) + 1] = rep
  <2>1. reports \in Seq(Report)
    BY DEF WalkForwardInv, ReportsInv
  <2> HIDE DEF rep
  <2>2. reports' = Append(reports, rep)
    BY <1>1 DEF rep
  <2> QED
    BY <1>5, <2>1, <2>2
<1>8. ReportsInv'
  <2> SUFFICES ASSUME NEW k \in DOMAIN reports'
               PROVE  \E i \in DOMAIN folds' :
                        \E f : /\ f = folds'[i]
                               /\ reports'[k].train = TrainSessions(f)'
                               /\ reports'[k].test = TestSessions(f)'
    BY <1>7 DEF ReportsInv, TrainSessions, TestSessions, SessionSet
  <2>1. CASE k \in DOMAIN reports
    BY <1>6, <1>7, <2>1 DEF WalkForwardInv, ReportsInv
  <2>2. CASE k = Len(reports) + 1
    BY <1>4, <1>6, <1>7, <2>2
  <2> QED
    BY <1>7, <2>1, <2>2
<1> QED
  BY <1>3, <1>8 DEF WalkForwardInv

LEMMA WalkForwardInvNext ==
    WalkForwardInv /\ [WalkForwardNext]_wfVars => WalkForwardInv'
<1> SUFFICES ASSUME WalkForwardInv, [WalkForwardNext]_wfVars PROVE WalkForwardInv'
  OBVIOUS
<1>1. CASE UNCHANGED <<foldVars, reports>>
  BY <1>1, FoldsInvStutter
     DEF WalkForwardInv, ReportsInv, foldVars, TrainSessions, TestSessions, SessionSet
<1>2. CASE AddFold
  BY <1>2, AddFoldReports
<1>3. CASE EvaluateFold
  BY <1>3, EvaluateFoldReports
<1>4. CASE Tune \/ FoldsAdded \/ FoldsEvaluated \/ FitFinal \/ UNCHANGED wfVars
  BY <1>1, <1>4 DEF Tune, FoldsAdded, FoldsEvaluated, FitFinal, wfVars
<1> QED
  BY <1>2, <1>3, <1>4 DEF WalkForwardNext

LEMMA WalkForwardInvHolds == WalkForwardSpec => []WalkForwardInv
<1>1. WalkForwardInit => WalkForwardInv
  BY WalkForwardInvInit
<1>2. WalkForwardInv /\ [WalkForwardNext]_wfVars => WalkForwardInv'
  BY WalkForwardInvNext
<1> QED
  BY <1>1, <1>2, PTL DEF WalkForwardSpec

\* The variables of a training keep their types (per_stock.py, walkforward.py).
THEOREM TypeCorrect == WalkForwardSpec => []WalkForwardTypeOK
<1>1. WalkForwardInit => WalkForwardTypeOK
  BY FoldsInvInit
  DEF WalkForwardInit, WalkForwardTypeOK, FoldsInv, FoldsTypeOK
<1>2. WalkForwardTypeOK /\ WalkForwardInv /\ WalkForwardInv' /\ [WalkForwardNext]_wfVars
        => WalkForwardTypeOK'
  <2> SUFFICES ASSUME WalkForwardTypeOK, WalkForwardInv, WalkForwardInv',
                      [WalkForwardNext]_wfVars
               PROVE  WalkForwardTypeOK'
    OBVIOUS
  <2>1. FoldsTypeOK' /\ reports' \in Seq(Report)
    BY DEF WalkForwardInv, FoldsInv, FoldsTypeOK, ReportsInv
  <2>2. SessionSet \subseteq Calendar
    BY SessionPositions DEF WalkForwardInv, FoldsInv, SessionSet
  <2>3. CASE Tune
    <3>1. \A end : [train |-> {s \in SessionSet : s <= end}, val |-> {s \in SessionSet : s > end}]
                    \in [train : SUBSET Calendar, val : SUBSET Calendar]
      BY <2>2
    <3> QED  BY <2>1, <2>3, <3>1 DEF Tune, WalkForwardTypeOK
  <2>4. CASE FitFinal
    BY <2>1, <2>2, <2>4 DEF FitFinal, WalkForwardTypeOK
  <2>5. CASE AddFold \/ FoldsAdded \/ EvaluateFold \/ FoldsEvaluated \/ UNCHANGED wfVars
    BY <2>1, <2>5
    DEF AddFold, FoldsAdded, EvaluateFold, FoldsEvaluated, wfVars, WalkForwardTypeOK
  <2> QED  BY <2>3, <2>4, <2>5 DEF WalkForwardNext
<1> QED
  BY <1>1, <1>2, WalkForwardInvHolds, PTL DEF WalkForwardSpec

\* Purge and embargo separate the training sessions of every fold from its test
\* sessions, however many sessions the matrix is missing (purge.py).
THEOREM FoldsPurged == WalkForwardSpec => []PurgedAndEmbargoed
<1>1. WalkForwardInv => PurgedAndEmbargoed
  BY FoldsInvPurged DEF WalkForwardInv
<1> QED
  BY <1>1, WalkForwardInvHolds, PTL

\* With a step of a fold every session that can be tested is tested exactly once: with
\* a longer step none is tested twice, with a shorter one none is left out (purge.py).
THEOREM TestedOnce == WalkForwardSpec => []TestedExactlyOnce
<1>1. WalkForwardInv => TestedExactlyOnce
  BY FoldsInvTested DEF WalkForwardInv
<1> QED
  BY <1>1, WalkForwardInvHolds, PTL

\* Every metric that training reports is out of sample by the horizon and the
\* embargo (per_stock.py, walkforward.py).
THEOREM MetricsOutOfSample == WalkForwardSpec => []OutOfSample
<1>1. ASSUME WalkForwardInv PROVE OutOfSample
  <2> SUFFICES ASSUME NEW k \in DOMAIN reports,
                      NEW s \in reports[k].train, NEW t \in reports[k].test
               PROVE  s + Horizon + Embargo < t
    BY DEF OutOfSample
  <2>1. PICK j \in DOMAIN folds : /\ reports[k].train = TrainSessions(folds[j])
                                  /\ reports[k].test = TestSessions(folds[j])
    BY <1>1 DEF WalkForwardInv, ReportsInv
  <2>2. PurgedAndEmbargoed
    BY <1>1, FoldsInvPurged DEF WalkForwardInv
  <2> QED
    BY <2>1, <2>2 DEF PurgedAndEmbargoed
<1> QED
  BY <1>1, WalkForwardInvHolds, PTL
===============================================================================
