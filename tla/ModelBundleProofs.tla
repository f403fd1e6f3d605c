--------------------------- MODULE ModelBundleProofs ---------------------------
(***************************************************************************)
(* Proofs about ModelBundle, for every set of ISINs, trainings and         *)
(* inference runs: types, and, when trainings do not overlap, that every   *)
(* artifact directory is a versioned partition, that a training which      *)
(* reports success is complete, that a bundle is frozen, and that the      *)
(* models of a ranking are of one training.                                *)
(*                                                                         *)
(* The marker of an artifact is looked for four writes before it is        *)
(* written.  That what was seen still holds (CheckHolds) needs one         *)
(* training at a time, and that a training is at one artifact at a time.   *)
(* The frozen bundle adds what a training in progress has already written  *)
(* of its list and what it may still touch (FreezeInv); the ranking adds   *)
(* what a quiet directory holds and what an inference run has loaded of it *)
(* (ServeInv).                                                             *)
(***************************************************************************)
EXTENDS ModelBundle, TLAPS

Progressing == {"check", "bullish", "bearish", "allowlist", "manifest", "metrics",
                "check_bundle", "bundle", "bundle_allowlist"}

Places == Progressing \cup {"idle", "success", "refused", "failed"}

\* A step of a training moves only its own program counter, or also takes one
\* artifact off its list.
LEMMA GotoType ==
    ASSUME BundleTypeOK, NEW r \in Train, NEW label \in Places, Goto(r, label),
           label \in {"check_bundle", "bundle", "bundle_allowlist"} =>
               train[r].mode = "per_stock"
    PROVE  /\ train' \in [Train -> Training]
           /\ \A q \in Train :
                train'[q].pc \in {"check_bundle", "bundle", "bundle_allowlist"} =>
                    train'[q].mode = "per_stock"
           /\ train'[r] = [train[r] EXCEPT !.pc = label]
           /\ \A q \in Train \ {r} : train'[q] = train[q]
BY DEF BundleTypeOK, Goto, Training, Places, Progressing

Files == {"bullish", "bearish", "allowlist", "manifest", "metrics"}

Wrote(d, file, entry) == files' = [files EXCEPT ![d][file] = entry]

\* A file of an artifact is written or torn: the markers of the others stay.
LEMMA WriteFileType ==
    ASSUME BundleTypeOK, NEW d \in Dir, NEW file \in Files,
           NEW entry \in Train \cup {Torn}, Wrote(d, file, entry)
    PROVE  /\ files' \in [Dir -> Artifact]
           /\ \A e \in Dir \ {d} : files'[e].manifest = files[e].manifest
           /\ file = "manifest" => files'[d].manifest = entry
           /\ file # "manifest" => files'[d].manifest = files[d].manifest
BY DEF BundleTypeOK, Artifact, Entry, Files, Wrote

LEMMA AfterArtifactType ==
    ASSUME BundleTypeOK, NEW r \in Train, NEW d \in Dir
    PROVE  /\ AfterArtifact(r, d) \in {"check", "success", "check_bundle"}
           /\ AfterArtifact(r, d) = "check_bundle" => train[r].mode = "per_stock"
BY DEF BundleTypeOK, Training, AfterArtifact

-------------------------------------------------------------------------------

\* What a step of a training or its fault may do to the trainings: the others keep
\* their state, and its own takes one of these steps.
Moved(r) ==
    \/ /\ train[r].pc = "idle" /\ (Overlap \/ NoTraining)
       /\ \E label \in {"check", "failed"}, mode \in Modes, over \in BOOLEAN,
            isins \in SUBSET Isin :
            train'[r] = [pc |-> label, mode |-> mode, over |-> over, isins |-> isins,
                         todo |-> IF mode = "pooled" THEN {Root} ELSE isins]
    \/ /\ InProgress(r)
       /\ train'[r] \in Training
       /\ train'[r].pc # "idle"
       /\ train'[r].mode = train[r].mode /\ train'[r].over = train[r].over
       /\ train'[r].isins = train[r].isins
       /\ train'[r].todo \subseteq train[r].todo

LEMMA TrainingMoves ==
    ASSUME BundleTypeOK, NEW r \in Train, TrainStep(r) \/ Fault(r)
    PROVE  /\ train' \in [Train -> Training]
           /\ \A q \in Train :
                train'[q].pc \in {"check_bundle", "bundle", "bundle_allowlist"} =>
                    train'[q].mode = "per_stock"
           /\ \A q \in Train \ {r} : train'[q] = train[q]
           /\ Moved(r)
<1>1. /\ train \in [Train -> Training] /\ train[r] \in Training
      /\ Modes \subseteq {"pooled", "per_stock"}
  BY ModelBundleAssumption DEF BundleTypeOK
<1>2. ASSUME NEW mode \in Modes, NEW over \in BOOLEAN, NEW isins \in SUBSET Isin,
             BeginTraining(r, mode, over, isins)
      PROVE  /\ train' \in [Train -> Training]
             /\ \A q \in Train :
                  train'[q].pc \in {"check_bundle", "bundle", "bundle_allowlist"} =>
                      train'[q].mode = "per_stock"
             /\ \A q \in Train \ {r} : train'[q] = train[q]
             /\ Moved(r)
  <2>1. PICK label \in {"check", "failed"} :
          train' = [train EXCEPT ![r] =
                     [pc |-> label, mode |-> mode, over |-> over, isins |-> isins,
                      todo |-> IF mode = "pooled" THEN {Root} ELSE isins]]
    BY <1>2 DEF BeginTraining
  <2>2. train'[r] = [pc |-> label, mode |-> mode, over |-> over, isins |-> isins,
                     todo |-> IF mode = "pooled" THEN {Root} ELSE isins]
    BY <1>1, <2>1
  <2>3. train'[r] \in Training
    BY <1>1, <2>2 DEF Training, Dir
  <2>4. /\ train' \in [Train -> Training]
        /\ \A q \in Train \ {r} : train'[q] = train[q]
    BY <1>1, <2>1, <2>2, <2>3
  <2>5. train'[r].pc \in {"check", "failed"}
    BY <2>2
  <2>6. /\ train[r].pc = "idle"
        /\ Overlap \/ NoTraining
    BY <1>2 DEF BeginTraining
  <2>7. \E l \in {"check", "failed"}, m \in Modes, o \in BOOLEAN, i \in SUBSET Isin :
          train'[r] = [pc |-> l, mode |-> m, over |-> o, isins |-> i,
                       todo |-> IF m = "pooled" THEN {Root} ELSE i]
    BY <2>2
  <2>8. Moved(r)
    BY <2>6, <2>7 DEF Moved
  <2> QED  BY <2>4, <2>5, <2>8 DEF BundleTypeOK
<1>3. ASSUME NEW label \in Places \ {"idle"}, Goto(r, label), InProgress(r),
             label \in {"check_bundle", "bundle", "bundle_allowlist"} =>
                 train[r].mode = "per_stock"
      PROVE  /\ train' \in [Train -> Training]
             /\ \A q \in Train :
                  train'[q].pc \in {"check_bundle", "bundle", "bundle_allowlist"} =>
                      train'[q].mode = "per_stock"
             /\ \A q \in Train \ {r} : train'[q] = train[q]
             /\ Moved(r)
  <2>1. /\ train' \in [Train -> Training]
        /\ \A q \in Train :
             train'[q].pc \in {"check_bundle", "bundle", "bundle_allowlist"} =>
                 train'[q].mode = "per_stock"
        /\ \A q \in Train \ {r} : train'[q] = train[q]
        /\ train'[r] = [train[r] EXCEPT !.pc = label]
    BY <1>3, GotoType
  <2>2. Moved(r)
    BY <1>1, <1>3, <2>1 DEF Moved, Training
  <2> QED  BY <2>1, <2>2
<1>4. ASSUME NEW d \in Dir, WriteMetrics(r, d)
      PROVE  /\ train' \in [Train -> Training]
             /\ \A q \in Train :
                  train'[q].pc \in {"check_bundle", "bundle", "bundle_allowlist"} =>
                      train'[q].mode = "per_stock"
             /\ \A q \in Train \ {r} : train'[q] = train[q]
             /\ Moved(r)
  <2>1. train' = [train EXCEPT ![r].pc = AfterArtifact(r, d), ![r].todo = @ \ {d}]
    BY <1>4 DEF WriteMetrics
  <2>2. train'[r] = [train[r] EXCEPT !.pc = AfterArtifact(r, d), !.todo = train[r].todo \ {d}]
    BY <1>1, <2>1 DEF Training
  <2>3. train'[r] \in Training
    <3>1. AfterArtifact(r, d) \in {"check", "success", "check_bundle"}
      BY AfterArtifactType
    <3>2. train[r].todo \ {d} \in SUBSET Dir
      BY <1>1 DEF Training
    <3> QED  BY <1>1, <2>2, <3>1, <3>2 DEF Training
  <2>4. /\ train' \in [Train -> Training]
        /\ \A q \in Train \ {r} : train'[q] = train[q]
    BY <1>1, <2>1, <2>3
  <2>5. InProgress(r)
    BY <1>4 DEF WriteMetrics, InProgress
  <2>6. /\ train'[r].pc = AfterArtifact(r, d) /\ train'[r].mode = train[r].mode
        /\ train'[r].over = train[r].over /\ train'[r].isins = train[r].isins
        /\ train'[r].todo = train[r].todo \ {d}
    BY <1>1, <2>2 DEF Training
  <2>7. Moved(r)
    BY <2>3, <2>5, <2>6, AfterArtifactType DEF Moved
  <2> QED  BY <2>4, <2>6, <2>7, AfterArtifactType DEF BundleTypeOK
<1>5. CASE Fault(r)
  BY <1>3, <1>5 DEF Fault, Places
<1>6. ASSUME NEW d \in Dir, CheckArtifact(r, d)
      PROVE  Goto(r, "refused") \/ Goto(r, "bullish")
  BY <1>6 DEF CheckArtifact
<1>7. ASSUME NEW d \in Dir, NEW file, NEW label, WriteFile(r, d, file, label)
      PROVE  Goto(r, label) /\ train[r].pc = file
  BY <1>7 DEF WriteFile
<1>8. CASE \E d \in Dir : CheckArtifact(r, d)
  BY <1>3, <1>6, <1>8 DEF CheckArtifact, InProgress, Places, Progressing
<1>9. CASE \E d \in Dir : WriteArtifact(r, d)
  BY <1>3, <1>4, <1>7, <1>9 DEF WriteArtifact, InProgress, Places, Progressing
<1>10. CASE CheckBundle(r) \/ WriteBundle(r) \/ WriteBundleAllowlist(r)
  <2>1. train[r].pc \in {"check_bundle", "bundle"} => train[r].mode = "per_stock"
    BY DEF BundleTypeOK
  <2> QED
    BY <1>3, <1>10, <2>1
    DEF CheckBundle, WriteBundle, WriteBundleAllowlist, InProgress, Places, Progressing
<1> QED  BY <1>2, <1>5, <1>8, <1>9, <1>10 DEF TrainStep

\* What a step of a training or its fault may do to everything else.  The marker of
\* an artifact changes only when a training at that artifact writes its own.
Marked(r) ==
    \A d \in Dir :
        \/ files'[d].manifest = files[d].manifest
        \/ /\ train[r].pc = "manifest" /\ AtArtifact(r, d)
           /\ files'[d].manifest = r

Filed(r) ==
    /\ files' \in [Dir -> Artifact] /\ bundle' \in Bundle
    /\ score' \in [Score -> Scoring] /\ faults' \in 0..MaxFaults
    /\ Marked(r)

LEMMA UntouchedFiles ==
    ASSUME BundleTypeOK, NEW r \in Train, UNCHANGED <<files, bundle, score, faults>>
    PROVE  Filed(r)
BY DEF BundleTypeOK, Filed, Marked

LEMMA DisturbType ==
    ASSUME BundleTypeOK, Disturb
    PROVE  score' \in [Score -> Scoring]
BY DEF BundleTypeOK, Disturb, Scoring

LEMMA WriteFileFiled ==
    ASSUME BundleTypeOK, NEW r \in Train, NEW d \in Dir, NEW label,
           NEW file \in {"bullish", "bearish", "allowlist", "manifest"},
           WriteFile(r, d, file, label)
    PROVE  Filed(r)
<1>1. /\ files' = [files EXCEPT ![d][file] = r]
      /\ train[r].pc = file /\ AtArtifact(r, d)
      /\ UNCHANGED <<bundle, score, faults>>
  BY DEF WriteFile
<1>2. Wrote(d, file, r) /\ file \in Files
  BY <1>1 DEF Wrote, Files
<1>3. /\ files' \in [Dir -> Artifact]
      /\ \A e \in Dir \ {d} : files'[e].manifest = files[e].manifest
      /\ file = "manifest" => files'[d].manifest = r
      /\ file # "manifest" => files'[d].manifest = files[d].manifest
  BY <1>2, WriteFileType
<1> QED  BY <1>1, <1>3 DEF Filed, Marked, BundleTypeOK

LEMMA OtherFileFiled ==
    ASSUME BundleTypeOK, NEW r \in Train, NEW d \in Dir, NEW file \in Files \ {"manifest"},
           Wrote(d, file, r), UNCHANGED <<bundle, score, faults>>
    PROVE  Filed(r)
<1>1. files' \in [Dir -> Artifact] /\ \A e \in Dir : files'[e].manifest = files[e].manifest
  BY WriteFileType
<1> QED  BY <1>1 DEF Filed, Marked, BundleTypeOK

LEMMA FaultFiled ==
    ASSUME BundleTypeOK, NEW r \in Train, Fault(r)
    PROVE  Filed(r)
<1>1. UNCHANGED <<bundle, score>> /\ faults' = faults + 1 /\ faults < MaxFaults
  BY DEF Fault
<1>2. faults' \in 0..MaxFaults
  BY <1>1, ModelBundleAssumption DEF BundleTypeOK
<1>3. files' \in [Dir -> Artifact] /\ \A e \in Dir : files'[e].manifest = files[e].manifest
  <2>1. CASE UNCHANGED files
    BY <2>1 DEF BundleTypeOK
  <2>2. ASSUME NEW d \in Dir, train[r].pc \in {"bullish", "bearish", "allowlist"},
               files' = [files EXCEPT ![d][train[r].pc] = Torn]
        PROVE  /\ files' \in [Dir -> Artifact]
               /\ \A e \in Dir : files'[e].manifest = files[e].manifest
    <3>1. PICK file \in {"bullish", "bearish", "allowlist"} : file = train[r].pc
      BY <2>2
    <3>2. Wrote(d, file, Torn) /\ file \in Files /\ file # "manifest"
      BY <2>2, <3>1 DEF Wrote, Files
    <3> QED  BY <3>2, WriteFileType
  <2> QED  BY <2>1, <2>2 DEF Fault
<1> QED  BY <1>1, <1>2, <1>3 DEF Filed, Marked, BundleTypeOK

LEMMA TrainingFiles ==
    ASSUME BundleTypeOK, NEW r \in Train, TrainStep(r) \/ Fault(r)
    PROVE  Filed(r)
<1>1. ASSUME NEW mode \in Modes, NEW over \in BOOLEAN, NEW isins \in SUBSET Isin,
             BeginTraining(r, mode, over, isins)
      PROVE  Filed(r)
  BY <1>1, DisturbType DEF BeginTraining, Filed, Marked, BundleTypeOK
<1>2. ASSUME NEW d \in Dir, CheckArtifact(r, d)
      PROVE  Filed(r)
  BY <1>2, UntouchedFiles DEF CheckArtifact
<1>3. ASSUME NEW d \in Dir, WriteMetrics(r, d)
      PROVE  Filed(r)
  <2>1. Wrote(d, "metrics", r) /\ UNCHANGED <<bundle, score, faults>>
    BY <1>3 DEF WriteMetrics, Wrote
  <2> QED  BY <2>1, OtherFileFiled DEF Files
<1>4. ASSUME NEW d \in Dir, WriteArtifact(r, d)
      PROVE  Filed(r)
  BY <1>3, <1>4, WriteFileFiled DEF WriteArtifact
<1>5. CASE CheckBundle(r)
  BY <1>5, UntouchedFiles DEF CheckBundle
<1>6. CASE WriteBundle(r)
  <2>1. /\ bundle' = [by |-> r, isins |-> train[r].isins]
        /\ UNCHANGED <<files, score, faults>>
    BY <1>6 DEF WriteBundle
  <2>2. bundle' \in Bundle
    BY <2>1 DEF BundleTypeOK, Training, Bundle
  <2> QED  BY <2>1, <2>2 DEF Filed, Marked, BundleTypeOK
<1>7. CASE WriteBundleAllowlist(r)
  <2>1. Wrote(Root, "allowlist", r) /\ UNCHANGED <<bundle, score, faults>>
    BY <1>7 DEF WriteBundleAllowlist, Wrote
  <2> QED  BY <2>1, OtherFileFiled DEF Files, Dir
<1>8. CASE Fault(r)
  BY <1>8, FaultFiled
<1> QED  BY <1>1, <1>2, <1>4, <1>5, <1>6, <1>7, <1>8 DEF TrainStep

-------------------------------------------------------------------------------

Failed(q) ==
    score'[q] = [score[q] EXCEPT !.pc = "failed", !.todo = {}, !.loaded = Nothing]

\* A read of an inference run changes nothing but its own state.
LEMMA Advanced ==
    ASSUME BundleTypeOK, NEW q \in Score, NEW ok \in BOOLEAN, NEW next, Advance(q, ok, next)
    PROVE  /\ UNCHANGED <<files, bundle, train, faults>>
           /\ \A p \in Score \ {q} : score'[p] = score[p]
           /\ (ok /\ score'[q] = next) \/ (~ok /\ Failed(q))
           /\ (ok => next \in Scoring) => score' \in [Score -> Scoring]
<1>1. score \in [Score -> Scoring] /\ score[q] \in Scoring
  BY DEF BundleTypeOK
<1>2. Nothing \in [Dir -> Artifact]
  BY DEF Nothing, NoArtifact, Artifact, Entry
<1>3. CASE ok
  <2>1. score' = [score EXCEPT ![q] = next]
    BY <1>3 DEF Advance
  <2> QED  BY <1>1, <1>3, <2>1 DEF Advance
<1>4. CASE ~ok
  <2> DEFINE failed == [score[q] EXCEPT !.pc = "failed", !.todo = {}, !.loaded = Nothing]
  <2>1. failed \in Scoring
    BY <1>1, <1>2 DEF Scoring
  <2>2. score' = [score EXCEPT ![q] = failed]
    BY <1>1, <1>4 DEF Advance
  <2>3. score'[q] = failed /\ \A p \in Score \ {q} : score'[p] = score[p]
    BY <1>1, <2>2
  <2> QED  BY <1>1, <1>4, <2>1, <2>2, <2>3 DEF Advance, Failed
<1> QED  BY <1>3, <1>4

\* The states in which an inference run is before its read of a file.
LEMMA AfterLoadType ==
    ASSUME NEW q \in Score
    PROVE  AfterLoad(q) \in {"panel", "marker", "scored"}
BY DEF AfterLoad

LEMMA ReadFileNext ==
    ASSUME BundleTypeOK, NEW q \in Score,
           NEW file \in {"allowlist", "manifest", "bullish", "bearish"},
           NEW label \in {"manifest", "bullish", "bearish", "panel", "marker", "scored"},
           NEW todo \in SUBSET score[q].todo
    PROVE  [score[q] EXCEPT !.pc = label, !.todo = todo,
                            !.loaded[score[q].at][file] = files[score[q].at][file]] \in Scoring
<1> DEFINE at == score[q].at
           a == [score[q].loaded[at] EXCEPT ![file] = files[at][file]]
<1>1. /\ score[q] \in Scoring /\ at \in Dir /\ score[q].loaded \in [Dir -> Artifact]
      /\ files[at] \in Artifact /\ score[q].loaded[at] \in Artifact
  BY DEF BundleTypeOK, Scoring
<1>2. a \in Artifact
  BY <1>1 DEF Artifact
<1>3. [score[q].loaded EXCEPT ![at] = a] \in [Dir -> Artifact]
  BY <1>1, <1>2
<1>4. [score[q] EXCEPT !.pc = label, !.todo = todo,
                       !.loaded = [score[q].loaded EXCEPT ![at] = a]] \in Scoring
  BY <1>1, <1>3 DEF Scoring
<1> QED  BY <1>1, <1>4 DEF Scoring

LEMMA ScoringMoves ==
    ASSUME BundleTypeOK, NEW q \in Score, ScoreStep(q)
    PROVE  /\ UNCHANGED <<files, bundle, train, faults>> /\ score' \in [Score -> Scoring]
           /\ \A p \in Score \ {q} : score'[p] = score[p]
<1>1. /\ score[q] \in Scoring /\ Nothing \in [Dir -> Artifact] /\ Root \in Dir
      /\ NoTraining \in BOOLEAN /\ PerStock \in BOOLEAN
  BY DEF BundleTypeOK, Nothing, NoArtifact, Artifact, Entry, Dir, NoTraining, PerStock
<1>2. ASSUME NEW ok \in BOOLEAN, NEW next, ok => next \in Scoring, Advance(q, ok, next)
      PROVE  /\ UNCHANGED <<files, bundle, train, faults>> /\ score' \in [Score -> Scoring]
             /\ \A p \in Score \ {q} : score'[p] = score[p]
  BY <1>2, Advanced
<1>3. CASE BeginScoring(q)
  <2> DEFINE next == [score[q] EXCEPT !.pc = IF PerStock THEN "panel" ELSE "look",
                                      !.todo = IF PerStock THEN {} ELSE {Root},
                                      !.quiet = NoTraining]
  <2>1. next \in Scoring
    BY <1>1 DEF Scoring
  <2>2. Advance(q, TRUE, next)
    BY <1>3 DEF BeginScoring
  <2> HIDE DEF next
  <2> QED  BY <1>2, <2>1, <2>2
<1>4. ASSUME NEW panel \in SUBSET Isin, ReadPanel(q, panel)
      PROVE  /\ UNCHANGED <<files, bundle, train, faults>> /\ score' \in [Score -> Scoring]
             /\ \A p \in Score \ {q} : score'[p] = score[p]
  <2> DEFINE next == [score[q] EXCEPT !.pc = IF PerStock THEN "bundle" ELSE "look",
                                      !.again = TRUE,
                                      !.todo = IF PerStock THEN panel ELSE {Root},
                                      !.loaded = Nothing]
  <2>1. next \in Scoring
    BY <1>1 DEF Scoring, Dir
  <2>2. Advance(q, TRUE, next)
    BY <1>4 DEF ReadPanel
  <2> HIDE DEF next
  <2> QED  BY <1>2, <2>1, <2>2
<1>5. CASE ReadBundle(q) \/ LookForBundle(q)
  <2> DEFINE next == [score[q] EXCEPT !.pc = "marker"]
  <2>1. next \in Scoring
    BY <1>1 DEF Scoring
  <2>2. PICK ok \in BOOLEAN : Advance(q, ok, next)
    BY <1>5 DEF ReadBundle, LookForBundle
  <2> HIDE DEF next
  <2> QED  BY <1>2, <2>1, <2>2
<1>6. ASSUME NEW d \in Dir, FindMarker(q, d)
      PROVE  /\ UNCHANGED <<files, bundle, train, faults>> /\ score' \in [Score -> Scoring]
             /\ \A p \in Score \ {q} : score'[p] = score[p]
  <2> DEFINE next == [score[q] EXCEPT !.pc = "allowlist", !.at = d]
  <2>1. next \in Scoring
    BY <1>1 DEF Scoring
  <2>2. Advance(q, files[d].manifest # None, next)
    BY <1>6 DEF FindMarker
  <2> HIDE DEF next
  <2> QED  BY <1>2, <2>1, <2>2
<1>7. ASSUME NEW file \in {"allowlist", "manifest", "bullish", "bearish"},
             NEW label \in {"manifest", "bullish", "bearish", "panel", "marker", "scored"},
             NEW todo \in SUBSET score[q].todo, ReadFile(q, file, label, todo)
      PROVE  /\ UNCHANGED <<files, bundle, train, faults>> /\ score' \in [Score -> Scoring]
             /\ \A p \in Score \ {q} : score'[p] = score[p]
  <2> DEFINE next == [score[q] EXCEPT !.pc = label, !.todo = todo,
                        !.loaded[score[q].at][file] = files[score[q].at][file]]
             ok == files[score[q].at][file] \notin {None, Torn}
  <2>1. next \in Scoring
    BY ReadFileNext
  <2>2. Advance(q, ok, next) /\ ok \in BOOLEAN
    BY <1>7 DEF ReadFile
  <2> HIDE DEF next, ok
  <2> QED  BY <1>2, <2>1, <2>2
<1>8. CASE LoadArtifact(q)
  BY <1>7, <1>8, AfterLoadType DEF LoadArtifact
<1>9. CASE ReadHalfWritten(q)
  BY <1>1, <1>2, <1>9 DEF ReadHalfWritten
<1> QED
  BY <1>3, <1>4, <1>5, <1>6, <1>8, <1>9 DEF ScoreStep

\* The variables keep their types: files on disk and the local variables of
\* trainings and inference runs.
THEOREM TypeCorrect == BundleSpec => []BundleTypeOK
<1>1. BundleInit => BundleTypeOK
  BY ModelBundleAssumption
  DEF BundleInit, BundleTypeOK, Artifact, NoArtifact, Entry, Bundle, Training, Scoring, Dir
<1>2. BundleTypeOK /\ [BundleNext]_bundleVars => BundleTypeOK'
  <2> SUFFICES ASSUME BundleTypeOK, [BundleNext]_bundleVars PROVE BundleTypeOK'
    OBVIOUS
  <2>1. ASSUME NEW r \in Train, TrainStep(r) \/ Fault(r) PROVE BundleTypeOK'
    BY <2>1, TrainingMoves, TrainingFiles DEF Filed, BundleTypeOK
  <2>2. ASSUME NEW q \in Score, ScoreStep(q) PROVE BundleTypeOK'
    BY <2>2, ScoringMoves DEF BundleTypeOK
  <2>3. CASE UNCHANGED bundleVars
    BY <2>3 DEF bundleVars, BundleTypeOK
  <2> QED  BY <2>1, <2>2, <2>3 DEF BundleNext
<1> QED  BY <1>1, <1>2, PTL DEF BundleSpec

-------------------------------------------------------------------------------

\* Where a training has looked for the marker and not written it yet.
Looked == {"bullish", "bearish", "allowlist", "manifest"}

OneTraining == \A r, s \in Train : InProgress(r) /\ InProgress(s) => r = s

OneKindOfArtifact ==
    \A r \in Train : train[r].todo \subseteq Isin \/ train[r].todo \subseteq {Root}

FlagFromStart == \A r \in Train : train[r].pc = "idle" => ~train[r].over

CheckHolds ==
    \A r \in Train, d \in Dir :
        train[r].pc \in Looked /\ AtArtifact(r, d) =>
            files[d].manifest = None \/ train[r].over

MarkerInv == OneTraining /\ OneKindOfArtifact /\ FlagFromStart /\ CheckHolds

\* A training is at one artifact at a time.
LEMMA OneArtifact ==
    ASSUME OneKindOfArtifact, NEW r \in Train, NEW d \in Dir, NEW e \in Dir,
           AtArtifact(r, d), AtArtifact(r, e)
    PROVE  d = e
<1>1. d \in train[r].todo /\ e \in train[r].todo /\ (d = e \/ d < e) /\ (e = d \/ e < d)
  BY DEF AtArtifact
<1>2. CASE train[r].todo \subseteq Isin
  <2>1. d \in Nat /\ e \in Nat
    BY <1>1, <1>2, ModelBundleAssumption
  <2> QED  BY <1>1, <2>1
<1>3. CASE train[r].todo \subseteq {Root}
  BY <1>1, <1>3
<1> QED  BY <1>2, <1>3 DEF OneKindOfArtifact

\* How a training gets to where the marker has been looked for: by looking, or by
\* writing a file that is not the marker.
LEMMA HowLooked ==
    ASSUME BundleTypeOK, NEW r \in Train, TrainStep(r) \/ Fault(r),
           train'[r].pc \in Looked
    PROVE  /\ train'[r].todo = train[r].todo /\ train'[r].over = train[r].over
           /\ \A d \in Dir : files'[d].manifest = files[d].manifest
           /\ \/ train[r].pc \in Looked
              \/ \E d \in Dir : /\ AtArtifact(r, d)
                                /\ files[d].manifest = None \/ train[r].over
<1>1. train \in [Train -> Training] /\ train[r] \in Training
  BY DEF BundleTypeOK
<1>2. ASSUME NEW label, Goto(r, label)
      PROVE  /\ train'[r].pc = label /\ train'[r].todo = train[r].todo
             /\ train'[r].over = train[r].over
  BY <1>1, <1>2 DEF Goto, Training
<1>3. ASSUME NEW d \in Dir, CheckArtifact(r, d)
      PROVE  /\ train'[r].todo = train[r].todo /\ train'[r].over = train[r].over
             /\ UNCHANGED files /\ AtArtifact(r, d)
             /\ files[d].manifest = None \/ train[r].over
  <2>1. ~(files[d].manifest # None /\ ~train[r].over)
    <3>1. SUFFICES ASSUME files[d].manifest # None /\ ~train[r].over PROVE FALSE
      OBVIOUS
    <3>2. Goto(r, "refused")
      BY <1>3, <3>1 DEF CheckArtifact
    <3> QED  BY <1>2, <3>2 DEF Looked
  <2>2. PICK label : Goto(r, label)
    BY <1>3 DEF CheckArtifact
  <2> QED  BY <1>2, <1>3, <2>1, <2>2 DEF CheckArtifact
<1>4. ASSUME NEW d \in Dir, WriteArtifact(r, d)
      PROVE  /\ train'[r].todo = train[r].todo /\ train'[r].over = train[r].over
             /\ train[r].pc \in {"bullish", "bearish", "allowlist"}
  <2>1. ~WriteMetrics(r, d)
    <3>1. SUFFICES ASSUME WriteMetrics(r, d) PROVE FALSE
      OBVIOUS
    <3>2. train' = [train EXCEPT ![r].pc = AfterArtifact(r, d), ![r].todo = @ \ {d}]
      BY <3>1 DEF WriteMetrics
    <3>3. train'[r].pc = AfterArtifact(r, d)
      BY <1>1, <3>2 DEF Training
    <3> QED  BY <3>3, AfterArtifactType DEF Looked
  <2>2. ~WriteFile(r, d, "manifest", "metrics")
    BY <1>2 DEF WriteFile, Looked
  <2>3. PICK file \in {"bullish", "bearish", "allowlist"},
             label \in {"bearish", "allowlist", "manifest"} :
          WriteFile(r, d, file, label)
    BY <1>4, <2>1, <2>2 DEF WriteArtifact
  <2> QED  BY <1>2, <2>3 DEF WriteFile
<1>5. ~Fault(r)
  BY <1>2 DEF Fault, Looked
<1>6. ~CheckBundle(r) /\ ~WriteBundle(r) /\ ~WriteBundleAllowlist(r)
  BY <1>2 DEF CheckBundle, WriteBundle, WriteBundleAllowlist, Looked
<1>7. ASSUME NEW mode \in Modes, NEW over \in BOOLEAN, NEW isins \in SUBSET Isin,
             BeginTraining(r, mode, over, isins)
      PROVE  FALSE
  <2>1. PICK label \in {"check", "failed"} :
          train' = [train EXCEPT ![r] =
                     [pc |-> label, mode |-> mode, over |-> over, isins |-> isins,
                      todo |-> IF mode = "pooled" THEN {Root} ELSE isins]]
    BY <1>7 DEF BeginTraining
  <2>2. train'[r].pc = label
    BY <1>1, <2>1
  <2> QED  BY <2>2 DEF Looked
<1>8. Marked(r)
  BY TrainingFiles DEF Filed
<1>9. PICK d \in Dir : CheckArtifact(r, d) \/ WriteArtifact(r, d)
  BY <1>5, <1>6, <1>7 DEF TrainStep
<1>10. CASE CheckArtifact(r, d)
  BY <1>3, <1>10
<1>11. CASE WriteArtifact(r, d)
  BY <1>4, <1>8, <1>11 DEF Marked, Looked
<1> QED  BY <1>9, <1>10, <1>11

LEMMA MarkerInvInit == BundleInit => MarkerInv
BY DEF BundleInit, MarkerInv, OneTraining, OneKindOfArtifact, FlagFromStart, CheckHolds,
       InProgress, Looked

LEMMA TrainingKeepsMarkerInv ==
    ASSUME Overlap = FALSE, BundleTypeOK, MarkerInv,
           NEW r \in Train, TrainStep(r) \/ Fault(r)
    PROVE  MarkerInv'
<1>1. /\ train \in [Train -> Training] /\ train' \in [Train -> Training]
      /\ \A q \in Train \ {r} : train'[q] = train[q]
      /\ Moved(r)
  BY TrainingMoves DEF BundleTypeOK
<1>2. \A q \in Train \ {r} : ~InProgress(q)
  BY <1>1 DEF Moved, MarkerInv, OneTraining, NoTraining
<1>3. \A q \in Train \ {r} : ~InProgress(q)'
  BY <1>1, <1>2 DEF InProgress
<1>4. OneTraining'
  BY <1>3 DEF OneTraining
<1>5. train'[r].todo \subseteq Isin \/ train'[r].todo \subseteq {Root}
  <2>1. CASE train'[r].todo \subseteq train[r].todo
    BY <2>1 DEF MarkerInv, OneKindOfArtifact
  <2>2. ASSUME NEW label, NEW mode, NEW over, NEW isins \in SUBSET Isin,
               train'[r] = [pc |-> label, mode |-> mode, over |-> over, isins |-> isins,
                            todo |-> IF mode = "pooled" THEN {Root} ELSE isins]
        PROVE  train'[r].todo \subseteq Isin \/ train'[r].todo \subseteq {Root}
    BY <2>2
  <2> QED  BY <1>1, <2>1, <2>2 DEF Moved
<1>6. OneKindOfArtifact'
  BY <1>1, <1>5 DEF MarkerInv, OneKindOfArtifact
<1>7. train'[r].pc # "idle"
  BY <1>1 DEF Moved
<1>8. FlagFromStart'
  BY <1>1, <1>7 DEF MarkerInv, FlagFromStart
<1>9. ASSUME NEW d \in Dir, train'[r].pc \in Looked, AtArtifact(r, d)'
      PROVE  files'[d].manifest = None \/ train'[r].over
  <2>1. /\ train'[r].todo = train[r].todo /\ train'[r].over = train[r].over
        /\ files'[d].manifest = files[d].manifest
        /\ \/ train[r].pc \in Looked
           \/ \E e \in Dir : /\ AtArtifact(r, e)
                             /\ files[e].manifest = None \/ train[r].over
    BY <1>9, HowLooked
  <2>2. AtArtifact(r, d)
    BY <1>9, <2>1 DEF AtArtifact
  <2>3. CASE train[r].pc \in Looked
    BY <2>1, <2>2, <2>3 DEF MarkerInv, CheckHolds
  <2>4. ASSUME NEW e \in Dir, AtArtifact(r, e), files[e].manifest = None \/ train[r].over
        PROVE  files[d].manifest = None \/ train[r].over
    BY <2>2, <2>4, OneArtifact DEF MarkerInv
  <2> QED  BY <2>1, <2>3, <2>4
<1>10. CheckHolds'
  BY <1>3, <1>9 DEF CheckHolds, InProgress, Looked
<1> QED  BY <1>4, <1>6, <1>8, <1>10 DEF MarkerInv

LEMMA MarkerInvNext ==
    ASSUME Overlap = FALSE, BundleTypeOK, MarkerInv, [BundleNext]_bundleVars
    PROVE  MarkerInv'
<1>1. CASE UNCHANGED <<files, train>>
  BY <1>1
  DEF MarkerInv, OneTraining, OneKindOfArtifact, FlagFromStart, CheckHolds, InProgress, AtArtifact
<1>2. ASSUME NEW q \in Score, ScoreStep(q) PROVE UNCHANGED <<files, train>>
  BY <1>2, ScoringMoves
<1>3. CASE UNCHANGED bundleVars
  BY <1>1, <1>3 DEF bundleVars
<1> QED  BY <1>1, <1>2, <1>3, TrainingKeepsMarkerInv DEF BundleNext

\* What a step of a training does to the marker of one artifact.
LEMMA MarkerMoves ==
    ASSUME BundleTypeOK, MarkerInv, NEW r \in Train, TrainStep(r) \/ Fault(r), NEW d \in Dir
    PROVE  \/ files'[d].manifest = files[d].manifest /\ Overwriting' = Overwriting
           \/ files'[d].manifest = files[d].manifest /\ Overwriting' = Overwriting \cup {r}
           \/ /\ files[d].manifest = None \/ r \in Overwriting
              /\ files'[d].manifest = r
              /\ Overwriting' = Overwriting
<1>1. /\ \A q \in Train \ {r} : train'[q] = train[q]
      /\ Moved(r)
  BY TrainingMoves
<1>2. Marked(r)
  BY TrainingFiles DEF Filed
<1>3. CASE files'[d].manifest = files[d].manifest
  <2>1. Overwriting' = Overwriting \/ Overwriting' = Overwriting \cup {r}
    <3>1. CASE train'[r].over = train[r].over
      BY <1>1, <3>1 DEF Overwriting
    <3>2. CASE train[r].pc = "idle"
      BY <1>1, <3>2 DEF Overwriting, MarkerInv, FlagFromStart
    <3> QED  BY <1>1, <3>1, <3>2 DEF Moved
  <2> QED  BY <1>3, <2>1
<1>4. CASE train[r].pc = "manifest" /\ AtArtifact(r, d) /\ files'[d].manifest = r
  <2>1. files[d].manifest = None \/ r \in Overwriting
    BY <1>4 DEF MarkerInv, CheckHolds, Looked, Overwriting
  <2>2. train'[r].over = train[r].over
    BY <1>1, <1>4 DEF Moved
  <2>3. Overwriting' = Overwriting
    BY <1>1, <2>2 DEF Overwriting
  <2> QED  BY <1>4, <2>1, <2>3
<1> QED  BY <1>2, <1>3, <1>4 DEF Marked

\* An artifact is never silently replaced when trainings do not overlap: between
\* looking for its marker and writing it, nobody else can have written it.
THEOREM ArtifactsRefine ==
    ASSUME Overlap = FALSE
    PROVE  BundleSpec => ArtifactsAreVersioned
<1>1. BundleInit => \A d \in Dir : Store(d)!PartitionInit
  BY DEF BundleInit, NoArtifact, Overwriting, Store!PartitionInit
<1>2. BundleTypeOK /\ MarkerInv /\ [BundleNext]_bundleVars =>
        [\A d \in Dir : Store(d)!PartitionNext
                          \/ UNCHANGED <<files[d].manifest, Overwriting>>]_bundleVars
  <2> SUFFICES ASSUME BundleTypeOK, MarkerInv, BundleNext, NEW d \in Dir
               PROVE  Store(d)!PartitionNext \/ UNCHANGED <<files[d].manifest, Overwriting>>
    OBVIOUS
  <2>1. ASSUME NEW r \in Train, TrainStep(r) \/ Fault(r)
        PROVE  Store(d)!PartitionNext \/ UNCHANGED <<files[d].manifest, Overwriting>>
    BY <2>1, MarkerMoves DEF Store!PartitionNext, Store!Permit, Store!Put
  <2>2. ASSUME NEW q \in Score, ScoreStep(q)
        PROVE  UNCHANGED <<files[d].manifest, Overwriting>>
    BY <2>2, ScoringMoves DEF Overwriting
  <2> QED  BY <2>1, <2>2 DEF BundleNext
<1>3. BundleTypeOK /\ MarkerInv /\ [BundleNext]_bundleVars => MarkerInv'
  BY MarkerInvNext
<1> QED  BY <1>1, <1>2, <1>3, MarkerInvInit, TypeCorrect, PTL DEF BundleSpec, ArtifactsAreVersioned

-------------------------------------------------------------------------------
(***************************************************************************)
(* What a training has frozen so far.  Sound(r) says of a training in      *)
(* progress which artifacts it has left, which files of the artifact it is *)
(* at are its own, that the artifacts behind it are, and what it saw of    *)
(* the bundle's marker; BundleMarked, that what a bundle names is there.   *)
(***************************************************************************)

BundlePhase == {"check_bundle", "bundle", "bundle_allowlist"}

ByOwn(a, r) == a.bullish = r /\ a.bearish = r /\ a.allowlist = r /\ a.manifest = r

TodoLeft(r) ==
    IF train[r].mode = "pooled" THEN train[r].todo = {Root}
    ELSE /\ train[r].todo \subseteq train[r].isins
         /\ train[r].pc \in BundlePhase => train[r].todo = {}

ArtifactWritten(r) ==
    \A d \in Dir : AtArtifact(r, d) =>
        /\ train[r].pc \in {"bearish", "allowlist", "manifest", "metrics"} => files[d].bullish = r
        /\ train[r].pc \in {"allowlist", "manifest", "metrics"} => files[d].bearish = r
        /\ train[r].pc \in {"manifest", "metrics"} => files[d].allowlist = r
        /\ train[r].pc = "metrics" => files[d].manifest = r

FrozenSoFar(r) ==
    train[r].mode = "per_stock" =>
        \A d \in train[r].isins \ train[r].todo : ByOwn(files[d], r) /\ files[d].metrics = r

BundleChecked(r) ==
    /\ train[r].pc = "bundle" => bundle.by = None \/ train[r].over
    /\ train[r].pc = "bundle_allowlist" => bundle = [by |-> r, isins |-> train[r].isins]

Sound(r) == TodoLeft(r) /\ ArtifactWritten(r) /\ FrozenSoFar(r) /\ BundleChecked(r)

BundleMarked == PerStock => \A d \in bundle.isins : files[d].manifest # None

FreezeInv == (\A r \in Train : InProgress(r) => Sound(r)) /\ BundleMarked

LEMMA Went ==
    ASSUME BundleTypeOK, NEW r \in Train, NEW label, Goto(r, label)
    PROVE  /\ train'[r].pc = label /\ train'[r].mode = train[r].mode
           /\ train'[r].over = train[r].over /\ train'[r].isins = train[r].isins
           /\ train'[r].todo = train[r].todo
BY DEF BundleTypeOK, Goto, Training

\* A file of an artifact is written: the others of that artifact, and the other
\* artifacts, stay.
LEMMA OneFile ==
    ASSUME BundleTypeOK, NEW d \in Dir, NEW file \in Files, NEW entry, Wrote(d, file, entry)
    PROVE  /\ \A e \in Dir \ {d} : files'[e] = files[e]
           /\ files'[d][file] = entry
           /\ \A f \in Files \ {file} : files'[d][f] = files[d][f]
BY DEF BundleTypeOK, Artifact, Files, Wrote

LEMMA SoundBegin ==
    ASSUME BundleTypeOK, NEW r \in Train, NEW mode \in Modes, NEW over \in BOOLEAN,
           NEW isins \in SUBSET Isin, BeginTraining(r, mode, over, isins), InProgress(r)'
    PROVE  Sound(r)'
<1>1. PICK label \in {"check", "failed"} :
        train' = [train EXCEPT ![r] =
                   [pc |-> label, mode |-> mode, over |-> over, isins |-> isins,
                    todo |-> IF mode = "pooled" THEN {Root} ELSE isins]]
  BY DEF BeginTraining
<1>2. /\ train'[r].pc = label /\ train'[r].mode = mode /\ train'[r].isins = isins
      /\ train'[r].todo = IF mode = "pooled" THEN {Root} ELSE isins
  BY <1>1 DEF BundleTypeOK
<1>3. train'[r].pc = "check"
  BY <1>2 DEF InProgress
<1>4. mode \in {"pooled", "per_stock"}
  BY ModelBundleAssumption
<1>5. TodoLeft(r)'
  BY <1>2, <1>3 DEF TodoLeft, BundlePhase
<1>6. FrozenSoFar(r)'
  BY <1>2, <1>4 DEF FrozenSoFar
<1> QED  BY <1>3, <1>5, <1>6 DEF Sound, ArtifactWritten, BundleChecked

LEMMA SoundCheck ==
    ASSUME BundleTypeOK, NEW r \in Train, Sound(r), NEW d \in Dir, CheckArtifact(r, d),
           InProgress(r)'
    PROVE  Sound(r)'
<1>1. PICK label \in {"refused", "bullish"} : Goto(r, label)
  BY DEF CheckArtifact
<1>2. /\ train'[r].pc = "bullish" /\ train'[r].mode = train[r].mode
      /\ train'[r].isins = train[r].isins /\ train'[r].todo = train[r].todo
  BY <1>1, Went DEF InProgress
<1>3. UNCHANGED files
  BY DEF CheckArtifact
<1>4. TodoLeft(r)'
  BY <1>2 DEF Sound, TodoLeft, BundlePhase
<1>5. FrozenSoFar(r)'
  BY <1>2, <1>3 DEF Sound, FrozenSoFar, ByOwn
<1> QED  BY <1>2, <1>4, <1>5 DEF Sound, ArtifactWritten, BundleChecked

LEMMA SoundWriteFile ==
    ASSUME BundleTypeOK, MarkerInv, NEW r \in Train, Sound(r), NEW d \in Dir, NEW label,
           NEW file \in {"bullish", "bearish", "allowlist", "manifest"},
           label = CASE file = "bullish" -> "bearish" [] file = "bearish" -> "allowlist"
                     [] file = "allowlist" -> "manifest" [] file = "manifest" -> "metrics",
           WriteFile(r, d, file, label)
    PROVE  Sound(r)'
<1>1. train[r].pc = file /\ AtArtifact(r, d) /\ Wrote(d, file, r) /\ Goto(r, label)
  BY DEF WriteFile, Wrote
<1>2. /\ train'[r].pc = label /\ train'[r].mode = train[r].mode
      /\ train'[r].isins = train[r].isins /\ train'[r].todo = train[r].todo
  BY <1>1, Went
<1>3. /\ \A e \in Dir \ {d} : files'[e] = files[e]
      /\ files'[d][file] = r
      /\ \A f \in Files \ {file} : files'[d][f] = files[d][f]
  BY <1>1, OneFile DEF Files
<1>4. label \in {"bearish", "allowlist", "manifest", "metrics"}
  OBVIOUS
<1>5. TodoLeft(r)'
  BY <1>2, <1>4 DEF Sound, TodoLeft, BundlePhase
<1>6. ASSUME NEW e \in Dir, AtArtifact(r, e)'
      PROVE  e = d
  <2>1. AtArtifact(r, e)
    BY <1>2, <1>6 DEF AtArtifact
  <2> QED  BY <1>1, <2>1, OneArtifact DEF MarkerInv
<1>7. ArtifactWritten(r)'
  <2>1. SUFFICES
          /\ label \in {"bearish", "allowlist", "manifest", "metrics"} => files'[d].bullish = r
          /\ label \in {"allowlist", "manifest", "metrics"} => files'[d].bearish = r
          /\ label \in {"manifest", "metrics"} => files'[d].allowlist = r
          /\ label = "metrics" => files'[d].manifest = r
    BY <1>2, <1>6 DEF ArtifactWritten
  <2>2. /\ file \in {"bearish", "allowlist", "manifest"} => files[d].bullish = r
        /\ file \in {"allowlist", "manifest"} => files[d].bearish = r
        /\ file = "manifest" => files[d].allowlist = r
    BY <1>1 DEF Sound, ArtifactWritten
  <2>3. CASE file = "bullish"
    BY <1>3, <2>3 DEF Files
  <2>4. CASE file = "bearish"
    BY <1>3, <2>2, <2>4 DEF Files
  <2>5. CASE file = "allowlist"
    BY <1>3, <2>2, <2>5 DEF Files
  <2>6. CASE file = "manifest"
    BY <1>3, <2>2, <2>6 DEF Files
  <2> QED  BY <2>3, <2>4, <2>5, <2>6
<1>8. FrozenSoFar(r)'
  <2>1. SUFFICES ASSUME train[r].mode = "per_stock", NEW e \in train[r].isins \ train[r].todo
                 PROVE  ByOwn(files[e], r)' /\ files'[e].metrics = r
    BY <1>2 DEF FrozenSoFar
  <2>2. e # d /\ e \in Dir
    BY <1>1 DEF AtArtifact, BundleTypeOK, Training, Dir
  <2>3. files'[e] = files[e]
    BY <1>3, <2>2
  <2> QED  BY <2>1, <2>3 DEF Sound, FrozenSoFar, ByOwn
<1>9. BundleChecked(r)'
  BY <1>2, <1>4 DEF BundleChecked
<1> QED  BY <1>5, <1>7, <1>8, <1>9 DEF Sound

\* The last file of an artifact: the artifact is the training's own.
LEMMA ArtifactOwn ==
    ASSUME BundleTypeOK, NEW r \in Train, Sound(r), NEW d \in Dir, WriteMetrics(r, d)
    PROVE  /\ ByOwn(files[d], r)' /\ files'[d].metrics = r
           /\ \A e \in Dir \ {d} : files'[e] = files[e]
<1>1. train[r].pc = "metrics" /\ AtArtifact(r, d) /\ Wrote(d, "metrics", r)
  BY DEF WriteMetrics, Wrote
<1>2. /\ \A e \in Dir \ {d} : files'[e] = files[e]
      /\ files'[d].metrics = r
      /\ \A f \in Files \ {"metrics"} : files'[d][f] = files[d][f]
  BY <1>1, OneFile DEF Files
<1>3. ByOwn(files[d], r)
  BY <1>1 DEF Sound, ArtifactWritten, ByOwn
<1> QED  BY <1>2, <1>3 DEF ByOwn, Files

LEMMA SoundWriteMetrics ==
    ASSUME BundleTypeOK, NEW r \in Train, Sound(r), NEW d \in Dir, WriteMetrics(r, d),
           InProgress(r)'
    PROVE  Sound(r)'
<1>1. /\ AtArtifact(r, d)
      /\ train' = [train EXCEPT ![r].pc = AfterArtifact(r, d), ![r].todo = @ \ {d}]
  BY DEF WriteMetrics
<1>2. /\ train'[r].pc = AfterArtifact(r, d) /\ train'[r].mode = train[r].mode
      /\ train'[r].isins = train[r].isins /\ train'[r].todo = train[r].todo \ {d}
  BY <1>1 DEF BundleTypeOK, Training
<1>3. train[r].mode \in {"pooled", "per_stock"}
  BY DEF BundleTypeOK, Training
<1>4. train[r].mode = "per_stock"
  <2>1. SUFFICES ASSUME train[r].mode = "pooled" PROVE FALSE
    BY <1>3
  <2>2. train[r].todo = {Root} /\ d = Root
    BY <1>1, <2>1 DEF Sound, TodoLeft, AtArtifact
  <2> QED  BY <1>2, <2>1, <2>2 DEF AfterArtifact, InProgress
<1>5. train'[r].pc \in {"check", "check_bundle"}
  BY <1>2, <1>4 DEF AfterArtifact
<1>6. TodoLeft(r)'
  <2>1. train'[r].pc \in BundlePhase => train'[r].todo = {}
    BY <1>2 DEF AfterArtifact, BundlePhase
  <2> QED  BY <1>2, <1>4, <2>1 DEF Sound, TodoLeft
<1>7. FrozenSoFar(r)'
  <2>1. SUFFICES ASSUME NEW e \in train[r].isins \ (train[r].todo \ {d})
                 PROVE  ByOwn(files[e], r)' /\ files'[e].metrics = r
    BY <1>2 DEF FrozenSoFar
  <2>2. CASE e = d
    BY <2>2, ArtifactOwn
  <2>3. CASE e # d
    <3>1. files'[e] = files[e]
      BY <2>3, ArtifactOwn DEF BundleTypeOK, Training, Dir
    <3> QED  BY <1>4, <2>1, <2>3, <3>1 DEF Sound, FrozenSoFar, ByOwn
  <2> QED  BY <2>2, <2>3
<1> QED  BY <1>5, <1>6, <1>7 DEF Sound, ArtifactWritten, BundleChecked

LEMMA SoundBundle ==
    ASSUME BundleTypeOK, NEW r \in Train, Sound(r), CheckBundle(r) \/ WriteBundle(r),
           InProgress(r)'
    PROVE  Sound(r)'
<1>1. /\ train[r].pc \in {"check_bundle", "bundle"}
      /\ UNCHANGED files
      /\ \E label \in {"bundle", "refused", "bundle_allowlist"} : Goto(r, label)
  BY DEF CheckBundle, WriteBundle
<1>2. /\ train'[r].pc \in {"bundle", "bundle_allowlist"} /\ train'[r].mode = train[r].mode
      /\ train'[r].isins = train[r].isins /\ train'[r].todo = train[r].todo
      /\ train'[r].over = train[r].over
  BY <1>1, Went DEF InProgress
<1>3. train[r].mode = "per_stock"
  BY <1>1 DEF BundleTypeOK
<1>4. TodoLeft(r)'
  BY <1>1, <1>2, <1>3 DEF Sound, TodoLeft, BundlePhase
<1>5. FrozenSoFar(r)'
  BY <1>1, <1>2 DEF Sound, FrozenSoFar, ByOwn
<1>6. BundleChecked(r)'
  <2>1. CASE CheckBundle(r)
    <3>1. ~(bundle.by # None /\ ~train[r].over)
      <4>1. SUFFICES ASSUME bundle.by # None /\ ~train[r].over PROVE FALSE
        OBVIOUS
      <4>2. Goto(r, "refused")
        BY <2>1, <4>1 DEF CheckBundle
      <4> QED  BY <1>2, <4>2, Went
    <3>2. Goto(r, "bundle") /\ UNCHANGED bundle
      BY <2>1, <3>1 DEF CheckBundle
    <3>3. train'[r].pc = "bundle"
      BY <3>2, Went
    <3> QED  BY <1>2, <3>1, <3>2, <3>3 DEF BundleChecked
  <2>2. CASE WriteBundle(r)
    <3>1. Goto(r, "bundle_allowlist") /\ bundle' = [by |-> r, isins |-> train[r].isins]
      BY <2>2 DEF WriteBundle
    <3>2. train'[r].pc = "bundle_allowlist"
      BY <3>1, Went
    <3> QED  BY <1>2, <3>1, <3>2 DEF BundleChecked
  <2> QED  BY <2>1, <2>2
<1> QED  BY <1>2, <1>4, <1>5, <1>6 DEF Sound, ArtifactWritten

\* The training that takes a step still knows what it has frozen.
LEMMA SoundNext ==
    ASSUME BundleTypeOK, MarkerInv, NEW r \in Train, InProgress(r) => Sound(r),
           TrainStep(r) \/ Fault(r), InProgress(r)'
    PROVE  Sound(r)'
<1>1. ASSUME NEW label, Goto(r, label) PROVE label \notin {"success", "failed"}
  BY <1>1, Went DEF InProgress
<1>2. ~WriteBundleAllowlist(r) /\ ~Fault(r)
  BY <1>1 DEF WriteBundleAllowlist, Fault
<1>3. CASE train[r].pc = "idle"
  <2>1. PICK mode \in Modes, over \in BOOLEAN, isins \in SUBSET Isin \ {{}} :
          BeginTraining(r, mode, over, isins)
    BY <1>2, <1>3
    DEF TrainStep, CheckArtifact, WriteArtifact, WriteFile, WriteMetrics, CheckBundle, WriteBundle
  <2> QED  BY <2>1, SoundBegin
<1>4. CASE train[r].pc # "idle"
  <2>1. InProgress(r)
    BY <1>4, TrainingMoves DEF Moved
  <2>2. ASSUME NEW mode, NEW over, NEW isins, BeginTraining(r, mode, over, isins)
        PROVE  FALSE
    BY <1>4, <2>2 DEF BeginTraining
  <2>3. CASE CheckBundle(r) \/ WriteBundle(r)
    BY <2>1, <2>3, SoundBundle
  <2>4. ASSUME NEW d \in Dir, CheckArtifact(r, d) PROVE Sound(r)'
    BY <2>1, <2>4, SoundCheck
  <2>5. ASSUME NEW d \in Dir, WriteMetrics(r, d) PROVE Sound(r)'
    BY <2>1, <2>5, SoundWriteMetrics
  <2>6. ASSUME NEW d \in Dir, WriteFile(r, d, "bullish", "bearish") PROVE Sound(r)'
    BY <2>1, <2>6, SoundWriteFile
  <2>7. ASSUME NEW d \in Dir, WriteFile(r, d, "bearish", "allowlist") PROVE Sound(r)'
    BY <2>1, <2>7, SoundWriteFile
  <2>8. ASSUME NEW d \in Dir, WriteFile(r, d, "allowlist", "manifest") PROVE Sound(r)'
    BY <2>1, <2>8, SoundWriteFile
  <2>9. ASSUME NEW d \in Dir, WriteFile(r, d, "manifest", "metrics") PROVE Sound(r)'
    BY <2>1, <2>9, SoundWriteFile
  <2> QED  BY <1>2, <2>2, <2>3, <2>4, <2>5, <2>6, <2>7, <2>8, <2>9 DEF TrainStep, WriteArtifact
<1> QED  BY <1>3, <1>4

\* Only WriteBundle changes the bundle.
LEMMA BundleMoves ==
    ASSUME NEW r \in Train, TrainStep(r) \/ Fault(r), bundle' # bundle
    PROVE  WriteBundle(r)
BY DEF TrainStep, Fault, BeginTraining, CheckArtifact, WriteArtifact, WriteFile, WriteMetrics,
       CheckBundle, WriteBundleAllowlist

\* A bundle is written when every artifact it names is the training's own.
LEMMA BundleOwn ==
    ASSUME BundleTypeOK, NEW r \in Train, Sound(r), WriteBundle(r)
    PROVE  /\ bundle' = [by |-> r, isins |-> train[r].isins] /\ UNCHANGED files
           /\ \A d \in train[r].isins : ByOwn(files[d], r) /\ files[d].metrics = r
<1>1. train[r].pc = "bundle" /\ train[r].mode = "per_stock"
  BY DEF WriteBundle, BundleTypeOK
<1>2. train[r].todo = {}
  BY <1>1 DEF Sound, TodoLeft, BundlePhase
<1> QED  BY <1>1, <1>2 DEF WriteBundle, Sound, FrozenSoFar

LEMMA FreezeInvInit == BundleInit => FreezeInv
BY DEF BundleInit, FreezeInv, InProgress, BundleMarked, PerStock

LEMMA FreezeInvNext ==
    ASSUME Overlap = FALSE, BundleTypeOK, MarkerInv, FreezeInv, [BundleNext]_bundleVars
    PROVE  FreezeInv'
<1>1. CASE UNCHANGED <<files, bundle, train>>
  BY <1>1
  DEF FreezeInv, Sound, TodoLeft, ArtifactWritten, FrozenSoFar, BundleChecked, BundleMarked,
      PerStock, InProgress, AtArtifact, ByOwn
<1>2. ASSUME NEW r \in Train, TrainStep(r) \/ Fault(r) PROVE FreezeInv'
  <2>1. \A q \in Train \ {r} : ~InProgress(q)'
    <3>1. \A q \in Train \ {r} : ~InProgress(q) /\ train'[q] = train[q]
      BY <1>2, TrainingMoves DEF Moved, MarkerInv, OneTraining, NoTraining
    <3> QED  BY <3>1 DEF InProgress
  <2>2. \A q \in Train : InProgress(q)' => Sound(q)'
    <3>1. InProgress(r) => Sound(r)
      BY DEF FreezeInv
    <3> QED  BY <1>2, <2>1, <3>1, SoundNext
  <2>3. BundleMarked'
    <3>1. Train \cap {None} = {}
      BY ModelBundleAssumption
    <3>2. CASE WriteBundle(r)
      <4>1. InProgress(r) /\ Sound(r)
        BY <3>2 DEF WriteBundle, InProgress, FreezeInv
      <4> QED  BY <3>1, <3>2, <4>1, BundleOwn DEF BundleMarked, ByOwn
    <3>3. CASE UNCHANGED bundle
      <4>1. \A d \in Dir : files[d].manifest # None => files'[d].manifest # None
        BY <1>2, <3>1, TrainingFiles DEF Filed, Marked
      <4> QED  BY <3>3, <4>1 DEF FreezeInv, BundleMarked, PerStock, BundleTypeOK, Bundle, Dir
    <3> QED  BY <1>2, <3>2, <3>3, BundleMoves
  <2> QED  BY <2>2, <2>3 DEF FreezeInv
<1>3. ASSUME NEW q \in Score, ScoreStep(q) PROVE UNCHANGED <<files, bundle, train>>
  BY <1>3, ScoringMoves
<1>4. CASE UNCHANGED bundleVars
  BY <1>1, <1>4 DEF bundleVars
<1> QED  BY <1>1, <1>2, <1>3, <1>4 DEF BundleNext

LEMMA FreezeInvHolds ==
    ASSUME Overlap = FALSE
    PROVE  BundleSpec => [](BundleTypeOK /\ MarkerInv /\ FreezeInv)
<1>1. BundleTypeOK /\ MarkerInv /\ FreezeInv /\ [BundleNext]_bundleVars
        => MarkerInv' /\ FreezeInv'
  BY MarkerInvNext, FreezeInvNext
<1> QED  BY <1>1, MarkerInvInit, FreezeInvInit, TypeCorrect, PTL DEF BundleSpec

-------------------------------------------------------------------------------

LEMMA WholeArtifact ==
    ASSUME NEW a \in Artifact, NEW r, ByOwn(a, r), a.metrics = r
    PROVE  a = [file \in DOMAIN NoArtifact |-> r]
<1>1. DOMAIN NoArtifact = {"bullish", "bearish", "allowlist", "manifest", "metrics"}
  BY DEF NoArtifact
<1>2. DOMAIN a = {"bullish", "bearish", "allowlist", "manifest", "metrics"}
  BY DEF Artifact
<1>3. a = [file \in DOMAIN a |-> a[file]]
  BY DEF Artifact
<1>4. \A file \in DOMAIN a : a[file] = r
  BY <1>2 DEF ByOwn
<1> QED  BY <1>1, <1>2, <1>3, <1>4

\* A training that reports success has written all five files of every artifact
\* it trained, and the bundle that names exactly those.
THEOREM TrainingComplete ==
    ASSUME Overlap = FALSE
    PROVE  BundleSpec => TrainingIsComplete
<1> DEFINE Complete(r) ==
             IF train[r].mode = "pooled"
             THEN files'[Root] = [file \in DOMAIN NoArtifact |-> r]
             ELSE /\ bundle' = [by |-> r, isins |-> train[r].isins]
                  /\ \A d \in train[r].isins :
                       files'[d] = [file \in DOMAIN NoArtifact |-> r]
<1>1. ASSUME BundleTypeOK, MarkerInv, FreezeInv, [BundleNext]_bundleVars, NEW r \in Train,
             train[r].pc # "success", train'[r].pc = "success"
      PROVE  Complete(r)
  <2>1. ASSUME NEW q \in Train, TrainStep(q) \/ Fault(q) PROVE q = r
    BY <1>1, <2>1, TrainingMoves
  <2>2. ASSUME NEW q \in Score, ScoreStep(q) PROVE UNCHANGED train
    BY <1>1, <2>2, ScoringMoves
  <2>3. TrainStep(r) \/ Fault(r)
    BY <1>1, <2>1, <2>2 DEF BundleNext, bundleVars
  <2>4. files' \in [Dir -> Artifact] /\ bundle' \in Bundle
    BY <1>1, <2>3, TrainingFiles DEF Filed
  <2>5. InProgress(r) /\ Sound(r)
    <3>1. ASSUME NEW label \in {"check", "failed"}, NEW mode, NEW over, NEW isins, NEW todo,
                 train'[r] = [pc |-> label, mode |-> mode, over |-> over, isins |-> isins,
                              todo |-> todo]
          PROVE  FALSE
      BY <1>1, <3>1
    <3>2. InProgress(r)
      <4>1. Moved(r)
        BY <1>1, <2>3, TrainingMoves
      <4>2. ASSUME NEW label \in {"check", "failed"}, NEW mode \in Modes, NEW over \in BOOLEAN,
                   NEW isins \in SUBSET Isin,
                   train'[r] = [pc |-> label, mode |-> mode, over |-> over, isins |-> isins,
                                todo |-> IF mode = "pooled" THEN {Root} ELSE isins]
            PROVE  FALSE
        BY <3>1, <4>2
      <4> QED  BY <4>1, <4>2 DEF Moved
    <3> QED  BY <1>1, <3>2 DEF FreezeInv
  <2>6. ASSUME NEW label, Goto(r, label) PROVE label = "success"
    BY <1>1, <2>6, Went
  <2>7. CASE WriteBundleAllowlist(r)
    <3>1. train[r].pc = "bundle_allowlist" /\ train[r].mode = "per_stock"
      BY <1>1, <2>7 DEF WriteBundleAllowlist, BundleTypeOK
    <3>2. bundle = [by |-> r, isins |-> train[r].isins] /\ UNCHANGED bundle
      BY <2>5, <2>7, <3>1 DEF Sound, BundleChecked, WriteBundleAllowlist
    <3>3. train[r].todo = {}
      BY <2>5, <3>1 DEF Sound, TodoLeft, BundlePhase
    <3>4. \A d \in train[r].isins : ByOwn(files[d], r) /\ files[d].metrics = r
      BY <2>5, <3>1, <3>3 DEF Sound, FrozenSoFar
    <3>5. \A d \in train[r].isins : d \in Dir /\ files'[d] = files[d]
      <4>1. Wrote(Root, "allowlist", r)
        BY <2>7 DEF WriteBundleAllowlist, Wrote
      <4>2. \A d \in Dir \ {Root} : files'[d] = files[d]
        BY <1>1, <4>1, OneFile DEF Files, Dir
      <4>3. train[r].isins \subseteq Isin /\ Root \notin Isin
        BY <1>1, ModelBundleAssumption DEF BundleTypeOK, Training
      <4> QED  BY <4>2, <4>3 DEF Dir
    <3>6. \A d \in train[r].isins : files[d] \in Artifact
      BY <1>1, <3>5 DEF BundleTypeOK
    <3> QED  BY <3>1, <3>2, <3>4, <3>5, <3>6, WholeArtifact
  <2>8. ASSUME NEW d \in Dir, WriteMetrics(r, d) PROVE Complete(r)
    <3>1. train'[r].pc = AfterArtifact(r, d) /\ AtArtifact(r, d)
      BY <1>1, <2>8 DEF WriteMetrics, BundleTypeOK, Training
    <3>2. train[r].mode = "pooled" /\ train[r].todo = {d}
      BY <1>1, <3>1 DEF AfterArtifact
    <3>3. d = Root
      BY <2>5, <3>2 DEF Sound, TodoLeft
    <3>4. ByOwn(files[d], r)' /\ files'[d].metrics = r /\ files'[d] \in Artifact
      BY <1>1, <2>4, <2>5, <2>8, ArtifactOwn
    <3>5. PICK a \in Artifact : a = files'[d]
      BY <3>4
    <3>6. ByOwn(a, r) /\ a.metrics = r
      BY <3>4, <3>5 DEF ByOwn
    <3> QED  BY <3>2, <3>3, <3>5, <3>6, WholeArtifact
  <2>9. ~CheckBundle(r) /\ ~WriteBundle(r) /\ ~Fault(r)
    BY <2>6 DEF CheckBundle, WriteBundle, Fault
  <2>10. ASSUME NEW mode, NEW over, NEW isins, BeginTraining(r, mode, over, isins) PROVE FALSE
    BY <2>5, <2>10 DEF BeginTraining, InProgress
  <2>11. ASSUME NEW d \in Dir, CheckArtifact(r, d) PROVE FALSE
    BY <2>6, <2>11 DEF CheckArtifact
  <2>12. ASSUME NEW d \in Dir, WriteArtifact(r, d) PROVE WriteMetrics(r, d)
    BY <2>6, <2>12 DEF WriteArtifact, WriteFile
  <2> QED  BY <2>3, <2>7, <2>8, <2>9, <2>10, <2>11, <2>12 DEF TrainStep
<1>2. BundleTypeOK /\ MarkerInv /\ FreezeInv /\ [BundleNext]_bundleVars =>
        [\A r \in Train :
           (train[r].pc # "success" /\ train'[r].pc = "success") => Complete(r)]_bundleVars
  BY <1>1
<1> QED  BY <1>2, FreezeInvHolds, PTL DEF BundleSpec, TrainingIsComplete

-------------------------------------------------------------------------------
(***************************************************************************)
(* What is served.  A training without overwrite touches an artifact only  *)
(* while it has no marker, and a bundle names only artifacts that have one.*)
(***************************************************************************)

\* What inference reads of an artifact.
Stays(d) ==
    /\ files'[d].bullish = files[d].bullish /\ files'[d].bearish = files[d].bearish
    /\ files'[d].allowlist = files[d].allowlist /\ files'[d].manifest = files[d].manifest

Completes(r, d) ==
    /\ train[r].pc = "manifest" /\ AtArtifact(r, d)
    /\ files'[d].bullish = files[d].bullish /\ files'[d].bearish = files[d].bearish
    /\ files'[d].allowlist = files[d].allowlist /\ files'[d].manifest = r

Spoils(r, d) ==
    /\ train[r].pc \in {"bullish", "bearish", "allowlist"} /\ AtArtifact(r, d)
    /\ files'[d].manifest = files[d].manifest

LEMMA ModelWrites ==
    ASSUME BundleTypeOK, NEW r \in Train, NEW e \in Dir, AtArtifact(r, e),
           NEW file \in {"bullish", "bearish", "allowlist", "manifest"}, train[r].pc = file,
           NEW entry, Wrote(e, file, entry), file = "manifest" => entry = r, NEW d \in Dir
    PROVE  Stays(d) \/ Spoils(r, d) \/ Completes(r, d)
<1>1. /\ \A c \in Dir \ {e} : files'[c] = files[c]
      /\ files'[e][file] = entry
      /\ \A f \in Files \ {file} : files'[e][f] = files[e][f]
  BY OneFile DEF Files
<1>2. CASE d # e
  BY <1>1, <1>2 DEF Stays
<1>3. CASE d = e /\ file = "manifest"
  BY <1>1, <1>3 DEF Completes, Files
<1>4. CASE d = e /\ file # "manifest"
  <2>1. files'[d].manifest = files[d].manifest
    BY <1>1, <1>4 DEF Files
  <2> QED  BY <1>4, <2>1 DEF Spoils
<1> QED  BY <1>2, <1>3, <1>4

LEMMA ModelMoves ==
    ASSUME BundleTypeOK, NEW r \in Train, TrainStep(r) \/ Fault(r), NEW d \in Dir
    PROVE  \/ Stays(d) \/ Spoils(r, d) \/ Completes(r, d)
           \/ d = Root /\ WriteBundleAllowlist(r)
<1>1. CASE UNCHANGED files
  BY <1>1 DEF Stays
<1>2. ASSUME NEW e \in Dir, WriteMetrics(r, e) PROVE Stays(d)
  <2>1. Wrote(e, "metrics", r)
    BY <1>2 DEF WriteMetrics, Wrote
  <2>2. /\ \A c \in Dir \ {e} : files'[c] = files[c]
        /\ \A f \in Files \ {"metrics"} : files'[e][f] = files[e][f]
    BY <2>1, OneFile DEF Files
  <2>3. CASE d = e
    BY <2>2, <2>3 DEF Stays, Files
  <2>4. CASE d # e
    BY <2>2, <2>4 DEF Stays
  <2> QED  BY <2>3, <2>4
<1>3. ASSUME NEW e \in Dir, NEW file \in {"bullish", "bearish", "allowlist", "manifest"},
             NEW label, WriteFile(r, e, file, label)
      PROVE  Stays(d) \/ Spoils(r, d) \/ Completes(r, d)
  <2>1. train[r].pc = file /\ AtArtifact(r, e) /\ Wrote(e, file, r)
    BY <1>3 DEF WriteFile, Wrote
  <2> QED  BY <2>1, ModelWrites
<1>4. CASE Fault(r) /\ ~UNCHANGED files
  <2>1. PICK e \in Dir : /\ AtArtifact(r, e)
                         /\ train[r].pc \in {"bullish", "bearish", "allowlist"}
                         /\ files' = [files EXCEPT ![e][train[r].pc] = Torn]
    BY <1>4 DEF Fault
  <2>2. PICK file \in {"bullish", "bearish", "allowlist"} : file = train[r].pc
    BY <2>1
  <2>3. Wrote(e, file, Torn)
    BY <2>1, <2>2 DEF Wrote
  <2> QED  BY <2>1, <2>2, <2>3, ModelWrites
<1>5. CASE WriteBundleAllowlist(r)
  <2>1. Wrote(Root, "allowlist", r) /\ Root \in Dir
    BY <1>5 DEF WriteBundleAllowlist, Wrote, Dir
  <2>2. \A c \in Dir \ {Root} : files'[c] = files[c]
    BY <2>1, OneFile DEF Files
  <2> QED  BY <1>5, <2>2 DEF Stays
<1>6. ASSUME NEW e \in Dir, WriteArtifact(r, e)
      PROVE  Stays(d) \/ Spoils(r, d) \/ Completes(r, d)
  BY <1>2, <1>3, <1>6 DEF WriteArtifact
<1> QED
  BY <1>1, <1>4, <1>5, <1>6
  DEF TrainStep, BeginTraining, CheckArtifact, CheckBundle, WriteBundle

\* Without overwrite, an artifact that has a marker is left alone.
LEMMA MarkedStays ==
    ASSUME BundleTypeOK, MarkerInv, NEW r \in Train, TrainStep(r) \/ Fault(r),
           ~train[r].over, NEW d \in Dir, files[d].manifest # None,
           ~(d = Root /\ WriteBundleAllowlist(r))
    PROVE  Stays(d)
<1>1. ~(train[r].pc \in Looked /\ AtArtifact(r, d))
  BY DEF MarkerInv, CheckHolds
<1> QED  BY <1>1, ModelMoves DEF Spoils, Completes, Looked

\* Without overwrite, a bundle that is there is left alone.
LEMMA BundleStays ==
    ASSUME FreezeInv, NEW r \in Train, TrainStep(r) \/ Fault(r), ~train[r].over, PerStock
    PROVE  UNCHANGED bundle
<1>1. SUFFICES ASSUME WriteBundle(r) PROVE FALSE
  BY BundleMoves
<1>2. train[r].pc = "bundle" /\ InProgress(r)
  BY <1>1 DEF WriteBundle, InProgress
<1> QED  BY <1>2 DEF FreezeInv, Sound, BundleChecked, PerStock

LEMMA EveryStepMoves ==
    ASSUME BundleTypeOK, NEW r \in Train, TrainStep(r) \/ Fault(r)
    PROVE  train'[r].pc # train[r].pc
<1>1. ASSUME NEW label, Goto(r, label) PROVE train'[r].pc = label
  BY <1>1, Went
<1>2. ASSUME NEW mode, NEW over, NEW isins, BeginTraining(r, mode, over, isins)
      PROVE  train'[r].pc # train[r].pc
  <2>1. PICK label \in {"check", "failed"} :
          train' = [train EXCEPT ![r] =
                     [pc |-> label, mode |-> mode, over |-> over, isins |-> isins,
                      todo |-> IF mode = "pooled" THEN {Root} ELSE isins]]
    BY <1>2 DEF BeginTraining
  <2>2. train'[r].pc = label
    BY <2>1 DEF BundleTypeOK
  <2> QED  BY <1>2, <2>2 DEF BeginTraining
<1>3. ASSUME NEW d \in Dir, CheckArtifact(r, d) PROVE train'[r].pc # train[r].pc
  BY <1>1, <1>3 DEF CheckArtifact
<1>4. ASSUME NEW d \in Dir, WriteMetrics(r, d) PROVE train'[r].pc # train[r].pc
  <2>1. train'[r].pc = AfterArtifact(r, d) /\ train[r].pc = "metrics"
    BY <1>4 DEF WriteMetrics, BundleTypeOK, Training
  <2> QED  BY <2>1 DEF AfterArtifact
<1>5. ASSUME NEW d \in Dir, WriteArtifact(r, d) PROVE train'[r].pc # train[r].pc
  BY <1>1, <1>4, <1>5 DEF WriteArtifact, WriteFile
<1>6. CASE CheckBundle(r) \/ WriteBundle(r) \/ WriteBundleAllowlist(r)
  BY <1>1, <1>6 DEF CheckBundle, WriteBundle, WriteBundleAllowlist
<1>7. CASE Fault(r)
  BY <1>1, <1>7 DEF Fault, InProgress
<1> QED  BY <1>2, <1>3, <1>5, <1>6, <1>7 DEF TrainStep

\* What a bundle serves is frozen: no training without overwrite changes it,
\* neither one that adds ISINs, nor one refused half way, nor a pooled one.
THEOREM ServedBundleFrozen ==
    ASSUME Overlap = FALSE
    PROVE  BundleSpec => BundleIsFrozen
<1>1. ASSUME BundleTypeOK, MarkerInv, FreezeInv, [BundleNext]_bundleVars, PerStock, ~ByOverwrite
      PROVE  Served' = Served
  <2>1. CASE UNCHANGED <<files, bundle>>
    BY <2>1 DEF Served, PerStock, Frozen
  <2>2. ASSUME NEW r \in Train, TrainStep(r) \/ Fault(r) PROVE Served' = Served
    <3>1. ~train[r].over
      BY <1>1, <2>2, EveryStepMoves DEF ByOverwrite, Overwriting
    <3>2. UNCHANGED bundle
      BY <1>1, <2>2, <3>1, BundleStays
    <3>3. ASSUME NEW d \in bundle.isins PROVE Frozen(d)' = Frozen(d)
      <4>1. d \in Dir /\ d # Root
        BY <1>1, ModelBundleAssumption DEF BundleTypeOK, Bundle, Dir
      <4>2. files[d].manifest # None
        BY <1>1 DEF FreezeInv, BundleMarked
      <4>3. Stays(d)
        BY <1>1, <2>2, <3>1, <4>1, <4>2, MarkedStays
      <4> QED  BY <4>3 DEF Frozen, Stays
    <3>4. PerStock'
      BY <1>1, <3>2 DEF PerStock
    <3>5. Served = [d \in bundle.isins |-> Frozen(d)]
      BY <1>1 DEF Served
    <3>6. Served' = [d \in bundle'.isins |-> Frozen(d)']
      BY <3>4 DEF Served
    <3> QED  BY <3>2, <3>3, <3>5, <3>6
  <2>3. ASSUME NEW q \in Score, ScoreStep(q) PROVE UNCHANGED <<files, bundle>>
    BY <1>1, <2>3, ScoringMoves
  <2> QED  BY <1>1, <2>1, <2>2, <2>3 DEF BundleNext, bundleVars
<1>2. BundleTypeOK /\ MarkerInv /\ FreezeInv /\ [BundleNext]_bundleVars =>
        [(PerStock /\ Served' # Served) => ByOverwrite]_bundleVars
  BY <1>1
<1> QED  BY <1>2, FreezeInvHolds, PTL DEF BundleSpec, BundleIsFrozen

-------------------------------------------------------------------------------
(***************************************************************************)
(* What is loaded.  Outside an overwriting training of its own kind, and   *)
(* as long as none has died, what would be loaded is of one training       *)
(* (BundleWhole, RootWhole).  An inference run that loads file by file     *)
(* keeps what it has read of one source (Partly): the bundle, which no     *)
(* other training touches, or the root, where it is quiet or has not seen  *)
(* a bundle come (Quiet, FromBundle, FromRoot); and it has read every file *)
(* of what it scores with (FilesRead).                                     *)
(***************************************************************************)

Replacing(mode) == \E r \in Overwriting : InProgress(r) /\ train[r].mode = mode

Unbroken(mode) == Overwriting = {} \/ (faults = 0 /\ ~Replacing(mode))

BundleWhole ==
    PerStock /\ Unbroken("per_stock") => \A d \in bundle.isins : ByOwn(files[d], bundle.by)

RootWhole ==
    (~PerStock /\ Unbroken("pooled") /\ files[Root].manifest # None)
        => ByOwn(files[Root], files[Root].manifest)

Quiet(q) ==
    score[q].pc # "idle" /\ score[q].quiet =>
        /\ NoTraining
        /\ ((score[q].pc \in {"marker"} \cup Looked /\ score[q].todo = {Root}) => ~PerStock)

\* An inference run loads either the pooled artifact or those of a bundle.
Kind(q) ==
    /\ score[q].pc = "idle" => ~score[q].again
    /\ score[q].pc \in {"look", "bundle"} /\ score[q].again =>
         \A d \in Dir : score[q].loaded[d] = NoArtifact
    /\ score[q].pc = "look" => score[q].todo = {Root}
    /\ score[q].pc = "bundle" => PerStock /\ score[q].again /\ score[q].todo \subseteq Isin
    /\ score[q].pc \in {"marker"} \cup Looked =>
         \/ score[q].todo \subseteq Isin /\ score[q].again
         \/ /\ score[q].todo = {Root}
            /\ (score[q].again => \A d \in Isin : score[q].loaded[d] = NoArtifact)
    /\ (score[q].pc = "marker" /\ score[q].todo = {Root} /\ score[q].again) =>
         score[q].loaded[Root] = NoArtifact
    /\ score[q].pc \in Looked => score[q].at \in score[q].todo

Whole(a) == \A file \in Looked : a[file] # None

\* What has been read of the artifact being loaded; the others are whole.
FilesRead(q) ==
    /\ score[q].pc \in {"manifest", "bullish", "bearish"} =>
         score[q].loaded[score[q].at].allowlist # None
    /\ score[q].pc \in {"bullish", "bearish"} =>
         score[q].loaded[score[q].at].manifest # None
    /\ score[q].pc = "bearish" => score[q].loaded[score[q].at].bullish # None
    /\ \A d \in Dir : (d # score[q].at \/ score[q].pc \notin Looked) =>
         score[q].loaded[d] = NoArtifact \/ Whole(score[q].loaded[d])

Partly(a, r) == \A file \in Looked : a[file] \in {None, r}

FromBundle(q) ==
    (score[q].pc \in {"marker"} \cup Looked /\ score[q].todo \subseteq Isin) =>
        /\ PerStock /\ score[q].todo \subseteq bundle.isins
        /\ \A d \in Dir : Partly(score[q].loaded[d], bundle.by)

FromRoot(q) ==
    (score[q].pc \in Looked /\ score[q].todo = {Root} /\ score[q].again) =>
        /\ files[Root].manifest # None
        /\ Partly(score[q].loaded[Root], files[Root].manifest)

Scored(q) ==
    score[q].pc = "scored" =>
        \E r \in Train : \A d \in Dir : \/ score[q].loaded[d] = NoArtifact
                                        \/ ByOwn(score[q].loaded[d], r)

Reads(q) ==
    /\ Quiet(q) /\ Kind(q) /\ FilesRead(q)
    /\ Undisturbed(q) => FromBundle(q) /\ FromRoot(q) /\ Scored(q)

ServeInv == BundleWhole /\ RootWhole /\ \A q \in Score : Reads(q)

AllInv == BundleTypeOK /\ MarkerInv /\ FreezeInv

\* A training that is not itself replacing artifacts of that kind cannot have ended
\* a replacement of them.
LEMMA UnbrokenBefore ==
    ASSUME AllInv, Overlap = FALSE, NEW r \in Train, TrainStep(r) \/ Fault(r),
           NEW mode, ~(train[r].over /\ train[r].mode = mode), Unbroken(mode)'
    PROVE  Unbroken(mode)
<1>1. /\ \A q \in Train \ {r} : train'[q] = train[q]
      /\ Moved(r)
  BY TrainingMoves DEF AllInv
<1>2. train[r].over => train'[r].over
  <2>1. SUFFICES ASSUME train[r].over PROVE train'[r].over
    OBVIOUS
  <2>2. train[r].pc # "idle"
    BY <2>1 DEF AllInv, MarkerInv, FlagFromStart
  <2> QED  BY <1>1, <2>1, <2>2 DEF Moved
<1>3. Overwriting \subseteq Overwriting'
  BY <1>1, <1>2 DEF Overwriting
<1>4. CASE Overwriting' = {}
  BY <1>3, <1>4 DEF Unbroken
<1>5. CASE Overwriting' # {}
  <2>1. faults' = 0
    BY <1>5 DEF Unbroken
  <2>2. faults = 0
    <3>1. ~Fault(r)
      <4>1. SUFFICES ASSUME Fault(r) PROVE FALSE
        OBVIOUS
      <4>2. faults' = faults + 1 /\ faults \in Nat
        BY <4>1, ModelBundleAssumption DEF Fault, AllInv, BundleTypeOK
      <4> QED  BY <2>1, <4>2
    <3>2. UNCHANGED faults
      BY <3>1 DEF TrainStep, BeginTraining, CheckArtifact, WriteArtifact, WriteFile, WriteMetrics,
                  CheckBundle, WriteBundle, WriteBundleAllowlist
    <3> QED  BY <2>1, <3>2
  <2>3. \A q \in Train \ {r} : ~InProgress(q)
    BY <1>1 DEF Moved, AllInv, MarkerInv, OneTraining, NoTraining
  <2>4. ~Replacing(mode)
    BY <2>3 DEF Replacing, Overwriting
  <2> QED  BY <2>2, <2>4 DEF Unbroken
<1> QED  BY <1>4, <1>5

\* A training that replaces artifacts of one kind leaves that kind unbroken only by
\* reporting success.
LEMMA ReplacedThen ==
    ASSUME AllInv, Overlap = FALSE, NEW r \in Train, TrainStep(r) \/ Fault(r),
           NEW mode, train[r].over, train[r].mode = mode, Unbroken(mode)'
    PROVE  /\ InProgress(r)
           /\ \/ WriteBundleAllowlist(r)
              \/ \E d \in Dir : /\ WriteMetrics(r, d) /\ mode = "pooled"
                                /\ train[r].todo = {d}
<1>1. Moved(r)
  BY TrainingMoves DEF AllInv
<1>2. train[r].pc # "idle"
  BY DEF AllInv, MarkerInv, FlagFromStart
<1>3. InProgress(r) /\ train'[r].over /\ train'[r].mode = mode
  BY <1>1, <1>2 DEF Moved
<1>4. faults' = 0 /\ ~InProgress(r)'
  BY <1>3 DEF Unbroken, Replacing, Overwriting
<1>5. ASSUME NEW label, Goto(r, label)
      PROVE  label \in {"success", "refused", "failed", "idle"}
  <2>1. train'[r].pc = label
    BY <1>5, Went DEF AllInv
  <2> QED  BY <1>4, <2>1 DEF InProgress
<1>6. ~Fault(r)
  <2>1. SUFFICES ASSUME Fault(r) PROVE FALSE
    OBVIOUS
  <2>2. faults' = faults + 1 /\ faults \in Nat
    BY <2>1, ModelBundleAssumption DEF Fault, AllInv, BundleTypeOK
  <2> QED  BY <1>4, <2>2
<1>7. ~CheckBundle(r) /\ ~WriteBundle(r)
  BY <1>5 DEF CheckBundle, WriteBundle
<1>8. ASSUME NEW d \in Dir, CheckArtifact(r, d) PROVE FALSE
  BY <1>5, <1>8 DEF CheckArtifact
<1>9. ASSUME NEW m, NEW over, NEW isins, BeginTraining(r, m, over, isins) PROVE FALSE
  BY <1>2, <1>9 DEF BeginTraining
<1>10. ASSUME NEW d \in Dir, WriteArtifact(r, d)
       PROVE  WriteMetrics(r, d) /\ mode = "pooled" /\ train[r].todo = {d}
  <2>1. WriteMetrics(r, d)
    BY <1>5, <1>10 DEF WriteArtifact, WriteFile
  <2>2. train'[r].pc = AfterArtifact(r, d)
    BY <2>1 DEF WriteMetrics, AllInv, BundleTypeOK, Training
  <2> QED  BY <1>4, <2>1, <2>2 DEF AfterArtifact, InProgress
<1> QED  BY <1>3, <1>6, <1>7, <1>8, <1>9, <1>10 DEF TrainStep

\* A pooled training is at the root, one per ISIN is not.
LEMMA AtRoot ==
    ASSUME AllInv, NEW r \in Train, NEW d \in Dir, AtArtifact(r, d), InProgress(r)
    PROVE  train[r].mode = "pooled" <=> d = Root
<1>1. Sound(r) /\ d \in train[r].todo
  BY DEF AllInv, FreezeInv, AtArtifact
<1>2. train[r].isins \subseteq Isin /\ Root \notin Isin
  BY ModelBundleAssumption DEF AllInv, BundleTypeOK, Training
<1> QED  BY <1>1, <1>2 DEF Sound, TodoLeft

LEMMA BundleWholeNext ==
    ASSUME AllInv, Overlap = FALSE, BundleWhole, NEW r \in Train, TrainStep(r) \/ Fault(r)
    PROVE  BundleWhole'
<1> SUFFICES ASSUME PerStock', Unbroken("per_stock")', NEW d \in bundle'.isins
             PROVE  ByOwn(files[d], bundle.by)'
  BY DEF BundleWhole
<1>1. CASE train[r].over /\ train[r].mode = "per_stock"
  <2>1. InProgress(r) /\ WriteBundleAllowlist(r)
    BY <1>1, ReplacedThen
  <2>2. /\ train[r].pc = "bundle_allowlist" /\ UNCHANGED bundle
        /\ Sound(r)
    BY <2>1 DEF WriteBundleAllowlist, AllInv, FreezeInv
  <2>3. bundle' = [by |-> r, isins |-> train[r].isins]
    BY <2>2 DEF Sound, BundleChecked
  <2>4. d \in train[r].isins /\ train[r].todo = {}
    BY <1>1, <2>2, <2>3 DEF Sound, TodoLeft, BundlePhase
  <2>5. ByOwn(files[d], r)
    BY <1>1, <2>2, <2>4 DEF Sound, FrozenSoFar
  <2>6. Wrote(Root, "allowlist", r) /\ Root \in Dir
    BY <2>1 DEF WriteBundleAllowlist, Wrote, Dir
  <2>7. \A c \in Dir \ {Root} : files'[c] = files[c]
    BY <2>6, OneFile DEF Files, AllInv
  <2>8. d \in Dir /\ d # Root
    BY <2>4, ModelBundleAssumption DEF AllInv, BundleTypeOK, Training, Dir
  <2> QED  BY <2>3, <2>5, <2>7, <2>8 DEF ByOwn
<1>2. CASE ~(train[r].over /\ train[r].mode = "per_stock")
  <2>1. Unbroken("per_stock")
    BY <1>2, UnbrokenBefore
  <2>2. CASE WriteBundle(r)
    <3>1. InProgress(r) /\ Sound(r)
      BY <2>2 DEF WriteBundle, InProgress, AllInv, FreezeInv
    <3> QED  BY <2>2, <3>1, BundleOwn DEF ByOwn, AllInv
  <2>3. CASE ~WriteBundle(r)
    <3>1. UNCHANGED bundle /\ PerStock
      BY <2>3, BundleMoves DEF PerStock
    <3>2. d \in Dir /\ d # Root
      BY <3>1, ModelBundleAssumption DEF AllInv, BundleTypeOK, Bundle, Dir
    <3>3. ByOwn(files[d], bundle.by)
      BY <2>1, <3>1 DEF BundleWhole
    <3>4. Stays(d)
      <4>1. CASE ~train[r].over
        <5>1. files[d].manifest # None
          BY <3>1 DEF AllInv, FreezeInv, BundleMarked
        <5> QED  BY <3>2, <4>1, <5>1, MarkedStays DEF AllInv
      <4>2. CASE train[r].over
        <5>1. train[r].mode = "pooled"
          BY <1>2, <4>2 DEF AllInv, BundleTypeOK, Training
        <5>2. ASSUME AtArtifact(r, d), train[r].pc \in Looked PROVE FALSE
          BY <3>2, <5>1, <5>2, AtRoot DEF InProgress, Looked
        <5> QED  BY <3>2, <5>2, ModelMoves DEF Spoils, Completes, Looked, AllInv
      <4> QED  BY <4>1, <4>2
    <3> QED  BY <3>1, <3>3, <3>4 DEF ByOwn, Stays
  <2> QED  BY <2>2, <2>3
<1> QED  BY <1>1, <1>2

LEMMA RootWholeNext ==
    ASSUME AllInv, Overlap = FALSE, RootWhole, NEW r \in Train, TrainStep(r) \/ Fault(r)
    PROVE  RootWhole'
<1> SUFFICES ASSUME ~PerStock', Unbroken("pooled")', files'[Root].manifest # None
             PROVE  ByOwn(files[Root], files[Root].manifest)'
  BY DEF RootWhole
<1>1. Train \cap {None} = {} /\ Root \in Dir
  BY ModelBundleAssumption DEF Dir
<1>2. ~PerStock
  BY <1>1, BundleMoves DEF PerStock, WriteBundle
<1>3. ~WriteBundleAllowlist(r)
  <2>1. SUFFICES ASSUME WriteBundleAllowlist(r) PROVE FALSE
    OBVIOUS
  <2>2. train[r].pc = "bundle_allowlist" /\ InProgress(r)
    BY <2>1 DEF WriteBundleAllowlist, InProgress
  <2>3. bundle = [by |-> r, isins |-> train[r].isins]
    BY <2>2 DEF AllInv, FreezeInv, Sound, BundleChecked
  <2> QED  BY <1>1, <1>2, <2>3 DEF PerStock
<1>4. CASE train[r].over /\ train[r].mode = "pooled"
  <2>1. InProgress(r)
    BY <1>4, ReplacedThen
  <2>2. PICK d \in Dir : WriteMetrics(r, d)
    BY <1>3, <1>4, ReplacedThen
  <2>3. Sound(r) /\ d = Root
    BY <2>1, <2>2, <1>4, AtRoot DEF WriteMetrics, AllInv, FreezeInv
  <2>4. ByOwn(files[Root], r)'
    BY <2>2, <2>3, ArtifactOwn DEF AllInv
  <2> QED  BY <2>4 DEF ByOwn
<1>5. CASE ~(train[r].over /\ train[r].mode = "pooled")
  <2>1. Unbroken("pooled")
    BY <1>5, UnbrokenBefore
  <2>2. CASE Completes(r, Root)
    <3>1. InProgress(r) /\ train[r].pc = "manifest" /\ AtArtifact(r, Root)
      BY <2>2 DEF Completes, InProgress
    <3>2. Sound(r)
      BY <3>1 DEF AllInv, FreezeInv
    <3>3. files[Root].bullish = r /\ files[Root].bearish = r /\ files[Root].allowlist = r
      BY <1>1, <3>1, <3>2 DEF Sound, ArtifactWritten
    <3> QED  BY <2>2, <3>3 DEF Completes, ByOwn
  <2>3. CASE ~Completes(r, Root)
    <3>1. files'[Root].manifest = files[Root].manifest
      BY <1>1, <1>3, <2>3, ModelMoves DEF AllInv, Stays, Spoils
    <3>2. ByOwn(files[Root], files[Root].manifest)
      BY <1>2, <2>1, <3>1 DEF RootWhole
    <3>3. Stays(Root)
      <4>1. CASE ~train[r].over
        BY <1>1, <1>3, <3>1, <4>1, MarkedStays DEF AllInv
      <4>2. CASE train[r].over
        <5>1. train[r].mode # "pooled"
          BY <1>5, <4>2
        <5>2. ASSUME AtArtifact(r, Root), train[r].pc \in Looked PROVE FALSE
          BY <1>1, <5>1, <5>2, AtRoot DEF InProgress, Looked
        <5> QED  BY <1>1, <1>3, <2>3, <5>2, ModelMoves DEF Spoils, Looked, AllInv
      <4> QED  BY <4>1, <4>2
    <3> QED  BY <3>2, <3>3 DEF ByOwn, Stays
  <2> QED  BY <2>2, <2>3
<1> QED  BY <1>4, <1>5

\* A training that begins disturbs the inference runs; the other steps are of a
\* training in progress.
LEMMA ScoresAside ==
    ASSUME NEW r \in Train, TrainStep(r) \/ Fault(r)
    PROVE  Disturb \/ (UNCHANGED score /\ InProgress(r))
BY DEF TrainStep, Fault, BeginTraining, CheckArtifact, WriteArtifact, WriteFile, WriteMetrics,
       CheckBundle, WriteBundle, WriteBundleAllowlist, InProgress

LEMMA TrainingKeepsLoads ==
    ASSUME AllInv, Overlap = FALSE, NEW r \in Train, TrainStep(r) \/ Fault(r),
           NEW q \in Score, Reads(q)
    PROVE  Reads(q)'
<1>1. score \in [Score -> Scoring]
  BY DEF AllInv, BundleTypeOK
<1>2. /\ score'[q].pc = score[q].pc /\ score'[q].todo = score[q].todo
      /\ score'[q].again = score[q].again /\ score'[q].at = score[q].at
      /\ score'[q].loaded = score[q].loaded
      /\ score[q].pc # "idle" => ~score'[q].quiet
  <2>1. CASE Disturb
    <3>1. score'[q] = [score[q] EXCEPT !.quiet = FALSE]
      BY <2>1 DEF Disturb
    <3> QED  BY <1>1, <3>1 DEF Scoring
  <2>2. CASE UNCHANGED score /\ InProgress(r)
    <3>1. ~NoTraining
      BY <2>2 DEF NoTraining
    <3> QED  BY <2>2, <3>1 DEF Reads, Quiet
  <2> QED  BY <2>1, <2>2, ScoresAside
<1>3. PerStock => PerStock'
  <2>1. Train \cap {None} = {}
    BY ModelBundleAssumption
  <2> QED  BY <2>1, BundleMoves DEF PerStock, WriteBundle
<1>4. Quiet(q)'
  BY <1>2 DEF Quiet
<1>5. Kind(q)'
  BY <1>2, <1>3 DEF Reads, Kind
<1>6. FilesRead(q)'
  BY <1>2 DEF Reads, FilesRead, Whole
<1>7. ASSUME Undisturbed(q)', score[q].pc # "idle"
      PROVE  FromBundle(q)' /\ FromRoot(q)' /\ Scored(q)'
  <2>1. /\ Overwriting' = {}
        /\ ~PerStock' \/ score[q].loaded[Root] = NoArtifact
    BY <1>2, <1>7 DEF Undisturbed
  <2>2. ~train[r].over /\ Overwriting = {}
    <3>1. /\ \A p \in Train \ {r} : train'[p] = train[p]
          /\ Moved(r)
      BY TrainingMoves DEF AllInv
    <3>2. train[r].over => train'[r].over
      <4>1. SUFFICES ASSUME train[r].over PROVE train'[r].over
        OBVIOUS
      <4>2. train[r].pc # "idle"
        BY <4>1 DEF AllInv, MarkerInv, FlagFromStart
      <4> QED  BY <3>1, <4>1, <4>2 DEF Moved
    <3> QED  BY <2>1, <3>1, <3>2 DEF Overwriting
  <2>3. FromBundle(q) /\ FromRoot(q) /\ Scored(q)
    BY <1>3, <2>1, <2>2 DEF Undisturbed, Reads
  <2>4. PerStock => UNCHANGED bundle
    BY <2>2, BundleStays DEF AllInv
  <2>5. FromBundle(q)'
    BY <1>2, <1>3, <2>3, <2>4 DEF FromBundle, Partly
  <2>6. files[Root].manifest # None => files'[Root].manifest = files[Root].manifest
    <3>1. Root \in Dir
      BY DEF Dir
    <3>2. CASE WriteBundleAllowlist(r)
      <4>1. Wrote(Root, "allowlist", r)
        BY <3>2 DEF WriteBundleAllowlist, Wrote
      <4>2. files'[Root]["manifest"] = files[Root]["manifest"]
        BY <3>1, <4>1, OneFile DEF Files, AllInv
      <4> QED  BY <4>2
    <3>3. CASE ~WriteBundleAllowlist(r)
      BY <2>2, <3>1, <3>3, MarkedStays DEF AllInv, Stays
    <3> QED  BY <3>2, <3>3
  <2>7. FromRoot(q)'
    BY <1>2, <2>3, <2>6 DEF FromRoot, Partly
  <2>8. Scored(q)'
    BY <1>2, <2>3 DEF Scored, ByOwn
  <2> QED  BY <2>5, <2>7, <2>8
<1>8. CASE score[q].pc = "idle"
  BY <1>2, <1>4, <1>5, <1>6, <1>8 DEF Reads, FromBundle, FromRoot, Scored, Looked
<1> QED  BY <1>4, <1>5, <1>6, <1>7, <1>8 DEF Reads

\* While no training is in progress that replaces artifacts, an inference run loads
\* what is whole.
LEMMA CalmIsUnbroken ==
    ASSUME NEW q \in Score, Quiet(q), Undisturbed(q), score[q].pc # "idle", NEW mode
    PROVE  Unbroken(mode)
BY DEF Quiet, Undisturbed, Unbroken, Replacing, Overwriting, NoTraining

\* Reading what another inference run does is no step of q.
LEMMA AsideReads ==
    ASSUME NEW q \in Score, Reads(q), score'[q] = score[q],
           UNCHANGED <<files, bundle, train, faults>>
    PROVE  Reads(q)'
<1>1. /\ NoTraining' = NoTraining /\ PerStock' = PerStock /\ Overwriting' = Overwriting
  BY DEF NoTraining, InProgress, PerStock, Overwriting
<1>2. Quiet(q)' /\ Kind(q)' /\ FilesRead(q)'
  BY <1>1 DEF Reads, Quiet, Kind, FilesRead, Whole
<1>3. Undisturbed(q)' => Undisturbed(q)
  BY <1>1 DEF Undisturbed
<1>4. FromBundle(q) /\ FromRoot(q) /\ Scored(q) => (FromBundle(q) /\ FromRoot(q) /\ Scored(q))'
  BY <1>1 DEF FromBundle, FromRoot, Scored, Partly, ByOwn
<1> QED  BY <1>2, <1>3, <1>4 DEF Reads

\* A run that goes on to a state where nothing is loaded, or that fails.
LEMMA NothingLoaded ==
    ASSUME NEW q \in Score, Quiet(q), score[q].pc # "idle", score'[q].quiet = score[q].quiet,
           UNCHANGED <<files, bundle, train, faults>>,
           \A d \in Dir : score'[q].loaded[d] = NoArtifact,
           \/ score'[q].pc = "failed"
           \/ score'[q].pc = "look" /\ score'[q].todo = {Root}
           \/ /\ score'[q].pc = "bundle" /\ PerStock /\ score'[q].again
              /\ score'[q].todo \subseteq Isin
    PROVE  Reads(q)'
<1>1. /\ NoTraining' = NoTraining /\ PerStock' = PerStock
  BY DEF NoTraining, InProgress, PerStock
<1>2. score'[q].pc \notin {"marker"} \cup Looked
  BY DEF Looked
<1>3. Quiet(q)'
  BY <1>1, <1>2 DEF Quiet
<1>4. Kind(q)'
  BY <1>1, <1>2 DEF Kind
<1>5. FilesRead(q)'
  BY <1>2 DEF FilesRead, Looked
<1>6. FromBundle(q)' /\ FromRoot(q)' /\ Scored(q)'
  BY <1>2 DEF FromBundle, FromRoot, Scored
<1> QED  BY <1>3, <1>4, <1>5, <1>6 DEF Reads

LEMMA ReadFileEffect ==
    ASSUME BundleTypeOK, NEW q \in Score, NEW file \in Looked, NEW label, NEW todo,
           ReadFile(q, file, label, todo)
    PROVE  \/ Failed(q)
           \/ /\ score'[q].pc = label /\ score'[q].todo = todo
              /\ score'[q].at = score[q].at /\ score'[q].again = score[q].again
              /\ score'[q].quiet = score[q].quiet
              /\ files[score[q].at][file] \notin {None, Torn}
              /\ score'[q].loaded[score[q].at][file] = files[score[q].at][file]
              /\ \A f \in Looked \ {file} :
                   score'[q].loaded[score[q].at][f] = score[q].loaded[score[q].at][f]
              /\ \A d \in Dir \ {score[q].at} : score'[q].loaded[d] = score[q].loaded[d]
<1> DEFINE at == score[q].at
           a == [score[q].loaded[at] EXCEPT ![file] = files[at][file]]
           loaded == [score[q].loaded EXCEPT ![at] = a]
           next == [score[q] EXCEPT !.pc = label, !.todo = todo,
                      !.loaded[score[q].at][file] = files[score[q].at][file]]
           ok == files[score[q].at][file] \notin {None, Torn}
<1>1. /\ score[q] \in Scoring /\ at \in Dir /\ score[q].loaded \in [Dir -> Artifact]
      /\ score[q].loaded[at] \in Artifact
  BY DEF BundleTypeOK, Scoring
<1>2. next = [score[q] EXCEPT !.pc = label, !.todo = todo, !.loaded = loaded]
  BY <1>1 DEF Scoring
<1>3. Advance(q, ok, next) /\ ok \in BOOLEAN
  BY DEF ReadFile
<1>4. a[file] = files[at][file] /\ \A f \in Looked \ {file} : a[f] = score[q].loaded[at][f]
  BY <1>1 DEF Artifact, Looked
<1>5. loaded[at] = a /\ \A d \in Dir \ {at} : loaded[d] = score[q].loaded[d]
  BY <1>1
<1>6. /\ next.pc = label /\ next.todo = todo /\ next.loaded = loaded
      /\ next.at = score[q].at /\ next.again = score[q].again /\ next.quiet = score[q].quiet
  BY <1>1, <1>2 DEF Scoring
<1>7. (ok /\ score'[q] = next) \/ Failed(q)
  <2> HIDE DEF next, ok
  <2> QED  BY <1>3, Advanced
<1>8. \/ Failed(q)
      \/ /\ files[at][file] \notin {None, Torn}
         /\ score'[q].pc = label /\ score'[q].todo = todo /\ score'[q].loaded = loaded
         /\ score'[q].at = at /\ score'[q].again = score[q].again
         /\ score'[q].quiet = score[q].quiet
  <2> HIDE DEF next, loaded
  <2> QED  BY <1>6, <1>7
<1> HIDE DEF a, loaded, next
<1> QED  BY <1>4, <1>5, <1>8

LEMMA FailedReads ==
    ASSUME BundleTypeOK, NEW q \in Score, Reads(q), score[q].pc # "idle", Failed(q),
           UNCHANGED <<files, bundle, train, faults>>
    PROVE  Reads(q)'
<1>1. /\ score'[q].pc = "failed" /\ score'[q].quiet = score[q].quiet
      /\ score'[q].loaded = Nothing
  BY DEF Failed, BundleTypeOK, Scoring
<1>2. \A d \in Dir : score'[q].loaded[d] = NoArtifact
  BY <1>1 DEF Nothing
<1> QED  BY <1>1, <1>2, NothingLoaded DEF Reads

\* Looking for the mode or the marker.
LEMMA LooksKeepReads ==
    ASSUME AllInv, NEW q \in Score, Reads(q),
           \/ BeginScoring(q) \/ ReadBundle(q) \/ LookForBundle(q) \/ ReadHalfWritten(q)
           \/ \E panel \in SUBSET Isin : ReadPanel(q, panel)
           \/ \E d \in Dir : FindMarker(q, d)
    PROVE  Reads(q)'
<1>1. /\ BundleTypeOK /\ score[q] \in Scoring
      /\ PerStock \in BOOLEAN /\ NoTraining \in BOOLEAN /\ Root \notin Isin
  BY ModelBundleAssumption DEF AllInv, BundleTypeOK, PerStock, NoTraining
<1>2. UNCHANGED <<files, bundle, train, faults>>
  BY DEF BeginScoring, ReadPanel, ReadBundle, LookForBundle, FindMarker, ReadHalfWritten, Advance
<1>3. NoTraining' = NoTraining /\ PerStock' = PerStock /\ Overwriting' = Overwriting
  BY <1>2 DEF NoTraining, InProgress, PerStock, Overwriting
<1>4. CASE Failed(q) /\ score[q].pc # "idle"
  BY <1>1, <1>2, <1>4, FailedReads
<1>5. CASE BeginScoring(q)
  <2> DEFINE next == [score[q] EXCEPT !.pc = IF PerStock THEN "panel" ELSE "look",
                                      !.todo = IF PerStock THEN {} ELSE {Root},
                                      !.quiet = NoTraining]
  <2>1. score[q].pc = "idle" /\ Advance(q, TRUE, next)
    BY <1>5 DEF BeginScoring
  <2>2. /\ next.pc \in {"panel", "look"} /\ next.quiet = NoTraining
        /\ next.loaded = score[q].loaded /\ next.again = score[q].again
        /\ next.pc = "look" => next.todo = {Root}
    BY <1>1 DEF Scoring
  <2> HIDE DEF next
  <2>3. score'[q] = next
    BY <1>1, <2>1, Advanced
  <2>4. Quiet(q)' /\ FromBundle(q)' /\ FromRoot(q)' /\ Scored(q)'
    BY <1>3, <2>2, <2>3 DEF Quiet, FromBundle, FromRoot, Scored, Looked
  <2>5. \A d \in Dir : score[q].loaded[d] = NoArtifact \/ Whole(score[q].loaded[d])
    BY <2>1 DEF Reads, FilesRead, Looked
  <2>6. FilesRead(q)'
    BY <2>2, <2>3, <2>5 DEF FilesRead, Whole, Looked
  <2>7. ~next.again
    BY <2>1, <2>2 DEF Reads, Kind
  <2>8. Kind(q)'
    BY <2>2, <2>3, <2>7 DEF Kind, Looked
  <2> QED  BY <2>4, <2>6, <2>8 DEF Reads
<1>6. ASSUME NEW panel \in SUBSET Isin, ReadPanel(q, panel) PROVE Reads(q)'
  <2> DEFINE next == [score[q] EXCEPT !.pc = IF PerStock THEN "bundle" ELSE "look",
                                      !.again = TRUE,
                                      !.todo = IF PerStock THEN panel ELSE {Root},
                                      !.loaded = Nothing]
  <2>1. score[q].pc = "panel" /\ Advance(q, TRUE, next)
    BY <1>6 DEF ReadPanel
  <2>2. /\ next.quiet = score[q].quiet /\ next.loaded = Nothing /\ next.again
        /\ \/ next.pc = "bundle" /\ PerStock /\ next.todo = panel
           \/ next.pc = "look" /\ next.todo = {Root}
    BY <1>1 DEF Scoring
  <2> HIDE DEF next
  <2>3. score'[q] = next
    BY <1>1, <2>1, Advanced
  <2>4. \A d \in Dir : score'[q].loaded[d] = NoArtifact
    BY <2>2, <2>3 DEF Nothing
  <2> QED  BY <1>2, <2>1, <2>2, <2>3, <2>4, NothingLoaded DEF Reads
<1>7. CASE ReadBundle(q) \/ LookForBundle(q)
  <2> DEFINE next == [score[q] EXCEPT !.pc = "marker"]
  <2>1. /\ next.pc = "marker" /\ next.quiet = score[q].quiet /\ next.again = score[q].again
        /\ next.todo = score[q].todo /\ next.loaded = score[q].loaded
    BY <1>1 DEF Scoring
  <2> HIDE DEF next
  <2>2. ASSUME ReadBundle(q), ~Failed(q) PROVE Reads(q)'
    <3>1. /\ score[q].pc = "bundle" /\ score[q].todo \subseteq bundle.isins
          /\ score'[q] = next
      BY <1>1, <2>2, Advanced DEF ReadBundle, next
    <3>2. /\ PerStock /\ score[q].again /\ score[q].todo \subseteq Isin
          /\ \A d \in Dir : score[q].loaded[d] = NoArtifact
      BY <3>1 DEF Reads, Kind
    <3>3. Quiet(q)'
      BY <1>1, <1>3, <2>1, <3>1, <3>2 DEF Reads, Quiet
    <3>4. Kind(q)'
      BY <1>1, <1>3, <2>1, <3>1, <3>2 DEF Kind, Looked
    <3>5. FilesRead(q)'
      BY <2>1, <3>1, <3>2 DEF FilesRead, Looked
    <3>6. \A d \in Dir : Partly(score[q].loaded[d], bundle.by)
      BY <3>2 DEF Partly, NoArtifact, Looked
    <3>7. FromBundle(q)' /\ FromRoot(q)' /\ Scored(q)'
      BY <1>2, <1>3, <2>1, <3>1, <3>2, <3>6 DEF FromBundle, FromRoot, Scored, Partly, Looked
    <3> QED  BY <3>3, <3>4, <3>5, <3>7 DEF Reads
  <2>3. ASSUME LookForBundle(q), ~Failed(q) PROVE Reads(q)'
    <3>1. score[q].pc = "look" /\ ~PerStock /\ score'[q] = next
      BY <1>1, <2>3, Advanced DEF LookForBundle, next
    <3>2. score[q].todo = {Root} /\ ~({Root} \subseteq Isin)
      BY <1>1, <3>1 DEF Reads, Kind
    <3>3. Quiet(q)'
      BY <1>3, <2>1, <3>1 DEF Reads, Quiet
    <3>4. Kind(q)'
      BY <2>1, <3>1, <3>2 DEF Reads, Kind, Looked, Dir
    <3>5. FilesRead(q)'
      BY <2>1, <3>1 DEF Reads, FilesRead, Looked, Whole
    <3>6. FromBundle(q)' /\ FromRoot(q)' /\ Scored(q)'
      BY <2>1, <3>1, <3>2 DEF FromBundle, FromRoot, Scored, Looked
    <3> QED  BY <3>3, <3>4, <3>5, <3>6 DEF Reads
  <2> QED  BY <1>4, <1>7, <2>2, <2>3 DEF ReadBundle, LookForBundle
<1>8. ASSUME NEW d \in Dir, FindMarker(q, d), ~Failed(q) PROVE Reads(q)'
  <2> DEFINE next == [score[q] EXCEPT !.pc = "allowlist", !.at = d]
             ok == files[d].manifest # None
  <2>1. /\ next.pc = "allowlist" /\ next.quiet = score[q].quiet /\ next.again = score[q].again
        /\ next.todo = score[q].todo /\ next.loaded = score[q].loaded /\ next.at = d
    BY <1>1 DEF Scoring
  <2>2. score[q].pc = "marker" /\ d \in score[q].todo /\ Advance(q, ok, next) /\ ok \in BOOLEAN
    BY <1>8 DEF FindMarker
  <2> HIDE DEF next
  <2>3. files[d].manifest # None /\ score'[q] = next
    <3> HIDE DEF ok
    <3>1. ok /\ score'[q] = next
      BY <1>1, <1>8, <2>2, Advanced
    <3> QED  BY <3>1 DEF ok
  <2>4. Quiet(q)'
    BY <1>3, <2>1, <2>2, <2>3 DEF Reads, Quiet
  <2>5. Kind(q)'
    BY <2>1, <2>2, <2>3 DEF Reads, Kind, Looked
  <2>6. FilesRead(q)'
    BY <2>1, <2>2, <2>3 DEF Reads, FilesRead, Looked, Whole
  <2>7. ASSUME Undisturbed(q)' PROVE FromBundle(q)' /\ FromRoot(q)' /\ Scored(q)'
    <3>1. FromBundle(q)
      BY <1>2, <1>3, <2>1, <2>3, <2>7 DEF Undisturbed, Reads
    <3>2. FromBundle(q)'
      BY <1>2, <1>3, <2>1, <2>2, <2>3, <3>1 DEF FromBundle, Partly, Looked
    <3>3. ASSUME score[q].todo = {Root}, score[q].again
          PROVE  Partly(score[q].loaded[Root], files[Root].manifest)
      <4>1. score[q].loaded[Root] = NoArtifact
        BY <2>2, <3>3 DEF Reads, Kind
      <4> QED  BY <4>1 DEF Partly, NoArtifact, Looked
    <3>4. FromRoot(q)'
      BY <1>2, <2>1, <2>2, <2>3, <3>3 DEF FromRoot, Partly
    <3> QED  BY <2>1, <2>3, <3>2, <3>4 DEF Scored
  <2> QED  BY <2>4, <2>5, <2>6, <2>7 DEF Reads
<1>9. CASE ReadHalfWritten(q)
  <2>1. Failed(q) /\ score[q].pc # "idle"
    BY <1>1, <1>9, Advanced DEF ReadHalfWritten
  <2> QED  BY <1>4, <2>1
<1> QED
  BY <1>4, <1>5, <1>6, <1>7, <1>8, <1>9 DEF FindMarker

LEMMA WholeAndPartly ==
    ASSUME NEW a, NEW r, Whole(a), Partly(a, r)
    PROVE  ByOwn(a, r)
BY DEF Whole, Partly, ByOwn, Looked

\* The order in which the files of an artifact are read.
Follows(q, file, label, todo) ==
    \/ /\ <<file, label>> \in {<<"allowlist", "manifest">>, <<"manifest", "bullish">>,
                               <<"bullish", "bearish">>}
       /\ todo = score[q].todo
    \/ /\ file = "bearish" /\ label = AfterLoad(q)
       /\ todo = score[q].todo \ {score[q].at}

LEMMA ReadFileKeepsReads ==
    ASSUME AllInv, BundleWhole, RootWhole, NEW q \in Score, Reads(q),
           NEW file \in Looked, NEW label, NEW todo, Follows(q, file, label, todo),
           ReadFile(q, file, label, todo)
    PROVE  Reads(q)'
<1> DEFINE at == score[q].at
<1>1. /\ BundleTypeOK /\ score[q] \in Scoring /\ at \in Dir /\ Root \in Dir /\ Root \notin Isin
      /\ files[at] \in Artifact /\ files[Root] \in Artifact
  BY ModelBundleAssumption DEF AllInv, BundleTypeOK, Scoring, Dir
<1>2. UNCHANGED <<files, bundle, train, faults>> /\ score[q].pc = file
  BY DEF ReadFile, Advance
<1>3. NoTraining' = NoTraining /\ PerStock' = PerStock /\ Overwriting' = Overwriting
  BY <1>2 DEF NoTraining, InProgress, PerStock, Overwriting
<1>4. SUFFICES ASSUME ~Failed(q) PROVE Reads(q)'
  BY <1>1, <1>2, FailedReads DEF Looked
<1>5. /\ score'[q].pc = label /\ score'[q].todo = todo
      /\ score'[q].at = at /\ score'[q].again = score[q].again
      /\ score'[q].quiet = score[q].quiet
      /\ files[at][file] \notin {None, Torn}
      /\ score'[q].loaded[at][file] = files[at][file]
      /\ \A f \in Looked \ {file} : score'[q].loaded[at][f] = score[q].loaded[at][f]
      /\ \A d \in Dir \ {at} : score'[q].loaded[d] = score[q].loaded[d]
  BY <1>1, <1>4, ReadFileEffect
<1>6. at \in score[q].todo
  BY <1>2 DEF Reads, Kind
<1>7. \/ score[q].todo \subseteq Isin /\ score[q].again /\ at \in Isin
      \/ /\ score[q].todo = {Root} /\ at = Root
         /\ (score[q].again => \A d \in Isin : score[q].loaded[d] = NoArtifact)
  BY <1>2, <1>6 DEF Reads, Kind
<1>8. \/ /\ label \in {"manifest", "bullish", "bearish"} /\ todo = score[q].todo
      \/ /\ file = "bearish" /\ label = AfterLoad(q)
         /\ label \in {"panel", "marker", "scored"} /\ todo = score[q].todo \ {at}
  BY AfterLoadType DEF Follows
<1>9. (label = "marker" => score[q].again /\ todo \subseteq Isin)
      /\ (label = "scored" => score[q].again)
  BY <1>7, <1>8 DEF AfterLoad
<1>10. Quiet(q)'
  <2>1. (label \in {"marker"} \cup Looked /\ todo = {Root}) => score[q].todo = {Root}
    BY <1>1, <1>8, <1>9 DEF Looked
  <2> QED  BY <1>2, <1>3, <1>5, <2>1 DEF Reads, Quiet, Looked
<1>11. Kind(q)'
  <2>1. CASE label \in {"panel", "scored"}
    BY <1>5, <2>1 DEF Kind, Looked
  <2>2. CASE label = "marker"
    BY <1>1, <1>5, <1>9, <2>2 DEF Kind, Looked
  <2>3. CASE label \in {"manifest", "bullish", "bearish"}
    <3>1. todo = score[q].todo
      BY <1>8, <2>3
    <3>2. \/ todo \subseteq Isin /\ score[q].again
          \/ /\ todo = {Root}
             /\ (score[q].again => \A d \in Isin : score'[q].loaded[d] = NoArtifact)
      BY <1>1, <1>5, <1>7, <3>1 DEF Dir
    <3> QED  BY <1>5, <1>6, <2>3, <3>1, <3>2 DEF Kind, Looked
  <2> QED  BY <1>8, <2>1, <2>2, <2>3
<1>12. FilesRead(q)'
  <2>1. \A d \in Dir \ {at} : score'[q].loaded[d] = NoArtifact \/ Whole(score'[q].loaded[d])
    BY <1>5 DEF Reads, FilesRead
  <2>2. CASE label \in {"manifest", "bullish", "bearish"}
    <3>1. <<file, label>> \in {<<"allowlist", "manifest">>, <<"manifest", "bullish">>,
                               <<"bullish", "bearish">>}
      BY <2>2, AfterLoadType DEF Follows
    <3>2. /\ score'[q].loaded[at]["allowlist"] # None
          /\ label \in {"bullish", "bearish"} => score'[q].loaded[at]["manifest"] # None
          /\ label = "bearish" => score'[q].loaded[at]["bullish"] # None
      BY <1>2, <1>5, <3>1 DEF Reads, FilesRead, Looked
    <3>3. \A d \in Dir : (d # at \/ label \notin Looked) =>
             score'[q].loaded[d] = NoArtifact \/ Whole(score'[q].loaded[d])
      BY <2>1, <2>2 DEF Looked
    <3> QED  BY <1>5, <3>2, <3>3 DEF FilesRead, Whole
  <2>3. CASE file = "bearish" /\ label \in {"panel", "marker", "scored"}
    <3>1. Whole(score'[q].loaded[at])
      BY <1>2, <1>5, <2>3 DEF Reads, FilesRead, Whole, Looked
    <3>2. \A d \in Dir : score'[q].loaded[d] = NoArtifact \/ Whole(score'[q].loaded[d])
      BY <2>1, <3>1
    <3> QED  BY <1>5, <2>3, <3>2 DEF FilesRead, Whole
  <2> QED  BY <1>8, <2>2, <2>3
<1>13. label = "scored" =>
         \A d \in Dir : score'[q].loaded[d] = NoArtifact \/ Whole(score'[q].loaded[d])
  BY <1>5, <1>12 DEF FilesRead, Whole, Looked
<1>14. ASSUME Undisturbed(q)' PROVE FromBundle(q)' /\ FromRoot(q)' /\ Scored(q)'
  <2>1. score'[q].loaded[at] # NoArtifact
    BY <1>5 DEF NoArtifact, Looked
  <2>2. score'[q].loaded[Root] = NoArtifact => score[q].loaded[Root] = NoArtifact
    BY <1>1, <1>5, <2>1
  <2>3. Undisturbed(q)
    BY <1>2, <1>3, <1>5, <1>14, <2>2 DEF Undisturbed
  <2>4. FromBundle(q) /\ FromRoot(q) /\ Unbroken("pooled") /\ Unbroken("per_stock")
    BY <1>2, <2>3, CalmIsUnbroken DEF Reads, Looked
  <2>5. ASSUME NEW r, files[at][file] = r, Partly(score[q].loaded[at], r)
        PROVE  Partly(score'[q].loaded[at], r)
    BY <1>5, <2>5 DEF Partly
  <2>6. CASE score[q].todo \subseteq Isin /\ score[q].again /\ at \in Isin
    <3>1. /\ PerStock /\ score[q].todo \subseteq bundle.isins
          /\ \A d \in Dir : Partly(score[q].loaded[d], bundle.by)
      BY <1>2, <2>4, <2>6 DEF FromBundle
    <3>2. ByOwn(files[at], bundle.by)
      BY <1>6, <2>4, <3>1 DEF BundleWhole
    <3>3. files[at][file] = bundle.by
      BY <3>2 DEF ByOwn, Looked
    <3>4. \A d \in Dir : Partly(score'[q].loaded[d], bundle.by)
      BY <1>1, <1>5, <2>5, <3>1, <3>3
    <3>5. todo \subseteq score[q].todo /\ todo \subseteq Isin
      BY <1>8, <2>6
    <3>6. FromBundle(q)'
      BY <1>2, <1>3, <1>5, <3>1, <3>4, <3>5 DEF FromBundle, Partly
    <3>7. FromRoot(q)'
      BY <1>1, <1>5, <3>5 DEF FromRoot
    <3>8. bundle.by \in Train
      BY <1>1, <3>1 DEF PerStock, BundleTypeOK, Bundle
    <3>9. label = "scored" => \A d \in Dir : \/ score'[q].loaded[d] = NoArtifact
                                             \/ ByOwn(score'[q].loaded[d], bundle.by)
      BY <1>13, <3>4, WholeAndPartly
    <3>10. Scored(q)'
      BY <1>5, <3>8, <3>9 DEF Scored, ByOwn
    <3> QED  BY <3>6, <3>7, <3>10
  <2>7. CASE /\ score[q].todo = {Root} /\ at = Root
             /\ (score[q].again => \A d \in Isin : score[q].loaded[d] = NoArtifact)
    <3>1. label # "marker" /\ (label \in Looked => todo = {Root})
      BY <1>8, <2>7 DEF AfterLoad, Looked
    <3>2. FromBundle(q)'
      BY <1>1, <1>5, <3>1 DEF FromBundle
    <3>3. CASE ~score[q].again
      BY <1>5, <1>9, <3>2, <3>3 DEF FromRoot, Scored
    <3>4. CASE score[q].again
      <4>1. ~PerStock
        BY <1>2, <1>3, <1>5, <1>14, <2>1, <2>7 DEF Undisturbed, Reads, Quiet, Looked
      <4>2. PICK m : m = files[Root].manifest
        OBVIOUS
      <4>3. m # None /\ Partly(score[q].loaded[Root], m)
        BY <1>2, <2>4, <2>7, <3>4, <4>2 DEF FromRoot
      <4>4. ByOwn(files[Root], m)
        BY <2>4, <4>1, <4>2, <4>3 DEF RootWhole
      <4>5. files[at][file] = m
        BY <2>7, <4>4 DEF ByOwn, Looked
      <4>6. Partly(score'[q].loaded[Root], m)
        BY <2>5, <2>7, <4>3, <4>5
      <4>7. FromRoot(q)'
        BY <1>2, <4>2, <4>3, <4>6 DEF FromRoot, Partly
      <4>8. m \in Train
        BY <1>1, <1>5, <4>2, <4>5 DEF Artifact, Entry
      <4>9. \A d \in Isin : score'[q].loaded[d] = NoArtifact
        BY <1>1, <1>5, <2>7, <3>4 DEF Dir
      <4>10. label = "scored" => \A d \in Dir : \/ score'[q].loaded[d] = NoArtifact
                                                \/ ByOwn(score'[q].loaded[d], m)
        BY <1>13, <4>6, <4>9, WholeAndPartly DEF Dir
      <4>11. Scored(q)'
        BY <1>5, <4>8, <4>10 DEF Scored, ByOwn
      <4> QED  BY <3>2, <4>7, <4>11
    <3> QED  BY <3>3, <3>4
  <2> QED  BY <1>7, <2>6, <2>7
<1> QED  BY <1>10, <1>11, <1>12, <1>14 DEF Reads

LEMMA ScoringKeepsReads ==
    ASSUME AllInv, ServeInv, NEW q \in Score, ScoreStep(q), NEW p \in Score
    PROVE  Reads(p)'
<1>1. /\ UNCHANGED <<files, bundle, train, faults>>
      /\ \A s \in Score \ {q} : score'[s] = score[s]
  BY ScoringMoves DEF AllInv
<1>2. CASE p # q
  BY <1>1, <1>2, AsideReads DEF ServeInv
<1>3. CASE p = q /\ LoadArtifact(q)
  <2>1. \E file \in Looked : \E label, todo : /\ Follows(q, file, label, todo)
                                              /\ ReadFile(q, file, label, todo)
    BY <1>3 DEF LoadArtifact, Follows, Looked
  <2> QED  BY <1>3, <2>1, ReadFileKeepsReads DEF ServeInv
<1>4. CASE p = q /\ ~LoadArtifact(q)
  <2>1. \/ BeginScoring(q) \/ ReadBundle(q) \/ LookForBundle(q) \/ ReadHalfWritten(q)
        \/ \E panel \in SUBSET Isin : ReadPanel(q, panel)
        \/ \E d \in Dir : FindMarker(q, d)
    BY <1>4 DEF ScoreStep
  <2> QED  BY <1>4, <2>1, LooksKeepReads DEF ServeInv
<1> QED  BY <1>2, <1>3, <1>4

LEMMA ServeInvInit == BundleInit => ServeInv
<1> SUFFICES ASSUME BundleInit PROVE ServeInv
  OBVIOUS
<1>1. BundleWhole /\ RootWhole
  BY DEF BundleInit, BundleWhole, RootWhole, PerStock, NoArtifact, Dir
<1>2. ASSUME NEW q \in Score PROVE Reads(q)
  <2>1. /\ score[q].pc = "idle" /\ score[q].again = FALSE
        /\ \A d \in Dir : score[q].loaded[d] = NoArtifact
    BY DEF BundleInit
  <2> QED
    BY <2>1 DEF Reads, Quiet, Kind, FilesRead, FromBundle, FromRoot, Scored, Looked
<1> QED  BY <1>1, <1>2 DEF ServeInv

LEMMA ServeInvNext ==
    ASSUME AllInv, Overlap = FALSE, ServeInv, [BundleNext]_bundleVars
    PROVE  ServeInv'
<1>1. ASSUME UNCHANGED <<files, bundle, train, faults>> PROVE BundleWhole' /\ RootWhole'
  BY <1>1
  DEF ServeInv, BundleWhole, RootWhole, PerStock, Unbroken, Replacing, Overwriting, InProgress,
      ByOwn
<1>2. ASSUME NEW r \in Train, TrainStep(r) \/ Fault(r) PROVE ServeInv'
  BY <1>2, BundleWholeNext, RootWholeNext, TrainingKeepsLoads DEF ServeInv
<1>3. ASSUME NEW q \in Score, ScoreStep(q) PROVE ServeInv'
  BY <1>1, <1>3, ScoringMoves, ScoringKeepsReads DEF ServeInv, AllInv
<1>4. CASE UNCHANGED bundleVars
  <2>1. \A q \in Score : Reads(q)'
    BY <1>4, AsideReads DEF bundleVars, ServeInv
  <2> QED  BY <1>1, <1>4, <2>1 DEF bundleVars, ServeInv
<1> QED  BY <1>2, <1>3, <1>4 DEF BundleNext

\* The scores of one ranking come from the files of one training, read one by one
\* beside whatever trainings, unless a training with overwrite has died or was in
\* progress during the ranking, or the first bundle came beside a pooled artifact.
THEOREM RankedFromOneTraining ==
    ASSUME Overlap = FALSE
    PROVE  BundleSpec => []RanksFromOneTraining
<1>1. AllInv /\ ServeInv /\ [BundleNext]_bundleVars => ServeInv'
  BY ServeInvNext
<1>2. ServeInv => RanksFromOneTraining
  <2> SUFFICES ASSUME ServeInv, NEW q \in Score, score[q].pc = "scored", Undisturbed(q)
               PROVE  \E r \in Train :
                        \A a \in {score[q].loaded[d] : d \in {d \in Dir :
                                    score[q].loaded[d] # NoArtifact}} :
                          {a.bullish, a.bearish, a.allowlist, a.manifest} = {r}
    BY DEF RanksFromOneTraining
  <2>1. PICK r \in Train : \A d \in Dir : \/ score[q].loaded[d] = NoArtifact
                                          \/ ByOwn(score[q].loaded[d], r)
    BY DEF ServeInv, Reads, Scored
  <2>2. ASSUME NEW d \in Dir, score[q].loaded[d] # NoArtifact
        PROVE  {score[q].loaded[d].bullish, score[q].loaded[d].bearish,
                score[q].loaded[d].allowlist, score[q].loaded[d].manifest} = {r}
    BY <2>1, <2>2 DEF ByOwn
  <2> QED  BY <2>2
<1>3. AllInv <=> BundleTypeOK /\ MarkerInv /\ FreezeInv
  BY DEF AllInv
<1> QED  BY <1>1, <1>2, <1>3, ServeInvInit, FreezeInvHolds, PTL DEF BundleSpec
===============================================================================
