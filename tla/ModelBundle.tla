----------------------------- MODULE ModelBundle -----------------------------
(***************************************************************************)
(* The directory data/models/<model_name>/<model_version> and the          *)
(* processes on it (src/stock_engine/models/).  Training freezes into it   *)
(* either one pooled artifact, at its root, or one artifact per ISIN under *)
(* by_isin/ and then a bundle manifest at the root (artifact.py,           *)
(* per_stock_train.py); both trainings take the model name and version     *)
(* from the same configuration.  Inference loads from it (scorer.py).      *)
(*                                                                         *)
(* A file is known by the training run that wrote it.  An artifact is five *)
(* files written one after the other, of which train_manifest.json marks   *)
(* the artifact as there.                                                  *)
(***************************************************************************)
EXTENDS Naturals

CONSTANTS
    Isin,        \* numbered in sorted order
    Root,        \* the directory of the pooled artifact
    Train,       \* training runs
    Modes,       \* what training runs may freeze: "pooled", "per_stock"
    Score,       \* inference runs
    None, Torn,  \* no such file; a file whose writer died
    MaxFaults,   \* bound: exceptions and kills
    Overlap      \* TRUE: two trainings may be in progress at once

Dir == Isin \cup {Root}

ASSUME ModelBundleAssumption ==
    /\ Isin \subseteq Nat /\ Root \notin Isin
    /\ Modes \subseteq {"pooled", "per_stock"}
    /\ {None, Torn} \cap Train = {} /\ None # Torn
    /\ MaxFaults \in Nat /\ Overlap \in BOOLEAN

VARIABLES
    files,   \* directory -> the five files of an artifact
    bundle,  \* bundle_manifest.json: who wrote it, and its isins
    train,   \* the local variables of each training run
    score,   \* the local variables of each inference run
    faults

bundleVars == <<files, bundle, train, score, faults>>

Entry == Train \cup {None, Torn}

Artifact == [bullish : Entry, bearish : Entry, allowlist : Entry,
             manifest : Entry, metrics : Entry]

NoArtifact == [bullish |-> None, bearish |-> None, allowlist |-> None,
               manifest |-> None, metrics |-> None]

Bundle == [by : Train \cup {None}, isins : SUBSET Isin]

Training ==
    [pc : {"idle", "check", "bullish", "bearish", "allowlist", "manifest",
           "metrics", "check_bundle", "bundle", "bundle_allowlist",
           "success", "refused", "failed"},
     mode : {"pooled", "per_stock"},
     over : BOOLEAN,         \* overwrite
     isins : SUBSET Isin,    \* isins of the train matrix
     todo : SUBSET Dir]      \* artifacts still to be frozen

Scoring ==
    [pc : {"idle", "look", "marker", "allowlist", "manifest", "bullish", "bearish",
           "panel", "bundle", "scored", "failed"},
     again : BOOLEAN,              \* the panel has been read
     todo : SUBSET Dir,            \* artifacts still to be loaded
     at : Dir,                     \* the artifact being loaded, or the last one
     loaded : [Dir -> Artifact],
     quiet : BOOLEAN]              \* history: no training since it began

BundleTypeOK ==
    /\ files \in [Dir -> Artifact]
    /\ bundle \in Bundle
    /\ train \in [Train -> Training]
    /\ \A r \in Train :
         train[r].pc \in {"check_bundle", "bundle", "bundle_allowlist"} =>
            train[r].mode = "per_stock"
    /\ score \in [Score -> Scoring]
    /\ faults \in 0..MaxFaults

BundleInit ==
    /\ files = [d \in Dir |-> NoArtifact]
    /\ bundle = [by |-> None, isins |-> {}]
    /\ train = [r \in Train |-> [pc |-> "idle", mode |-> "per_stock", over |-> FALSE,
                                 isins |-> {}, todo |-> {}]]
    /\ score = [q \in Score |-> [pc |-> "idle", again |-> FALSE, todo |-> {}, at |-> Root,
                                 loaded |-> [d \in Dir |-> NoArtifact],
                                 quiet |-> TRUE]]
    /\ faults = 0

InProgress(r) == train[r].pc \notin {"idle", "success", "refused", "failed"}

NoTraining == \A r \in Train : ~InProgress(r)

\* A step of training r to label, and what it means for the inference runs.
Goto(r, label) == train' = [train EXCEPT ![r].pc = label]

Disturb == score' = [q \in Score |-> [score[q] EXCEPT !.quiet = FALSE]]

-------------------------------------------------------------------------------
(* Training: publish_artifact for each ISIN, or once for the pooled model, and *)
(* publish_per_stock_bundle.                                                   *)

\* The matrix is loaded and has these ISINs, or it cannot be built.
BeginTraining(r, mode, over, isins) ==
    /\ train[r].pc = "idle"
    /\ Overlap \/ NoTraining
    /\ \E label \in {"check", "failed"} :
         train' = [train EXCEPT ![r] =
                     [pc |-> label, mode |-> mode, over |-> over, isins |-> isins,
                      todo |-> IF mode = "pooled" THEN {Root} ELSE isins]]
    /\ Disturb
    /\ UNCHANGED <<files, bundle, faults>>

AtArtifact(r, d) ==
    /\ d \in train[r].todo
    /\ \A e \in train[r].todo : d = e \/ d < e

\* Mutant: the marker is not looked for.
CheckArtifactSkipped(r, d) ==
    /\ train[r].pc = "check"
    /\ AtArtifact(r, d)
    /\ Goto(r, "bullish")
    /\ UNCHANGED <<files, bundle, score, faults>>

\* The marker is looked for when the model has been trained.
CheckArtifact(r, d) ==
    /\ train[r].pc = "check"
    /\ AtArtifact(r, d)
    /\ Goto(r, IF files[d].manifest # None /\ ~train[r].over THEN "refused" ELSE "bullish")
    /\ UNCHANGED <<files, bundle, score, faults>>

WriteFile(r, d, file, label) ==
    /\ train[r].pc = file
    /\ AtArtifact(r, d)
    /\ files' = [files EXCEPT ![d][file] = r]
    /\ Goto(r, label)
    /\ UNCHANGED <<bundle, score, faults>>

\* Mutant: the bundle is published after the first artifact.
AfterArtifactFirst(r, d) == IF train[r].mode = "pooled" THEN "success" ELSE "check_bundle"

\* What is frozen after the artifact of d: the next one, or the bundle.
AfterArtifact(r, d) ==
    IF train[r].todo # {d} THEN "check"
    ELSE IF train[r].mode = "pooled" THEN "success" ELSE "check_bundle"

WriteMetrics(r, d) ==
    /\ train[r].pc = "metrics"
    /\ AtArtifact(r, d)
    /\ files' = [files EXCEPT ![d].metrics = r]
    /\ train' = [train EXCEPT ![r].pc = AfterArtifact(r, d), ![r].todo = @ \ {d}]
    /\ UNCHANGED <<bundle, score, faults>>

WriteArtifact(r, d) ==
    \/ WriteFile(r, d, "bullish", "bearish")
    \/ WriteFile(r, d, "bearish", "allowlist")
    \/ WriteFile(r, d, "allowlist", "manifest")
    \/ WriteFile(r, d, "manifest", "metrics")
    \/ WriteMetrics(r, d)

\* Mutant: the bundle is published without looking.
CheckBundleSkipped(r) ==
    /\ train[r].pc = "check_bundle"
    /\ Goto(r, "bundle")
    /\ UNCHANGED <<files, bundle, score, faults>>

\* publish_per_stock_bundle has a marker of its own.
CheckBundle(r) ==
    /\ train[r].pc = "check_bundle"
    /\ Goto(r, IF bundle.by # None /\ ~train[r].over THEN "refused" ELSE "bundle")
    /\ UNCHANGED <<files, bundle, score, faults>>

WriteBundle(r) ==
    /\ train[r].pc = "bundle"
    /\ bundle' = [by |-> r, isins |-> train[r].isins]
    /\ Goto(r, "bundle_allowlist")
    /\ UNCHANGED <<files, score, faults>>

\* The allow-list at the root, and metrics_per_stock.json, which nothing reads.
WriteBundleAllowlist(r) ==
    /\ train[r].pc = "bundle_allowlist"
    /\ files' = [files EXCEPT ![Root].allowlist = r]
    /\ Goto(r, "success")
    /\ UNCHANGED <<bundle, score, faults>>

\* An exception, which no training catches, or a kill; a model file or the
\* allow-list may be torn (the manifests, a few bytes, are written or not).
Fault(r) ==
    /\ faults < MaxFaults
    /\ InProgress(r)
    /\ Goto(r, "failed")
    /\ \/ UNCHANGED files
       \/ \E d \in Dir : /\ AtArtifact(r, d)
                         /\ train[r].pc \in {"bullish", "bearish", "allowlist"}
                         /\ files' = [files EXCEPT ![d][train[r].pc] = Torn]
    /\ faults' = faults + 1
    /\ UNCHANGED <<bundle, score>>

-------------------------------------------------------------------------------
(* Inference: score_features_to_rank_rows, one look or read of a file at a time. *)

PerStock == bundle.by # None

Nothing == [d \in Dir |-> NoArtifact]

\* Inference run q goes on in state next, or what it has found makes it raise.
Advance(q, ok, next) ==
    /\ score' = [score EXCEPT ![q] =
                    IF ok THEN next
                    ELSE [@ EXCEPT !.pc = "failed", !.todo = {}, !.loaded = Nothing]]
    /\ UNCHANGED <<files, bundle, train, faults>>

\* The first look at the mode: a pooled artifact is loaded for its allow-list.
BeginScoring(q) ==
    /\ score[q].pc = "idle"
    /\ Advance(q, TRUE, [score[q] EXCEPT !.pc = IF PerStock THEN "panel" ELSE "look",
                                         !.todo = IF PerStock THEN {} ELSE {Root},
                                         !.quiet = NoTraining])

\* The second look: a bundle's artifacts are loaded for the ISINs of the panel, or
\* the pooled artifact is loaded again.
ReadPanel(q, panel) ==
    /\ score[q].pc = "panel"
    /\ Advance(q, TRUE, [score[q] EXCEPT !.pc = IF PerStock THEN "bundle" ELSE "look",
                                         !.again = TRUE,
                                         !.todo = IF PerStock THEN panel ELSE {Root},
                                         !.loaded = Nothing])

\* Mutant: an artifact that is there is loaded, whether the bundle names it or not.
ReadBundleUnchecked(q) ==
    /\ score[q].pc = "bundle"
    /\ Advance(q, TRUE, [score[q] EXCEPT !.pc = "marker"])

\* The bundle must name every ISIN of the panel.
ReadBundle(q) ==
    /\ score[q].pc = "bundle"
    /\ Advance(q, score[q].todo \subseteq bundle.isins, [score[q] EXCEPT !.pc = "marker"])

\* load_artifact of the pooled artifact looks for a bundle itself.
LookForBundle(q) ==
    /\ score[q].pc = "look"
    /\ Advance(q, ~PerStock, [score[q] EXCEPT !.pc = "marker"])

FindMarker(q, d) ==
    /\ score[q].pc = "marker"
    /\ d \in score[q].todo
    /\ Advance(q, files[d].manifest # None,
               [score[q] EXCEPT !.pc = "allowlist", !.at = d])

ReadFile(q, file, label, todo) ==
    LET found == files[score[q].at][file] IN
    /\ score[q].pc = file
    /\ Advance(q, found \notin {None, Torn},
               [score[q] EXCEPT !.pc = label, !.todo = todo,
                                !.loaded[score[q].at][file] = found])

\* What comes after an artifact: the panel, the next artifact, or the scores.
AfterLoad(q) ==
    IF ~score[q].again THEN "panel"
    ELSE IF score[q].todo # {score[q].at} THEN "marker" ELSE "scored"

\* The metrics are read as well, and not used.
LoadArtifact(q) ==
    \/ ReadFile(q, "allowlist", "manifest", score[q].todo)
    \/ ReadFile(q, "manifest", "bullish", score[q].todo)
    \/ ReadFile(q, "bullish", "bearish", score[q].todo)
    \/ ReadFile(q, "bearish", AfterLoad(q), score[q].todo \ {score[q].at})

\* What a training is writing may be read half way, which no parser accepts.
ReadHalfWritten(q) ==
    /\ score[q].pc \notin {"idle", "scored", "failed"}
    /\ ~NoTraining
    /\ Advance(q, FALSE, score[q])

-------------------------------------------------------------------------------

TrainStep(r) ==
    \/ \E mode \in Modes, over \in BOOLEAN : \E isins \in SUBSET Isin \ {{}} :
         BeginTraining(r, mode, over, isins)
    \/ \E d \in Dir : CheckArtifact(r, d) \/ WriteArtifact(r, d)
    \/ CheckBundle(r) \/ WriteBundle(r) \/ WriteBundleAllowlist(r)

ScoreStep(q) ==
    \/ BeginScoring(q)
    \/ \E panel \in SUBSET Isin \ {{}} : ReadPanel(q, panel)
    \/ ReadBundle(q) \/ LookForBundle(q)
    \/ \E d \in Dir : FindMarker(q, d)
    \/ LoadArtifact(q) \/ ReadHalfWritten(q)

BundleNext ==
    \/ \E r \in Train : TrainStep(r) \/ Fault(r)
    \/ \E q \in Score : ScoreStep(q)

BundleSpec == BundleInit /\ [][BundleNext]_bundleVars

-------------------------------------------------------------------------------
(* Properties. *)

Overwriting == {r \in Train : train[r].over}

\* Every artifact behaves as a versioned partition whose file is its marker: once
\* a training has completed it, only a training with overwrite replaces it.
Store(d) == INSTANCE VersionedPartition
    WITH Run <- Train, owner <- files[d].manifest, permitted <- Overwriting

ArtifactsAreVersioned ==
    /\ \A d \in Dir : Store(d)!PartitionInit
    /\ [][\A d \in Dir : Store(d)!PartitionNext
                           \/ UNCHANGED <<files[d].manifest, Overwriting>>]_bundleVars

\* No training with overwrite has touched what q read, and no bundle has come
\* while q read the pooled artifact, whose allow-list a bundle replaces.
Undisturbed(q) ==
    \/ /\ Overwriting = {}
       /\ score[q].quiet \/ ~PerStock \/ score[q].loaded[Root] = NoArtifact
    \/ faults = 0 /\ score[q].quiet

\* ADR 09, "load frozen model_version + feature allow-list": the scores of one
\* ranking come from heads, allow-lists and manifests of one training, however
\* many artifacts were loaded, file by file, and whatever trainings were cut short,
\* refused or at work meanwhile.  The exceptions are an overwriting training that
\* died or is in progress, and the first bundle beside a pooled artifact.
RanksFromOneTraining ==
    \A q \in Score :
        (score[q].pc = "scored" /\ Undisturbed(q)) =>
            LET used == {score[q].loaded[d] : d \in {d \in Dir :
                            score[q].loaded[d] # NoArtifact}} IN
            \E r \in Train : \A a \in used :
                {a.bullish, a.bearish, a.allowlist, a.manifest} = {r}

Frozen(d) == [bullish |-> files[d].bullish, bearish |-> files[d].bearish,
              allowlist |-> files[d].allowlist]

\* What an inference run would load.
Served ==
    IF PerStock THEN [d \in bundle.isins |-> Frozen(d)]
    ELSE IF files[Root].manifest # None THEN [d \in {Root} |-> Frozen(d)] ELSE <<>>

ByOverwrite == \E r \in Overwriting : train'[r] # train[r]

\* ADR 07, "never silent overwrite", for the bundle: once inference serves one, it
\* serves the same models until a training with overwrite replaces them; trainings
\* that add ISINs, are refused half way, or freeze a pooled model do not show.
BundleIsFrozen == [][(PerStock /\ Served' # Served) => ByOverwrite]_bundleVars

\* The same whichever model is served: the pooled one or a bundle.
ServedIsFrozen == [][(Served # <<>> /\ Served' # Served) => ByOverwrite]_bundleVars

\* A training that reports success has frozen everything it trained: five files of
\* its own for every ISIN, and a bundle that names exactly those.
TrainingIsComplete ==
    [][\A r \in Train :
          (train[r].pc # "success" /\ train'[r].pc = "success") =>
              IF train[r].mode = "pooled"
              THEN files'[Root] = [file \in DOMAIN NoArtifact |-> r]
              ELSE /\ bundle' = [by |-> r, isins |-> train[r].isins]
                   /\ \A d \in train[r].isins :
                        files'[d] = [file \in DOMAIN NoArtifact |-> r]]_bundleVars
===============================================================================
