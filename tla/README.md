# Stock Engine: formal models

TLA+ models of the Stock Engine pipeline, the TLC instances that check them, and
theorems about them checked by TLAPS. Paths below are relative to the repository;
`PROJECT.json` maps every definition to the lines it stands for.

    tlc -config MCIngest.cfg MCIngest        # check an instance
    tlapm IngestProofs.tla                   # check the proofs of a module

## 1. The system

Stock Engine ranks Indian equities. It is a set of commands, each a process of its
own, that an operator or a scheduler starts once per trading date. They share one
directory, `data/`, and nothing else: no database, no lock, no atomic rename. What a
command finds on disk is what an earlier command, possibly one that failed or was
killed, or one that is still running, has left there.

    data/incoming --ingest--> data/raw, data/clean/l0, data/clean/l1, data/metadata
    data/clean/l1 --features--> data/features      data/clean/l1 --labels--> data/labels
    features + labels --train--> data/models
    features + models --infer--> data/ranks
    features + labels + data/clean/l1 --backtest--> reports

### Inventory

| component (`src/stock_engine/`) | state | operations | hard behaviour | what makes it correct |
|---|---|---|---|---|
| Ingest: `ingest/pipeline.py`, `raw_store.py`, `clean_store.py`, `manifests.py`, `publish_meta.py`, `lineage.py`, `local_csv.py` | raw objects and sidecars, L0 and L1 files, a manifest per dataset, run metadata, published metadata, pipeline state | check that the equity file exists, read it, archive each artifact, normalise, gate, write L0, gate and write L1, write metadata | a file replaced while the run reads it; one dataset of four failing; a kill between any two of a dozen writes or inside one; re-ingest over the files of the last good run; two runs at once | nothing reaches L1 that did not pass; lineage leads to the right bytes; raw is immutable; metadata describes what is on disk |
| Gates and normalisation: `ingest/validate.py`, `normalize.py`, `calendar_checks.py` | none | normalise a file, check a frame, look for missing sessions | gates that can never fire; boundary counts; what a gate lets through and a later stage cannot use | what passes is fit for features, windows and ranks |
| Corporate actions: `ingest/adjust.py` | none | price factors of ex dates, adjusted closes | an action on the first or last day of a window; actions announced later; two functions that resolve a factor | relative prices do not depend on when one looks; no action is lost |
| L1 readers: `features/inputs.py` | none | pick the last file, load equity, load calendar, fall back to L0 | ingest rewriting both between the two loads | what is loaded was checked, and fits together |
| Feature registry and DAG: `features/registry.py`, `dag.py`, `compute/` | `ctx.features` | load the registry, check for cycles, close the request, order it, compute | cycles, unknown names, a feature that fails, reads that are not declared | dependencies first; nothing missing, nothing extra; failures are not lost |
| Feature, label and inference publish: `features/pipeline.py`, `labels/pipeline.py`, `inference/pipeline.py` and their stores | one Parquet file, one manifest, for ranks one signals file | load, compute, validate, look for an existing file, write, describe | look-then-write; a kill between the two writes; inputs republished meanwhile | labels and ranks are never silently replaced; a manifest describes its file |
| Label computation: `labels/compute.py`, `quantiles.py` | none | forward returns, cuts, classes, validation | ties, two names, windows that are not over, relabelling on every date | a published label never changes; what is refused is a tie |
| Walk-forward training: `models/purge.py`, `walkforward.py`, `per_stock.py` | folds, reports, final fit | build folds, tune, evaluate each fold, fit | off-by-one in purge and embargo; sessions missing from the matrix; loop that skips | no metric sees a price its training labels saw |
| Model artifacts: `models/artifact.py`, `per_stock_train.py`, loader in `scorer.py` | five files per artifact, a bundle manifest | freeze pooled or per ISIN, refuse, overwrite, load | a training that dies between two files; two kinds of model in one directory; loading while training | a ranking comes from one training; what is frozen stays frozen |
| Backtest: `backtest/engine.py`, `prices.py` | blotter, periods | decide, pick sides, fill, close | a leg with no price; one-name universes; overlapping books | out of sample; every return is that of a full book |
| Scoring: `models/scorer.py`, `score_row.py`, `ranking.py`, `risk_confidence.py`, `metrics.py` | none | risk, confidence, scores, ranks, symbols | one-row frames, ties, shared symbols, a symbol map that is read twice | a rank row is of the name that was scored; more bullish is better |
| Train matrix: `models/join.py`, `io.py` | none | join features and labels on name and session | features and labels of one date are computed from prices adjusted since | what is trained on is what was served |
| Costs and metrics: `backtest/costs.py`, `metrics.py` | none | real arithmetic | none of control | |
| Configuration, contracts, logging, command lines, scripts | none | parsing, file removal | none | |

The commands interact through files only. The points where one can hurt another are
listed in `PROJECT.json` under "hazards", each at its line.

## 2. Modules

Order of writing, which is also the order of importance. `A <- B` means B extends A.

| module | models | composes |
|---|---|---|
| `Ingest` | one as_of date of the ingest stage | |
| `L1Readers` | the feature and label publishers loading L1 | `Ingest <- L1Readers` |
| `PurgedFolds` | `build_expanding_folds` | |
| `WalkForward` | training of one model | `PurgedFolds <- WalkForward` |
| `Backtest` | the paper book | `PurgedFolds <- Backtest` |
| `VersionedPartition` | abstract: what a store with `--overwrite` promises | |
| `Publish` | features, labels and inference publishers | instantiates `VersionedPartition` twice |
| `ModelBundle` | `data/models/<name>/<version>` | instantiates `VersionedPartition` per directory |
| `FeatureDag` | a feature run up to its frame | |
| `Labels` | a label run, once per date | |
| `TrainMatrix` | features published on every date, and the matrix joined of both | `Labels <- TrainMatrix` |
| `DataQuality` | normalisation, gates, gap check and factors, as operators over files | |
| `FeatureFrame` | the feature frame as a function of L1 | `DataQuality <- FeatureFrame` |
| `Ranking` | risk, confidence, scores, ranks, symbols, the rank frame and its validation | `FeatureFrame <- Ranking` |
| `DataToRanks` | ingest, features and inference in a row for one date | `Ranking <- DataToRanks` |
| `MC*` | constants for TLC | the module they are named after (`MCIngest`: `L1Readers` over `Ingest`) |
| `*Proofs` | theorems | the module they are named after, with what it extends: `IngestProofs` is about `L1Readers` and `Ingest`, `LabelsProofs` about `TrainMatrix` and `Labels`, `WalkForwardProofs` about the folds of `PurgedFolds` as well; `BacktestProofs` takes the lemmas about folds from there |

In every module an operator whose comment begins with "Mutant" is a wrong variant of
the definition it stands before, with the bug a slip in the code would be. No
specification uses it; replacing the definition by it must break a property, and
`PROJECT.json` says which. It is how each property is shown to depend on the code.

### How the modules correspond to the code

**Ingest.** A run is one call of `run_ingest`; `proc[r]` holds its local variables:
the frames kept for L1, their digests, the list of datasets still to do, the flags
`good` (no L0 error so far) and `pub`. One action is one file operation: `Start`
(which lists and reads `data/incoming/`), `WriteRunMetadata`, then for each dataset in sorted order
`HashArtifact`, for a new raw object `BeginCopy` and `EndCopy`, between which anyone may see a
part of it, then `WriteSidecar`, `WriteL0`, `RecordManifest`; then `GateL1`, the three
`WriteL1`, `WriteL1Manifest`, `WritePublishedMeta`, `WritePipelineState`. `SkipDataset` is how the loop goes on after
an exception it catches, which `DatasetRaises` throws at any step; `Die` is one that nothing
catches, or a kill. Both may leave the file being written `Torn`. `Drop` is the operator
replacing a file. Contents are model values; the SHA-256 of a content is the content
(no collisions). The outcome of the gates is a set of contents that pass (`DqOk`) and
a set of equity/calendar pairs with a gap (`HardGap`).

**L1Readers.** Adds readers whose two loads are two steps, with `LatestParquet` (the
last file name) and the fallback to the L0 calendar as in `inputs.py`, which looks for the
folder: one that is there without a file, because a writer has just made it or died, raises
(`FindEmptyFolder`).

**PurgedFolds, WalkForward, Backtest.** Sessions are positions in the calendar; a
matrix is an ordered sequence of them in which some are missing, so "n sessions
later" differs between calendar (labels) and matrix (gap), which is where an
off-by-one would hide. One iteration of the fold loop is one action. `WalkForward`
keeps of a fit the sessions it saw. `Backtest` keeps of scores the two orders they
induce, any two, and of prices which are missing; a panel that cannot be loaded is a failed
run. The skips of a fold without training or test rows (`walkforward.py:74`,
`per_stock.py:124`, `engine.py:198`) are left out: folds are cut from the sessions of the
matrix they select from, so there is none.

**Publish.** A run loads, computes, looks whether the file is there, writes it,
writes the manifest and, for ranks, the signals; each a step. L1 rebuilds happen at any time. A file is
known by its writer and the rebuild its rows come from.

**ModelBundle.** The five files of an artifact are written one by one; only the
fourth, `train_manifest.json`, is looked for before writing. Per-stock trainings
freeze an artifact per ISIN in sorted order and then a bundle manifest. Inference
asks for the mode twice, as `scorer.py` does, and each load of the pooled artifact asks once
more (`LookForBundle`); after the bundle's list of ISINs (`ReadBundle`) an artifact is read
file by file: the marker, the allow-list, the manifest, the two heads (`FindMarker`,
`LoadArtifact`). A training may take any step between two of these, and a file it is
writing may be met half written (`ReadHalfWritten`).

**FeatureDag.** Kahn's algorithm step by step over the registry and again over the
closed request, then the computation of each feature with the frames its computer
reads. What a feature declares (`deps`) and what its computer reads (`Reads`) are
separate, as in the code.

**Labels.** Exact arithmetic: a holding is worth `value`, a corporate action
multiplies the raw price by `Factor` from its ex date on; adjustment, returns,
rounding policies of the cut, the order of tie-breaking and the validator follow the
code. Returns are compared as fractions by cross multiplication.

**TrainMatrix.** Adds to `Labels` a feature run per date, with a price (a feature on the
scale of the adjusted close) and a return over `Period` rows, and the matrix of a date,
which is the join of that date's features and labels with all earlier sessions in it.

**DataQuality, FeatureFrame, Ranking, DataToRanks.** The other half of the same
commands: not when a file is written, but what is in it. A file is a set of rows;
cells are values, empty (`Null`) or unreadable (`Bad`); a symbol is a model value with
more than one spelling. `DataQuality` has one operator per function of `normalize.py`,
`validate.py` and `calendar_checks.py` and the two factor functions; a report is the
set of its failure codes. `FeatureFrame` keeps of a feature what its window needs: the
session a return is counted from, whether a mean or deviation has its rows. `Ranking`
computes risk as percentile ranks, confidence and scores in whole units. `DataToRanks`
makes ingest and features one step each and inference two, between its two reads of the
symbols; `Correct` is the operator replacing the equity file for the same date and naming the
dataset version to ingest it under. L1 has a partition for each version: features read the
last one (`Latest`), the symbol map the one called "v1", or any when there is no such file
(`SymbolFiles`), so the two need not agree.

## 3. Runs

`Overlap = FALSE` in every instance: two runs of one command are not in progress at
once, which is how the daily path runs them. Different commands do overlap. With
`Overlap = TRUE` the stores have no protection (section 6).

| run | instance | what it shows | states |
|---|---|---|---|
| `ingest` | two runs, each of either of two versions, two contents of which one symbol map fails and one pair has a gap, one replaced file, one fault, one reader | L1 is fail-closed; lineage, raw immutability, metadata, success and outcome are right whatever fails where; a reader at any moment gets checked contents, and a calm load is one snapshot | 1.6 million |
| `ingest_lineage` | the same with one version, no reader and no fault | **violated**: the equity rows may not be those of the archived file | |
| `data_to_ranks` | two names, three dates, two symbols of which one has two spellings, gap gate over two sessions, returns over one row, windows of one and two rows, three dataset versions of which the first is "v1", one correction under any of them; every file of good rows against every calendar, every blemish of every row, every odd calendar, every action file, every pair of heads | what a gate lets through is what the next stage relies on: returns span their sessions, features fail only for the listed reasons, no action is lost, daily ranks by the symbols of the features' own L1 have every name and the right ISIN, and more bullish ranks better at equal risk | 511 thousand |
| `walk_forward` | every matrix over 11 sessions, H = 2, E = 1, fold 2, minimum 2 | reports are out of sample, every session that can be tested is tested exactly once, the loop ends with every fold reported | 19 thousand |
| `backtest` | H = E = 2, three names, 14 sessions, one session missing from the matrix, one opening price missing, one name ineligible | books are out of sample, do not overlap in a fold, are full; no decision is lost | 579 thousand |
| `backtest_overlap` | two names | **violated**: books of neighbouring folds overlap | |
| `publish` | one feature, two label, two inference runs, two L1 rebuilds, one fault | labels and ranks implement `VersionedPartition`; success and manifests mean what they say | 178 thousand |
| `feature_dag` | every registry of three features, with an unknown name, and all those of four with one sink; two sets of computers | order, cycle detection, least closure, error propagation, complete frames, the run ends | 89 thousand |
| `model_bundle` | two ISINs and the root, two trainings of either kind, one inference, one fault | artifacts implement `VersionedPartition`; a ranking is from one training; bundles stay frozen; success is complete | 200 thousand |
| `model_modes` | the same without faults | **violated**: a bundle takes the place of a pooled artifact without `--overwrite` | |
| `labels` | three names, three sessions, H = 1, returns over one row, two values, one missing row, one corporate action, three cut policies | labels are stable, complete, follow holdings; a refusal is a tie and is for good; the returns and names a matrix shows of a session are those inference saw on it, and no label was known then | 625 thousand |
| `point_in_time` | the same | **violated**: the prices a matrix shows of a session are not those inference saw | |

Deadlock is not checked: commands end, and a finished instance stops.

**Why the bounds are enough.** Two runs are enough for every pairwise interference
and for "the last good run's files are still there"; one fault reaches every single
crash point, with everything before it as left by an earlier complete run. Two contents
per dataset give equal and different re-ingests, pass and fail, gap and no gap. For folds,
the calendar is long enough for three folds with `H + E = 3`, and *every* subset of
it is tried as a matrix; in the backtest two folds are enough because books of
further folds repeat the relation of the first two. Three features give every shape
of cycle up to length three, chains, diamonds with four. Three names are the
smallest universe in which rounded-up halves overlap and in which the best two or
the worst two can tie without all tying. In `data_to_ranks` two names are the fewest that can
share a symbol, hand it over or be ranked, and three dates the fewest with a session before
the gate's lookback, which is where a gap passes; of three versions a correction can go
before, to or after the first one ingested, with and without a file of "v1". Every input is taken through its whole
variety while the others are plain; two blemishes at once add nothing, because every gate
looks at one row or one pair of rows and a report fails when one gate does. The bounds are
named constants (`MaxDrops`, `MaxFaults`, `MaxRebuilds`, `LastSession`, `MaxMissing`,
`MaxSplits`, `MaxCorrections`) used in guards only. Runs that differ only in name are a symmetry set;
no run with a liveness property uses symmetry.

**Fairness.** `TrainingEnds` and `RunEnds` assume weak fairness of the whole
next-state relation of `WalkForward` and `FeatureDag`: each is one sequential process
with no lock, no wait and no input, so it continues as long as it can take a step
and nobody kills it. The other modules promise nothing about progress and have no
fairness: a command may die at any time and nothing restarts it.

## 4. What is proved

Every safety invariant, action property and refinement that a passing run checks is a
theorem, for every value of the constants that satisfies the named assumptions of the
modules (TLC evaluates those on every run) and the hypotheses given here. Theorems are in the
`*Proofs` modules; each has a complete proof. An invariant is seldom inductive as it
stands; the third column names the strengthening and why it is needed.

| theorem | statement | argument |
|---|---|---|
| **`IngestProofs`** | | any number of runs, readers, versions, contents, drops and faults |
| `TypeCorrect` | `[]TypeOK` | with `LocalsOK`, needed because an action moves digests and frames from local variables to files |
| `FailClosed` | `[]L1FailClosed` | `IInv`: datasets to do are present (`TodoListed`); between hash and manifest there is a digest (`DigestKnown`); what is handed over and kept passed its report (`RowsPassed`, `FramesPassed`); who writes L1 passed the gate (`GatePassed`); and a writer of L1 is past its loop, so its frames no longer change (`WriterPastLoop`) |
| `OutcomeDecided` | `[]InputsDecideOutcome`, for `~Overlap` | `OutcomeIInv`: at every place in its loop a run has met exactly the good and the bad datasets that the files, which stay as they are, make it meet (`RunOutcome`), and every raw copy is whole, but for the one that the only run is making; a second run could meet it half made |
| `RawNeverOverwritten`, `Rebuildable`, `MetadataIsRight`, `SuccessIsPublished` | `RawImmutable`, `[]RebuildableFromRaw`, `[]MetadataDescribesFiles`, `SuccessMeansPublished`, for `~Overlap` | one invariant, `FilesIInv`: the other runs are not in progress (`OneAtATime`), so what the one that is has looked at (`CopyTargetFree`) or written (`Output`) is still so; every L0 file, whoever wrote it, has its raw bytes, sidecar and metadata (`Lineage`), and between two runs every manifest is that of its file (`L0Described`, `L1Together`) |
| `ReadersOnlyRead` | `ReadersSpec => Spec` | a load changes no file; all of the above holds with readers beside ingest, which is what the run checks |
| `ReadersTypeCorrect` | `ReadersSpec => []ReadersTypeOK` | a readable folder has a latest file (`ReadersAssumption`) and it is a whole one (`LatestReadable`) |
| `OnlyPassedIsLoaded` | `ReadersSpec => []LoadedPassedDQ` | `ReadersIInv`: `IInv`, every whole file on disk holds contents that passed their reports (`L0Passed`, `L1Passed`), and so does what a reader holds between its two loads (`EquityLoaded`) |
| `CalmLoadsAreSnapshots` | `ReadersSpec => []CalmLoadIsSnapshot`, for `~Overlap` | `CalmIInv`: `FilesIInv`, every L1 file is a frame of its writer (`L1FromFrames`), and what a reader holds is still the latest file as long as no run began (`CalmEquity`) |
| **`WalkForwardProofs`** | | any matrix, horizon, embargo, fold, step, minimum |
| `TypeCorrect` | `[]WalkForwardTypeOK` | from `WalkForwardInv` |
| `FoldsPurged`, `TestedOnce` | `[]PurgedAndEmbargoed`, `[]TestedExactlyOnce` | `FoldsInv`: places in the matrix are no further apart than sessions of the calendar, every fold leaves the gap, the next test start lies beyond every earlier fold and what it has passed is covered (`Covered`) |
| `MetricsOutOfSample` | `[]OutOfSample` | `WalkForwardInv`: a report is about the sessions of a fold |
| **`BacktestProofs`** | | also any universe, prices missing, order of scores |
| `BooksTypeCorrect`, `BooksOutOfSample`, `BooksOfAFoldApart` | `[]BacktestTypeOK`, `[]NoInSampleBooks`, `[]BooksOfAFoldDoNotOverlap` | `BacktestInv`: `FoldsInv`, and decisions and periods are decision sessions of their fold; every H-th session of a matrix is at least H sessions after the last |
| `ReturnsOfFullBooks` | `[]ReturnsAreOfFullBooks` | `BooksInv`: the blotter of the book in progress is its legs done so far, which are filled (`BookInProgress`), and no trade or period is of a decision still to come (`ResultsArePast`), so a period starts from an empty blotter |
| `EveryDecisionKept` | `[]NoDecisionLost` | `AllKept`: every decision of the folds reached is to come, in progress or a period; the sides of two names or more are not empty |
| **`PublishProofs`** | | any number of runs, rebuilds and faults |
| `TypeCorrect` | `[]PublishTypeOK` | inductive as it stands |
| `PublishedRefine` | `PublishedAreVersioned`, both stores, for `Overlap = FALSE` | `VersionInv`: what the check saw still holds when the file is written (`CheckStillHolds`), because there is one run of a command at a time (`OneAtATime`) |
| `ManifestsDescribe`, `SuccessComplete` | `[]ManifestDescribesData`, `SuccessIsComplete`, for `Overlap = FALSE` | `DescriptionInv`: between file and manifest the file is still the run's own (`FileStands`); without faults a partition nobody is describing is described (`Described`) |
| **`ModelBundleProofs`** | | any ISINs, trainings and inference runs |
| `TypeCorrect` | `[]BundleTypeOK` | each step of a training moves one training and one file |
| `ArtifactsRefine` | `ArtifactsAreVersioned`, for `Overlap = FALSE` | `MarkerInv`: the marker, looked for four writes before it is written, is still as seen (`CheckHolds`), because there is one training at a time and it is at one artifact at a time |
| `TrainingComplete`, `ServedBundleFrozen` | `TrainingIsComplete`, `BundleIsFrozen`, for `Overlap = FALSE` | `FreezeInv`: what a training in progress has written of its list is its own, what it has still to do it has not touched, and every artifact that a bundle names has the marker (`BundleMarked`), at which a training without overwrite stops |
| `RankedFromOneTraining` | `[]RanksFromOneTraining`, for `Overlap = FALSE` | `ServeInv`: what a directory holds when nobody replaces it is of the training its bundle names (`BundleWhole`, `RootWhole`), and so are the files an inference run has read of it so far, however far it is (`FromBundle`, `FromRoot`). Excepted, and said in `Undisturbed`: a training with overwrite that died or is in progress, and the first bundle beside a pooled artifact that is being loaded (section 6) |
| **`FeatureDagProofs`** | | any features, registry, request, computers |
| `TypeCorrect`, `DependenciesFirst` | `[]FeatureTypeOK`, `[]OrderRespectsDependencies`, also on cyclic registries | `OrderInv`: `indeg` counts exactly the dependencies not in order yet, at every moment between two lowerings (`Counts`), and what is queued is ready (`QueueReady`) |
| `LeastClosure` | `[]ClosureIsLeast` | `ClosureInv`: the features found so far and those on the stack contain what they depend on and lie in every closed set |
| `CyclesFound` | `[]CyclesAreRefused` | `CycleInv`: no set of features in order depends on itself (`NoKnotInOrder`), and what is ready is queued (`ReadyIsQueued`), so what is left of an empty queue depends on itself (`Settled`) |
| `ErrorsExplained`, `FramesComplete` | `[]ErrorsAreExplained`, `[]ComputedIsComplete` | `LoopInv`: what was attempted is a prefix of the order, what a computer read was attempted before it, and an error raised or read one |
| **`LabelsProofs`** | | any names, horizon, history, factor, cut policy |
| `WindowsKnown`, `StableLabels`, `RefusedForGood`, `HoldingsDecide`, `RefusedOnTies` | `[]WindowsAreKnownAndComplete`, `[]LabelsAreStable`, `[]RefusalIsForGood`, `[]ClassesFollowHoldings`, `[]RefusedOnlyOnTies` | an adjusted close is the holding times a scale of its name that is the same on all sessions (`CloseIsScaled`), so returns compare as holdings do; `LabelsInv`: a run labels whole sessions by their holdings (`WholeSessions`), and every published frame is the one its date's holdings deserve or is refused when that is invalid (`PublishedRight`). Without a tie the cuts are filled exactly because ranks count up from one without a gap |
| `FeaturesOnlyRead`, `TrainedOnServed` | `TrainSpec => LabelsSpec`; `TrainSpec => []TrainedAsServed` | `FeaturesInv`: the return of every published feature frame is that of the holding, so it is equal in the frames of all dates |
| **`DataToRanksProofs`** | | any files of typed cells, corrections, dataset versions, names, symbols, spellings, calendars, windows |
| `NoActionDropped` | `[]ActionsAreApplied` | `ChainInv`: L1, in every version, is of files that passed every gate, features are of such an L1 and ranks of such features (`Passed`, `Computed`, `Scored`). For factors that passed, both functions resolve the same |
| `GatesSpare` | `[]GatesSpareFeatures` | the gates leave no bad close, no missing key and no duplicate, so the only refusals are the ones listed |
| `ReturnsSpan` | `[]ReturnsSpanTheirSessions` | of the open sessions that a name missed within its return the last has at most `Period` behind it, so it is among the last `Lookback`, and the gap gate refused the file (`NothingMissed`) |
| `IsinKept`, `NamesRanked` | `[]DailyRanksKeepTheirIsin`, `[]EveryNameIsRanked`, for `Lookback > 0` | a name without a row on the date is a gap, so both names of a shared symbol are in the panel, are turned back into the same ISIN, and the frame is refused. Both are about ranks for which the symbols were read, both times, from the partition that the features are of (`CalmDailyRanks`); for others the code promises nothing (section 6). Without a lookback the gap gate looks at nothing |
| `BullishRanked` | `[]MoreBullishRanksBetter` | two names with the same risk have the same factor taken off both scores (`ProbabilityDecides`), positive unless the weight of risk is so large that scores lose their sign, which the property excepts; `p` times the confidence grows with `p` on either side of the other probability, although the confidence falls on one (`ProductGrows`); the better score has fewer rows before it (`HigherRanksBefore`) |

The assumption `Overlap = FALSE` is the operator's discipline, not something the code
enforces; the theorems that name it do not hold without it.

**How counting was proved.** What a cardinality or a recursive function is for *every*
input cannot be proved with the induction theorems of the library, which take
an operator as parameter. The proofs use the least counterexample in its place: a set
of naturals has a smallest element (`SmallestNat`, from the well-foundedness of `<`), so
a claim that is wrong somewhere is wrong at a first place. Two definitions are
written with that in mind: the power of a factor (`Labels`) is a recursive function, and
the sum of risk parts (`Ranking`) is the number of units in them.

**Only model-checked.** The liveness properties `TrainingEnds` and `RunEnds`: fairness and
`ENABLED` are out of the prover's reach. Everything else the passing runs check is above.

## 5. Findings with a run

1. `ingest_lineage`: `ingest/pipeline.py:123` parses the equity CSV from
   `data/incoming/` before `archive_raw` hashes and copies it. A file replaced in
   between is archived under a digest that the published rows carry but do not come
   from; docs/decisions/03-phase2.md:105 says the clean layer is rebuildable from raw. The
   other datasets are parsed from the raw copy, and for them the property holds
   (`RebuildableFromRaw`).
2. `backtest_overlap`: `backtest/engine.py:204` samples every H-th session of each
   fold from its start, so the last book of a fold may be held past the first entry of the
   next; `backtest/metrics.py:25` calls the period returns non-overlapping.
3. `model_modes`: `models/artifact.py:77` looks for the bundle manifest only, so a
   per-stock training takes the place of a pooled artifact in the same directory
   without `--overwrite`; docs/decisions/07-modeling.md:30 says never silent overwrite.
4. `point_in_time`: `ingest/adjust.py:67` adjusts every earlier close for each action
   known by the as_of date, and a training reads the features of all earlier sessions from the
   frame of its own date. After a split the price features of session T that a model is
   trained on are on another scale than those inference scored on T;
   docs/features/registry/raw__close_adj__l1.yaml:7 calls the feature a point-in-time
   projection. Returns do not depend on the scale, and for them the property holds
   (`TrainedAsServed`).

## 6. Known divergences without a run

Read in the code while modelling. The models follow the code.

- `ingest/raw_store.py:79` rewrites the sidecar on every re-ingest of the same bytes;
  03-phase2.md:114 calls it immutable.
- `ingest/raw_store.py:59` looks, then copies: two overlapping runs may both copy
  (03-phase2.md:103), or one meets the half-copied object of the other and gives the dataset
  up, with `FileExistsError` at `:61`. Where an object has another checksum,
  it raises the same; the docstring at :45 promises a new versioned file name.
- `features/inputs.py:31` loads L1 without looking whether it was published (docstring :26),
  and `:21` takes the last file name (04-phase3.md:32: latest successful).
- `models/purge.py:57` leaves out one more session than the docstring at :35 does, which is the safe side.
- `labels/store.py:39`, `inference/store.py:39` look, then write: with two runs of one
  command in progress, the second replaces the file of the first
  (06-label-generation.md:19).
- `backtest/engine.py:234`: legs filled before a missing price stay in the blotter of a
  book that does not count (08-backtesting.md:21); `:97`: the sides may be unequal (:22).
- `labels/compute.py:153` says that bullish wins a tie; the validator at :226 refuses the
  whole run for it, and so every later one (`RefusalIsForGood`).
- `models/per_stock.py:48` tunes on sessions whose label windows reach into the holdout
  it scores on; 07-modeling.md:26 asks for purge and embargo. The folds themselves are
  purged, and that is proved.
- `ingest/validate.py:216`: the row-count gate compares with a prior count that the
  pipeline never passes. `features/publish.py:69`: value checks are for lifecycle
  production, and every registry entry is experimental. The gate for a missing ISIN
  (`validate.py:77`) works only with pandas 3, where a missing text stays missing;
  with pandas 2 it is the string "NAN" by then. With pandas 3, which uv.lock has, a calendar column
  of words raises although `normalize.py:69` maps "yes" and "no".
- `ingest/calendar_checks.py:69`: a name that stops trading is a gap for ever. One
  delisted or renamed ISIN in the history blocks L1 until its rows are taken out.
- `features/compute/common.py:76` counts rows of a name, not sessions. The gate looks
  back on N sessions and a return over k rows needs k + 1, so a gap passes for k >= N, and 5d returns meet
  the default of N = 5 (05-feature-registry.md:150 and mom__ret__5d.yaml:7 speak of
  sessions). For k < N the two agree (`ReturnsSpanTheirSessions`).
- `features/compute/raw_close_adj.py:14`, `:18`: features require positive volume and traded value,
  which `validate.py` accepts missing or zero: L1 is then published and no feature run on it
  succeeds (`GatesSpareFeatures` lists the cases).
- `models/score_row.py:24` ranks risk within a frame of one row, where it is constant;
  `backtest/engine.py:70` ranks it across the session, so a backtest scores otherwise than
  inference (`risk_confidence.py:13`: cross-sectional ranks; 01-phase1.md:44).
- `models/risk_confidence.py:49`: confidence uses the size of the margin, so a name that is
  more bearish than bullish gains `score_long` when it becomes more bearish still.
  `ranking.py:21` accepts a weight that makes the last factor negative, which
  turns the order of the ranks around.
- `inference/pipeline.py:128` turns symbols back into ISINs by an inverted map, which keeps
  one ISIN of those that share a symbol. For an earlier or a closed session the ranks of one
  name may be published under the ISIN of another (03-phase2.md:13: ISIN is canonical). If L1 is
  rebuilt between the two loads of the map, the ISIN of a row may be the text of its
  symbol (`:48`). Daily ranks are safe only by the symbols of the L1 partition their features
  are of (`DailyRanksKeepTheirIsin`); the next entry has the others.
- `models/io.py:81-95` takes the symbols from `equity_eod__v1.parquet`, or else from the first
  file that an unsorted glob lists; `features/inputs.py:21` takes the last file name for the
  features. With two dataset versions of a date (`--dataset-version`; the default is one per date)
  these are different files. If name 1 had a symbol in the older one that name 2 has now, and the
  newer one is without name 2, a daily run with nothing else going on publishes the rank of
  name 1 under the ISIN of name 2, and the validation passes.
- `models/artifact.py:85-92` writes the bundle manifest and a `feature_allowlist.json` at the
  root, over that of a pooled artifact, without `--overwrite`. An inference run that has
  found no bundle (`scorer.py:64`, `artifact.py:120`) and then reads the allow-list (`:129`)
  scores the pooled heads with the allow-list of the per-stock training
  (09-inference-serving.md:27 loads "frozen model_version + feature allow-list").
  `RanksFromOneTraining` excepts this case, and no other without an overwrite.
- `models/io.py:101` takes a name's symbol from its first row, so a renamed name keeps its
  old symbol; `symbol_isin_map` is ingested and read by nothing.
- `backtest/engine.py:197`: a name is eligible on a decision session if its label is
  known, which needs a price Horizon sessions later (01-phase1.md:145: as-of the decision date only).

## 7. Not modelled, and why

- Exponential averages, cross-sections, metrics, costs: real-valued, no control state. Labels
  and scores use exact arithmetic; rounding of equal returns to unequal floats, or the
  reverse, is left out.
- The symbol-map frame (`normalize_symbol_isin_map`, `validate_symbol_isin_map`): nothing
  downstream reads it. Missing columns, which fail or raise before any row is looked at.
- Soft gaps and outlier warnings: they change no state.
- Unversioned feature names in dependencies, and the universe filter before features.
- `require_lookback_sessions` and `sessions_on_or_before`: no command calls them.
- Torn manifests: the JSON documents are small and taken as written or not.
- Reports, logging, configuration parsing, clean-up and upload scripts.

## 8. Plan: what is left

1. `Lineage`: features, labels, training and inference over several dates as one
   composition that follows which rebuild each file comes from; features are always
   overwritten (`features/store.py:76`), so what is trained on may differ from what its manifest says.
2. `DataToRanks` over several dates, with files that grow by a session a day, and with the
   steps of `Ingest` in the place of `RunIngest`: that the abstract gates of `Ingest` (`DqOk`,
   `HardGap`) are those of `DataQuality`, as a refinement.
3. Proofs about those.
