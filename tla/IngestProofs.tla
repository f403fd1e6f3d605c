----------------------------- MODULE IngestProofs -----------------------------
(***************************************************************************)
(* Proofs about Ingest and L1Readers for any number of runs, readers,      *)
(* versions and contents, and any number of drops and faults.  The first   *)
(* part assumes nothing about how runs overlap; so do the theorems on the  *)
(* readers.  Those about the raw store, the metadata and the outcome of a  *)
(* run assume that one run follows another.                                *)
(***************************************************************************)
EXTENDS L1Readers, TLAPS

-------------------------------------------------------------------------------
(* Facts about the local variables of one run. *)

\* Giving one run new local variables of the right type keeps proc well typed.
LEMMA BecomesType ==
    ASSUME proc \in [Run -> Local], NEW r \in Run, NEW l \in Local, Becomes(r, l)
    PROVE  /\ proc' \in [Run -> Local]
           /\ proc'[r] = l
           /\ \A q \in Run \ {r} : proc'[q] = proc[q]
BY DEF Becomes

\* The updates the actions make, one field of Local after the other.
LEMMA LocalUpdates ==
    ASSUME NEW l \in Local
    PROVE  /\ \A p \in Phase : [l EXCEPT !.pc = p] \in Local
           /\ \A p \in Phase, c \in Content : [l EXCEPT !.pc = p, !.digest = c] \in Local
           /\ \A p \in Phase, b \in BOOLEAN : [l EXCEPT !.pc = p, !.good = b] \in Local
           /\ \A p \in Phase, b \in BOOLEAN : [l EXCEPT !.pc = p, !.pub = b] \in Local
           /\ \A p \in Phase, b \in BOOLEAN, c \in Content \cup {None} :
                [l EXCEPT !.pc = p, !.ok = b, !.rows = c] \in Local
           /\ \A p \in Phase, s \in SUBSET Dataset, b \in BOOLEAN :
                [l EXCEPT !.pc = p, !.good = b, !.todo = s] \in Local
BY DEF Local

\* Every phase the actions name is one.
LEMMA Phases ==
    /\ {"idle", "meta", "loop", "copy", "copying", "sidecar", "clean", "record",
        "state", "done", "dead"} \subseteq Phase
    /\ L1Phase \subseteq Phase
    /\ {"l1_equity", "l1_actions", "l1_calendar", "l1_manifest", "l1_meta"} = L1Phase
BY DEF Phase, L1Phase

LEMMA Datasets ==
    /\ "equity_eod" \in Dataset /\ "trading_calendar" \in Dataset
    /\ "corporate_actions" \in Dataset
    /\ RequiredForL1 \subseteq Dataset /\ Dataset \subseteq ManifestName
    /\ "equity_eod_l1" \in ManifestName
    /\ "equity_eod" \in RequiredForL1 /\ "corporate_actions" \in RequiredForL1
    /\ "trading_calendar" \in RequiredForL1
BY DEF Dataset, RequiredForL1, ManifestName

\* The steps of archive_raw after the look.
Copying(r, d) == BeginCopy(r, d) \/ EndCopy(r, d) \/ WriteSidecar(r, d)

-------------------------------------------------------------------------------
(* The inductive strengthening. *)

\* The datasets still to do were listed, so their files are there.
TodoListed == \A r \in Run : proc[r].todo \subseteq Present

\* Between the hash and the manifest there is a digest.
DigestKnown ==
    \A r \in Run :
        proc[r].pc \in {"copy", "copying", "sidecar", "clean", "record"} => proc[r].digest \in Content

\* What WriteL0 hands over passed the report of the dataset being done.
RowsPassed ==
    \A r \in Run, d \in Dataset :
        (proc[r].pc = "record" /\ AtDataset(r, d) /\ proc[r].rows # None)
            => proc[r].rows \in DqOk[d]

\* Every frame kept for L1 passed its report, and has a digest.
FramesPassed ==
    \A r \in Run, d \in Dataset :
        proc[r].frame[d] # None =>
            proc[r].frame[d] \in DqOk[d] /\ proc[r].sha[d] \in Content

\* A run that writes L1 went through the gate.
GatePassed ==
    \A r \in Run :
        proc[r].pc \in L1Phase => HasL1Frames(r) /\ ~SessionGap(r)

LocalsOK == TodoListed /\ DigestKnown /\ RowsPassed /\ FramesPassed /\ GatePassed

\* The run that wrote an L1 equity file is past its L0 loop, so that its frames
\* no longer change.
WriterPastLoop ==
    \A v \in Version : LET f == l1["equity_eod"][v] IN
        Written(f) => proc[f.by].pc \in L1Phase \cup {"state", "done", "dead"}

IInv == TypeOK /\ LocalsOK /\ WriterPastLoop /\ L1FailClosed

-------------------------------------------------------------------------------
(* Type correctness. *)

LEMMA InitType == Init => TypeOK
<1> SUFFICES ASSUME Init PROVE TypeOK
  OBVIOUS
<1>1. incoming \in [Dataset -> Content \cup {None}]
  BY DEF Init
<1>2. /\ raw \in [Dataset -> [Content -> Content \cup {None, Torn}]]
      /\ sidecar \in [Dataset -> [Content -> Run \cup {None}]]
      /\ l0 \in [Dataset -> [Version -> CleanFile \cup {None, Torn}]]
      /\ l1 \in [RequiredForL1 -> [Version -> CleanFile \cup {None, Torn}]]
      /\ manifest \in [ManifestName -> [Version -> Manifest \cup {None}]]
      /\ meta \in [Version -> Run \cup {None}]
  BY DEF Init
<1>3. runMeta \in SUBSET Run /\ pstate \in [Run -> {"none", "success", "failed"}]
  BY DEF Init
<1>4. drops \in 0..MaxDrops /\ faults \in 0..MaxFaults
  BY IngestAssumption DEF Init
<1>5. proc \in [Run -> Local]
  <2>1. (CHOOSE v \in Version : TRUE) \in Version
    BY IngestAssumption
  <2>2. "idle" \in Phase
    BY Phases
  <2> QED
    BY <2>1, <2>2 DEF Init, Local
<1> QED
  BY <1>1, <1>2, <1>3, <1>4, <1>5 DEF TypeOK

\* An action that changes no file and gives one run new local variables of the
\* right type keeps the types.
LEMMA OnlyLocals ==
    ASSUME TypeOK, NEW r \in Run, NEW l \in Local, Becomes(r, l),
           UNCHANGED <<cleanVars, rawVars, metaVars, envVars>>
    PROVE  TypeOK'
<1>1. proc' \in [Run -> Local]
  BY BecomesType DEF TypeOK
<1> QED
  BY <1>1 DEF TypeOK, cleanVars, rawVars, metaVars, envVars

LEMMA DropType ==
    ASSUME TypeOK, NEW d \in Dataset, NEW c \in Content, Drop(d, c)
    PROVE  TypeOK'
<1>1. incoming' \in [Dataset -> Content \cup {None}]
  BY DEF Drop, TypeOK
<1>2. drops' \in 0..MaxDrops
  BY IngestAssumption DEF Drop, TypeOK
<1> QED
  BY <1>1, <1>2 DEF Drop, TypeOK, cleanVars, rawVars, metaVars

LEMMA StartWithoutEquityType ==
    ASSUME TypeOK, NEW r \in Run, StartWithoutEquity(r)
    PROVE  TypeOK'
<1>1. pstate' \in [Run -> {"none", "success", "failed"}]
  BY DEF StartWithoutEquity, TypeOK
<1>2. proc' \in [Run -> Local]
  BY LocalUpdates, Phases, BecomesType DEF StartWithoutEquity, TypeOK
<1> QED
  BY <1>1, <1>2 DEF StartWithoutEquity, TypeOK, cleanVars, rawVars, envVars

LEMMA StartType ==
    ASSUME TypeOK, NEW r \in Run, NEW v \in Version, Start(r, v)
    PROVE  TypeOK'
<1> DEFINE b == RequiredForL0 \subseteq Present
           l == [proc[r] EXCEPT !.pc = "meta", !.ver = v, !.todo = Present,
                                !.pre = incoming["equity_eod"],
                                !.allow = b, !.good = b]
<1>1. Becomes(r, l) /\ UNCHANGED <<cleanVars, rawVars, metaVars, envVars>>
  BY DEF Start
<1>2. l \in Local
  <2>1. /\ Present \in SUBSET Dataset /\ b \in BOOLEAN /\ "meta" \in Phase
        /\ incoming["equity_eod"] \in Content \cup {None}
        /\ proc[r] \in Local
    BY Datasets, Phases DEF Present, TypeOK
  <2> HIDE DEF b
  <2> QED
    BY <2>1 DEF Local
<1> QED
  BY <1>1, <1>2, OnlyLocals

LEMMA WriteRunMetadataType ==
    ASSUME TypeOK, NEW r \in Run, WriteRunMetadata(r)
    PROVE  TypeOK'
<1>1. runMeta' \in SUBSET Run
  BY DEF WriteRunMetadata, TypeOK
<1>2. proc' \in [Run -> Local]
  BY LocalUpdates, Phases, BecomesType DEF WriteRunMetadata, TypeOK
<1> QED
  BY <1>1, <1>2 DEF WriteRunMetadata, TypeOK, cleanVars, rawVars, envVars

LEMMA SkipType ==
    ASSUME TypeOK, NEW r \in Run, NEW d \in Dataset, SkipDataset(r, d)
    PROVE  proc' \in [Run -> Local]
<1> DEFINE l == [proc[r] EXCEPT !.pc = "loop", !.good = FALSE, !.todo = @ \ {d}]
<1>1. proc[r] \in Local /\ proc[r].todo \ {d} \in SUBSET Dataset /\ "loop" \in Phase
  BY Phases DEF TypeOK, Local
<1>2. l \in Local
  BY <1>1, LocalUpdates
<1> QED
  BY <1>2, BecomesType DEF SkipDataset, TypeOK

\* At its dataset, a run has a file to hash; past the hash it has a digest.
LEMMA AtDatasetFacts ==
    ASSUME TypeOK, TodoListed, DigestKnown, NEW r \in Run, NEW d \in Dataset,
           AtDataset(r, d)
    PROVE  /\ proc[r] \in Local
           /\ incoming[d] \in Content
           /\ proc[r].pc \in {"copy", "copying", "sidecar", "clean", "record"} => proc[r].digest \in Content
BY DEF TypeOK, TodoListed, DigestKnown, AtDataset, Present

LEMMA HashArtifactType ==
    ASSUME TypeOK, TodoListed, DigestKnown,
           NEW r \in Run, NEW d \in Dataset, HashArtifact(r, d)
    PROVE  TypeOK'
<1> DEFINE c == incoming[d]
<1>1. proc[r] \in Local /\ c \in Content
  BY AtDatasetFacts DEF HashArtifact
<1>2. proc' \in [Run -> Local]
  <2>1. \A p \in Phase : [proc[r] EXCEPT !.pc = p, !.digest = c] \in Local
    BY <1>1, LocalUpdates
  <2>2. CASE Becomes(r, [proc[r] EXCEPT !.pc = "copy", !.digest = c])
    BY <2>1, <2>2, Phases, BecomesType DEF TypeOK
  <2>3. CASE Becomes(r, [proc[r] EXCEPT !.pc = "sidecar", !.digest = c])
    BY <2>1, <2>3, Phases, BecomesType DEF TypeOK
  <2>4. CASE SkipDataset(r, d)
    BY <2>4, SkipType
  <2> QED
    BY <2>2, <2>3, <2>4 DEF HashArtifact
<1> QED
  BY <1>2 DEF HashArtifact, TypeOK, rawVars, cleanVars, metaVars, envVars

LEMMA CopyingType ==
    ASSUME TypeOK, TodoListed, DigestKnown,
           NEW r \in Run, NEW d \in Dataset, Copying(r, d)
    PROVE  TypeOK'
<1>1. /\ incoming[d] \in Content /\ proc[r] \in Local
      /\ proc[r].digest \in Content
  BY AtDatasetFacts DEF Copying, BeginCopy, EndCopy, WriteSidecar
<1>2. proc' \in [Run -> Local]
  BY LocalUpdates, Phases, BecomesType
       DEF Copying, BeginCopy, EndCopy, WriteSidecar, TypeOK
<1>3. CASE BeginCopy(r, d) \/ EndCopy(r, d)
  <2>1. raw' \in [Dataset -> [Content -> Content \cup {None, Torn}]]
    <3>1. PICK b \in Content \cup {Torn} : raw' = [raw EXCEPT ![d][proc[r].digest] = b]
      BY <1>1, <1>3 DEF BeginCopy, EndCopy
    <3> QED
      BY <1>1, <3>1 DEF TypeOK
  <2>2. UNCHANGED sidecar
    BY <1>3 DEF BeginCopy, EndCopy
  <2> QED
    BY <1>2, <1>3, <2>1, <2>2 DEF BeginCopy, EndCopy, TypeOK, cleanVars, metaVars, envVars
<1>4. CASE WriteSidecar(r, d)
  <2>1. sidecar' \in [Dataset -> [Content -> Run \cup {None}]] /\ UNCHANGED raw
    BY <1>1, <1>4 DEF WriteSidecar, TypeOK
  <2> QED
    BY <1>2, <1>4, <2>1 DEF WriteSidecar, TypeOK, cleanVars, metaVars, envVars
<1> QED
  BY <1>3, <1>4 DEF Copying

\* A clean report means that what was parsed passed the data-quality checks.
LEMMA ReportedContents ==
    ASSUME TypeOK, NEW r \in Run, NEW d \in Dataset, ReportOk(r, d)
    PROVE  Parsed(r, d) \in DqOk[d] /\ Parsed(r, d) \in Content
BY IngestAssumption DEF ReportOk

LEMMA WriteL0Type ==
    ASSUME TypeOK, TodoListed, DigestKnown,
           NEW r \in Run, NEW d \in Dataset, WriteL0(r, d)
    PROVE  TypeOK'
<1> DEFINE ok == ReportOk(r, d)
           parsed == Parsed(r, d)
           publish == ok /\ proc[r].allow
<1>1. proc[r] \in Local /\ proc[r].digest \in Content
  BY AtDatasetFacts DEF WriteL0
<1>2. CASE publish
  <2>1. parsed \in Content
    BY <1>2, ReportedContents
  <2>2. L0File(r, d) \in CleanFile
    BY <1>1, <2>1 DEF L0File, CleanFile
  <2>3. l0' = [l0 EXCEPT ![d][proc[r].ver] = L0File(r, d)]
    BY <1>2 DEF WriteL0
  <2>4. l0' \in [Dataset -> [Version -> CleanFile \cup {None, Torn}]]
    BY <1>1, <2>2, <2>3 DEF TypeOK, Local
  <2>5. [proc[r] EXCEPT !.pc = "record", !.ok = TRUE, !.rows = parsed] \in Local
    BY <1>1, <2>1, LocalUpdates, Phases
  <2>6. proc' \in [Run -> Local]
    BY <1>2, <2>5, BecomesType DEF WriteL0, TypeOK
  <2> QED
    BY <2>4, <2>6 DEF WriteL0, TypeOK, rawVars, metaVars, envVars
<1>3. CASE ~publish
  <2>1. [proc[r] EXCEPT !.pc = "record", !.ok = ok, !.rows = None] \in Local
    <3>1. ok \in BOOLEAN
      BY DEF ReportOk, ChecksumOk
    <3> QED
      BY <1>1, <3>1, LocalUpdates, Phases
  <2>2. proc' \in [Run -> Local]
    BY <1>3, <2>1, BecomesType DEF WriteL0, TypeOK
  <2> QED
    BY <1>3, <2>2 DEF WriteL0, TypeOK, rawVars, metaVars, envVars
<1> QED
  BY <1>2, <1>3

LEMMA RecordManifestType ==
    ASSUME TypeOK, TodoListed, DigestKnown,
           NEW r \in Run, NEW d \in Dataset, RecordManifest(r, d)
    PROVE  TypeOK'
<1> DEFINE m == [sha |-> proc[r].digest, ok |-> proc[r].ok,
                 clean |-> proc[r].rows # None, by |-> r]
           good == proc[r].good /\ proc[r].ok
           l == [proc[r] EXCEPT !.pc = "loop", !.todo = @ \ {d},
                                !.frame[d] = proc[r].rows,
                                !.sha[d] = proc[r].digest,
                                !.good = good]
<1>1. proc[r] \in Local /\ proc[r].digest \in Content
  BY AtDatasetFacts DEF RecordManifest
<1>2. manifest' \in [ManifestName -> [Version -> Manifest \cup {None}]]
  <2>1. m \in Manifest
    BY <1>1 DEF Manifest, Local
  <2>2. manifest' = [manifest EXCEPT ![d][proc[r].ver] = m]
    BY DEF RecordManifest
  <2> HIDE DEF m
  <2> QED
    BY <1>1, <2>1, <2>2, Datasets DEF TypeOK, Local
<1>3. proc' \in [Run -> Local]
  <2>1. good \in BOOLEAN
    BY <1>1 DEF Local
  <2>2. Becomes(r, l)
    BY DEF RecordManifest
  <2>3. l \in Local
    <3> HIDE DEF good
    <3> QED
      BY <1>1, <2>1, Phases DEF Local
  <2> QED
    BY <2>2, <2>3, BecomesType DEF TypeOK
<1> QED
  BY <1>2, <1>3 DEF RecordManifest, TypeOK, cleanVars, rawVars, envVars

LEMMA GateL1Type ==
    ASSUME TypeOK, NEW r \in Run, GateL1(r)
    PROVE  TypeOK'
<1>1. /\ [proc[r] EXCEPT !.pc = "l1_equity"] \in Local
      /\ [proc[r] EXCEPT !.pc = "state", !.good = FALSE] \in Local
  BY LocalUpdates, Phases DEF TypeOK
<1> QED
  BY <1>1, OnlyLocals DEF GateL1

\* The frames of a run that passed the gate make an L1 file.
LEMMA L1FileType ==
    ASSUME TypeOK, FramesPassed, NEW r \in Run, HasL1Frames(r),
           NEW d \in RequiredForL1
    PROVE  L1File(r, d) \in CleanFile
<1>1. proc[r] \in Local /\ d \in Dataset
  BY Datasets DEF TypeOK
<1>2. /\ proc[r].frame[d] \in Content /\ proc[r].sha[d] \in Content
      /\ proc[r].frame["corporate_actions"] \in Content \cup {None}
  BY <1>1, Datasets DEF FramesPassed, HasL1Frames, Local
<1> QED
  BY <1>2 DEF L1File, CleanFile

LEMMA WriteL1Type ==
    ASSUME TypeOK, FramesPassed, GatePassed, NEW r \in Run, NEW d \in RequiredForL1,
           NEW from \in L1Phase, NEW to \in L1Phase, WriteL1(r, d, from, to)
    PROVE  TypeOK'
<1>1. proc[r] \in Local /\ L1File(r, d) \in CleanFile
  BY L1FileType DEF GatePassed, WriteL1, TypeOK
<1>2. l1' \in [RequiredForL1 -> [Version -> CleanFile \cup {None, Torn}]]
  BY <1>1 DEF WriteL1, TypeOK, Local
<1>3. proc' \in [Run -> Local]
  BY <1>1, LocalUpdates, Phases, BecomesType DEF WriteL1, TypeOK
<1> QED
  BY <1>2, <1>3 DEF WriteL1, TypeOK, rawVars, metaVars, envVars

LEMMA WriteL1ManifestType ==
    ASSUME TypeOK, FramesPassed, GatePassed, NEW r \in Run, WriteL1Manifest(r)
    PROVE  TypeOK'
<1> DEFINE m == [sha |-> proc[r].sha["equity_eod"], ok |-> TRUE,
                 clean |-> TRUE, by |-> r]
<1>1. proc[r] \in Local /\ proc[r].sha["equity_eod"] \in Content
  BY Datasets, Phases DEF FramesPassed, GatePassed, HasL1Frames, WriteL1Manifest, TypeOK
<1>2. m \in Manifest
  BY <1>1 DEF Manifest
<1>3. manifest' \in [ManifestName -> [Version -> Manifest \cup {None}]]
  <2>1. manifest' = [manifest EXCEPT !["equity_eod_l1"][proc[r].ver] = m]
    BY DEF WriteL1Manifest
  <2> HIDE DEF m
  <2> QED
    BY <1>1, <1>2, <2>1, Datasets DEF TypeOK, Local
<1>4. proc' \in [Run -> Local]
  BY LocalUpdates, Phases, BecomesType DEF WriteL1Manifest, TypeOK
<1> QED
  BY <1>3, <1>4 DEF WriteL1Manifest, TypeOK, cleanVars, rawVars, envVars

LEMMA WritePublishedMetaType ==
    ASSUME TypeOK, NEW r \in Run, WritePublishedMeta(r)
    PROVE  TypeOK'
<1>1. meta' \in [Version -> Run \cup {None}]
  BY DEF WritePublishedMeta, TypeOK, Local
<1>2. proc' \in [Run -> Local]
  BY LocalUpdates, Phases, BecomesType DEF WritePublishedMeta, TypeOK
<1> QED
  BY <1>1, <1>2 DEF WritePublishedMeta, TypeOK, cleanVars, rawVars, envVars

LEMMA WritePipelineStateType ==
    ASSUME TypeOK, NEW r \in Run, WritePipelineState(r)
    PROVE  TypeOK'
<1>1. pstate' \in [Run -> {"none", "success", "failed"}]
  BY DEF WritePipelineState, TypeOK
<1>2. proc' \in [Run -> Local]
  BY LocalUpdates, Phases, BecomesType DEF WritePipelineState, TypeOK
<1> QED
  BY <1>1, <1>2 DEF WritePipelineState, TypeOK, cleanVars, rawVars, envVars

\* A file torn by a dying writer is still a file of its folder.
LEMMA TearTargetType ==
    ASSUME TypeOK, TodoListed, DigestKnown, NEW r \in Run, TearTarget(r)
    PROVE  /\ l0' \in [Dataset -> [Version -> CleanFile \cup {None, Torn}]]
           /\ l1' \in [RequiredForL1 -> [Version -> CleanFile \cup {None, Torn}]]
<1>1. proc[r] \in Local
  BY DEF TypeOK
<1>2. CASE UNCHANGED <<l0, l1>>
  BY <1>2 DEF TypeOK
<1>3. ASSUME NEW d \in Dataset, l0' = [l0 EXCEPT ![d][proc[r].ver] = Torn]
      PROVE  l0' \in [Dataset -> [Version -> CleanFile \cup {None, Torn}]]
  BY <1>1, <1>3 DEF TypeOK, Local
<1>4. ASSUME NEW d \in RequiredForL1, l1' = [l1 EXCEPT ![d][proc[r].ver] = Torn]
      PROVE  l1' \in [RequiredForL1 -> [Version -> CleanFile \cup {None, Torn}]]
  BY <1>1, <1>4 DEF TypeOK, Local
<1> QED
  BY <1>2, <1>3, <1>4 DEF TearTarget, TypeOK

LEMMA FaultType ==
    ASSUME TypeOK, TodoListed, DigestKnown, NEW r \in Run, Fault(r)
    PROVE  TypeOK'
<1>1. faults' \in 0..MaxFaults
  BY IngestAssumption DEF Fault, Die, DatasetRaises, TypeOK
<1>2. TearTarget(r)
  BY DEF Fault, Die, DatasetRaises
<1>3. proc' \in [Run -> Local]
  <2>1. CASE Die(r)
    BY <2>1, LocalUpdates, Phases, BecomesType DEF Die, TypeOK
  <2>2. ASSUME NEW d \in Dataset, DatasetRaises(r, d)
        PROVE  proc' \in [Run -> Local]
    BY <2>2, SkipType DEF DatasetRaises
  <2> QED
    BY <2>1, <2>2 DEF Fault
<1>4. UNCHANGED <<rawVars, metaVars, incoming, drops>>
  BY DEF Fault, Die, DatasetRaises
<1> QED
  BY <1>1, <1>2, <1>3, <1>4, TearTargetType DEF TypeOK, rawVars, metaVars

LEMMA StepType ==
    ASSUME TypeOK, LocalsOK, NEW r \in Run, Step(r)
    PROVE  TypeOK'
<1>1. CASE StartWithoutEquity(r)
  BY <1>1, StartWithoutEquityType
<1>2. CASE \E v \in Version : Start(r, v)
  BY <1>2, StartType
<1>3. CASE WriteRunMetadata(r)
  BY <1>3, WriteRunMetadataType
<1>4. CASE \E d \in Dataset : L0Step(r, d)
  BY <1>4, HashArtifactType, CopyingType, WriteL0Type, RecordManifestType
     DEF L0Step, Copying, LocalsOK
<1>5. CASE GateL1(r)
  BY <1>5, GateL1Type
<1>6. CASE WriteL1Equity(r) \/ WriteL1Actions(r) \/ WriteL1Calendar(r)
  BY <1>6, WriteL1Type, Phases, Datasets
     DEF WriteL1Equity, WriteL1Actions, WriteL1Calendar, LocalsOK
<1>7. CASE WriteL1Manifest(r)
  BY <1>7, WriteL1ManifestType DEF LocalsOK
<1>8. CASE WritePublishedMeta(r)
  BY <1>8, WritePublishedMetaType
<1>9. CASE WritePipelineState(r)
  BY <1>9, WritePipelineStateType
<1> QED
  BY <1>1, <1>2, <1>3, <1>4, <1>5, <1>6, <1>7, <1>8, <1>9 DEF Step

LEMMA NextType == TypeOK /\ LocalsOK /\ [Next]_vars => TypeOK'
<1> SUFFICES ASSUME TypeOK, LocalsOK, [Next]_vars PROVE TypeOK'
  OBVIOUS
<1>1. CASE \E d \in Dataset, c \in Content : Drop(d, c)
  BY <1>1, DropType
<1>2. CASE \E r \in Run : Step(r)
  BY <1>2, StepType
<1>3. CASE \E r \in Run : Fault(r)
  BY <1>3, FaultType DEF LocalsOK
<1>4. CASE UNCHANGED vars
  BY <1>4 DEF TypeOK, vars, cleanVars, rawVars, metaVars, envVars
<1> QED
  BY <1>1, <1>2, <1>3, <1>4 DEF Next

-------------------------------------------------------------------------------
(* The strengthening is inductive. *)

\* Two datasets cannot both be next.
LEMMA OneDatasetAtATime ==
    ASSUME TypeOK, NEW r \in Run, NEW d \in Dataset, NEW e \in Dataset,
           AtDataset(r, d), AtDataset(r, e)
    PROVE  d = e
BY DEF AtDataset, Rank, Dataset

\* LocalsOK after a step of one run, from conditions on its new local variables.
LEMMA LocalsStep ==
    ASSUME TypeOK, LocalsOK, UNCHANGED incoming,
           NEW r \in Run, NEW l \in Local, Becomes(r, l),
           l.todo \subseteq Present,
           l.pc \in {"copy", "copying", "sidecar", "clean", "record"} => l.digest \in Content,
           \A d \in Dataset :
             (/\ l.pc = "record" /\ l.rows # None
              /\ d \in l.todo /\ \A e \in l.todo : Rank[d] <= Rank[e])
             => l.rows \in DqOk[d],
           \A d \in Dataset :
             l.frame[d] # None => l.frame[d] \in DqOk[d] /\ l.sha[d] \in Content,
           l.pc \in L1Phase =>
             /\ l.allow /\ \A d \in RequiredForL1 : l.frame[d] # None
             /\ <<l.frame["equity_eod"], l.frame["trading_calendar"]>> \notin HardGap
    PROVE  LocalsOK'
<1>1. /\ proc'[r] = l
      /\ \A q \in Run \ {r} : proc'[q] = proc[q]
  BY BecomesType DEF TypeOK
<1>2. Present' = Present
  BY DEF Present
<1>3. TodoListed'
  BY <1>1, <1>2 DEF TodoListed, LocalsOK
<1>4. DigestKnown'
  BY <1>1 DEF DigestKnown, LocalsOK
<1>5. RowsPassed'
  BY <1>1 DEF RowsPassed, LocalsOK, AtDataset
<1>6. FramesPassed'
  BY <1>1 DEF FramesPassed, LocalsOK
<1>7. GatePassed'
  BY <1>1 DEF GatePassed, LocalsOK, HasL1Frames, SessionGap
<1> QED
  BY <1>3, <1>4, <1>5, <1>6, <1>7 DEF LocalsOK

\* A step to another phase, with nothing else changed in the local variables,
\* and nothing to show but for the phases that have a condition.
LEMMA PhaseStep ==
    ASSUME TypeOK, LocalsOK, UNCHANGED incoming, NEW r \in Run, NEW p \in Phase,
           Becomes(r, [proc[r] EXCEPT !.pc = p]),
           p \in {"copy", "copying", "sidecar", "clean"} => proc[r].digest \in Content,
           p # "record",
           p \in L1Phase => HasL1Frames(r) /\ ~SessionGap(r)
    PROVE  LocalsOK'
<1> DEFINE l == [proc[r] EXCEPT !.pc = p]
<1>1. proc[r] \in Local /\ l \in Local
  BY LocalUpdates DEF TypeOK
<1>2. /\ l.pc = p /\ l.todo = proc[r].todo /\ l.digest = proc[r].digest
      /\ l.rows = proc[r].rows /\ l.frame = proc[r].frame
      /\ l.sha = proc[r].sha /\ l.allow = proc[r].allow
  BY <1>1 DEF Local
<1>3. /\ l.todo \subseteq Present
      /\ \A d \in Dataset :
           l.frame[d] # None => l.frame[d] \in DqOk[d] /\ l.sha[d] \in Content
      /\ l.pc \in L1Phase =>
           /\ l.allow /\ \A d \in RequiredForL1 : l.frame[d] # None
           /\ <<l.frame["equity_eod"], l.frame["trading_calendar"]>> \notin HardGap
      /\ l.pc \in {"copy", "copying", "sidecar", "clean", "record"} => l.digest \in Content
  BY <1>2 DEF LocalsOK, TodoListed, FramesPassed, HasL1Frames, SessionGap
<1> HIDE DEF l
<1> QED
  BY <1>1, <1>2, <1>3, LocalsStep DEF l

\* A step to a phase outside L1 that keeps the frames.
LEMMA LoopStep ==
    ASSUME TypeOK, LocalsOK, UNCHANGED incoming,
           NEW r \in Run, NEW l \in Local, Becomes(r, l),
           l.todo \subseteq Present, l.pc \notin L1Phase, l.pc # "record",
           l.pc \in {"copy", "copying", "sidecar", "clean"} => l.digest \in Content,
           l.frame = proc[r].frame, l.sha = proc[r].sha
    PROVE  LocalsOK'
<1>1. \A d \in Dataset :
        l.frame[d] # None => l.frame[d] \in DqOk[d] /\ l.sha[d] \in Content
  BY DEF LocalsOK, FramesPassed
<1> QED
  BY <1>1, LocalsStep

LEMMA DropLocals ==
    ASSUME TypeOK, LocalsOK, NEW d \in Dataset, NEW c \in Content, Drop(d, c)
    PROVE  LocalsOK'
<1>1. Present \subseteq Present'
  <2>1. c # None
    BY IngestAssumption
  <2> QED
    BY <2>1 DEF Present, Drop, TypeOK
<1>2. proc' = proc
  BY DEF Drop
<1>3. TodoListed'
  BY <1>1, <1>2 DEF TodoListed, LocalsOK
<1>4. DigestKnown' /\ RowsPassed' /\ FramesPassed' /\ GatePassed'
  BY <1>2 DEF DigestKnown, RowsPassed, FramesPassed, GatePassed, LocalsOK,
              AtDataset, HasL1Frames, SessionGap
<1> QED
  BY <1>3, <1>4 DEF LocalsOK

LEMMA StartLocals ==
    ASSUME TypeOK, LocalsOK, NEW r \in Run, NEW v \in Version, Start(r, v)
    PROVE  LocalsOK'
<1> DEFINE b == RequiredForL0 \subseteq Present
           l == [proc[r] EXCEPT !.pc = "meta", !.ver = v, !.todo = Present,
                                !.pre = incoming["equity_eod"],
                                !.allow = b, !.good = b]
<1>1. Becomes(r, l) /\ UNCHANGED incoming
  BY DEF Start, envVars
<1>2. /\ Present \in SUBSET Dataset /\ b \in BOOLEAN /\ "meta" \in Phase
      /\ incoming["equity_eod"] \in Content \cup {None}
      /\ proc[r] \in Local
  BY Datasets, Phases DEF Present, TypeOK
<1> HIDE DEF b
<1>3. /\ l \in Local /\ l.todo = Present /\ l.pc = "meta"
      /\ l.frame = proc[r].frame /\ l.sha = proc[r].sha
  BY <1>2 DEF Local
<1>4. "meta" \notin L1Phase
  BY DEF L1Phase
<1> HIDE DEF l
<1> QED
  BY <1>1, <1>3, <1>4, LoopStep

LEMMA SkipLocals ==
    ASSUME TypeOK, LocalsOK, UNCHANGED incoming,
           NEW r \in Run, NEW d \in Dataset, SkipDataset(r, d)
    PROVE  LocalsOK'
<1> DEFINE l == [proc[r] EXCEPT !.pc = "loop", !.good = FALSE, !.todo = @ \ {d}]
<1>1. proc[r] \in Local /\ proc[r].todo \ {d} \in SUBSET Dataset /\ "loop" \in Phase
  BY Phases DEF TypeOK, Local
<1>2. l \in Local
  BY <1>1, LocalUpdates
<1>3. /\ l.todo = proc[r].todo \ {d} /\ l.pc = "loop"
      /\ l.frame = proc[r].frame /\ l.sha = proc[r].sha
  BY <1>1 DEF Local
<1>4. Becomes(r, l)
  BY DEF SkipDataset
<1>5. l.todo \subseteq Present
  BY <1>3 DEF LocalsOK, TodoListed
<1>6. "loop" \notin L1Phase
  BY DEF L1Phase
<1> HIDE DEF l
<1> QED
  BY <1>2, <1>3, <1>4, <1>5, <1>6, LoopStep

LEMMA HashArtifactLocals ==
    ASSUME TypeOK, LocalsOK, NEW r \in Run, NEW d \in Dataset, HashArtifact(r, d)
    PROVE  LocalsOK'
<1>1. proc[r] \in Local /\ incoming[d] \in Content /\ UNCHANGED incoming
  BY AtDatasetFacts DEF HashArtifact, LocalsOK, envVars
<1>2. ASSUME NEW p \in {"copy", "copying", "sidecar", "clean"},
             Becomes(r, [proc[r] EXCEPT !.pc = p, !.digest = incoming[d]])
      PROVE  LocalsOK'
  <2> DEFINE l == [proc[r] EXCEPT !.pc = p, !.digest = incoming[d]]
  <2>1. l \in Local
    BY <1>1, Phases, LocalUpdates
  <2>2. /\ l.todo = proc[r].todo /\ l.pc = p /\ l.digest = incoming[d]
        /\ l.frame = proc[r].frame /\ l.sha = proc[r].sha
    BY <1>1 DEF Local
  <2>3. l.todo \subseteq Present
    BY <2>2 DEF LocalsOK, TodoListed
  <2>4. p \notin L1Phase /\ p # "record"
    BY DEF L1Phase
  <2>5. Becomes(r, l)
    BY <1>2
  <2> HIDE DEF l
  <2> QED
    BY <1>1, <2>1, <2>2, <2>3, <2>4, <2>5, LoopStep
<1>3. CASE SkipDataset(r, d)
  BY <1>1, <1>3, SkipLocals
<1> QED
  BY <1>2, <1>3 DEF HashArtifact, Becomes

LEMMA CopyingLocals ==
    ASSUME TypeOK, LocalsOK, NEW r \in Run, NEW d \in Dataset, Copying(r, d)
    PROVE  LocalsOK'
<1>1. proc[r].digest \in Content
  BY AtDatasetFacts DEF Copying, BeginCopy, EndCopy, WriteSidecar, LocalsOK
<1>2. /\ {"copying", "sidecar", "clean"} \subseteq Phase \ L1Phase
      /\ UNCHANGED incoming
  BY Phases DEF Copying, BeginCopy, EndCopy, WriteSidecar, envVars, L1Phase
<1> QED
  BY <1>1, <1>2, PhaseStep DEF Copying, BeginCopy, EndCopy, WriteSidecar

LEMMA WriteL0Locals ==
    ASSUME TypeOK, LocalsOK, NEW r \in Run, NEW d \in Dataset, WriteL0(r, d)
    PROVE  LocalsOK'
<1>1. /\ proc[r] \in Local /\ proc[r].digest \in Content /\ UNCHANGED incoming
      /\ AtDataset(r, d)
  BY AtDatasetFacts DEF WriteL0, LocalsOK, envVars
<1>2. ASSUME NEW b \in BOOLEAN, NEW c \in Content \cup {None}, c # None => c \in DqOk[d],
             Becomes(r, [proc[r] EXCEPT !.pc = "record", !.ok = b, !.rows = c])
      PROVE  LocalsOK'
  <2> DEFINE l == [proc[r] EXCEPT !.pc = "record", !.ok = b, !.rows = c]
  <2>1. l \in Local
    BY <1>1, Phases, LocalUpdates
  <2>2. /\ l.todo = proc[r].todo /\ l.pc = "record" /\ l.digest = proc[r].digest
        /\ l.frame = proc[r].frame /\ l.sha = proc[r].sha /\ l.rows = c
    BY <1>1 DEF Local
  <2>3. l.todo \subseteq Present
    BY <2>2 DEF LocalsOK, TodoListed
  <2>4. l.pc \notin L1Phase
    BY <2>2 DEF L1Phase
  <2>5. Becomes(r, l)
    BY <1>2
  <2>6. \A e \in Dataset :
          (/\ l.rows # None /\ e \in l.todo
           /\ \A f \in l.todo : Rank[e] <= Rank[f]) => l.rows \in DqOk[e]
    BY <1>1, <1>2, <2>2, OneDatasetAtATime DEF AtDataset
  <2>7. \A e \in Dataset :
          l.frame[e] # None => l.frame[e] \in DqOk[e] /\ l.sha[e] \in Content
    BY <2>2 DEF LocalsOK, FramesPassed
  <2> HIDE DEF l
  <2> QED
    BY <1>1, <2>1, <2>2, <2>3, <2>4, <2>5, <2>6, <2>7, LocalsStep
<1>3. CASE ReportOk(r, d) /\ proc[r].allow
  BY <1>2, <1>3, ReportedContents DEF WriteL0
<1>4. CASE ~(ReportOk(r, d) /\ proc[r].allow)
  <2>1. ReportOk(r, d) \in BOOLEAN
    BY DEF ReportOk, ChecksumOk
  <2> QED
    BY <1>2, <1>4, <2>1 DEF WriteL0
<1> QED
  BY <1>3, <1>4

LEMMA RecordManifestLocals ==
    ASSUME TypeOK, LocalsOK, NEW r \in Run, NEW d \in Dataset, RecordManifest(r, d)
    PROVE  LocalsOK'
<1> DEFINE good == proc[r].good /\ proc[r].ok
           l == [proc[r] EXCEPT !.pc = "loop", !.todo = @ \ {d},
                                !.frame[d] = proc[r].rows,
                                !.sha[d] = proc[r].digest,
                                !.good = good]
<1>1. /\ proc[r] \in Local /\ proc[r].digest \in Content /\ AtDataset(r, d)
      /\ proc[r].pc = "record" /\ UNCHANGED incoming
  BY AtDatasetFacts DEF RecordManifest, LocalsOK, envVars
<1>2. Becomes(r, l)
  BY DEF RecordManifest
<1>3. good \in BOOLEAN
  BY <1>1 DEF Local
<1> HIDE DEF good
<1>4. l \in Local
  BY <1>1, <1>3, Phases DEF Local
<1>5. /\ l.todo = proc[r].todo \ {d} /\ l.pc = "loop"
      /\ l.frame = [proc[r].frame EXCEPT ![d] = proc[r].rows]
      /\ l.sha = [proc[r].sha EXCEPT ![d] = proc[r].digest]
  BY <1>1 DEF Local
<1> HIDE DEF l
<1>6. l.todo \subseteq Present
  BY <1>5 DEF LocalsOK, TodoListed
<1>7. l.pc \notin L1Phase
  BY <1>5 DEF L1Phase
<1>8. ASSUME NEW e \in Dataset, l.frame[e] # None
      PROVE  l.frame[e] \in DqOk[e] /\ l.sha[e] \in Content
  <2>1. /\ proc[r].frame \in [Dataset -> Content \cup {None}]
        /\ proc[r].sha \in [Dataset -> Content \cup {None}]
    BY <1>1 DEF Local
  <2>2. CASE e = d
    <3>1. l.frame[e] = proc[r].rows /\ l.sha[e] = proc[r].digest
      BY <1>5, <2>1, <2>2
    <3> QED
      BY <1>1, <1>8, <2>2, <3>1 DEF LocalsOK, RowsPassed
  <2>3. CASE e # d
    <3>1. l.frame[e] = proc[r].frame[e] /\ l.sha[e] = proc[r].sha[e]
      BY <1>5, <2>1, <2>3
    <3> QED
      BY <1>8, <3>1 DEF LocalsOK, FramesPassed
  <2> QED
    BY <2>2, <2>3
<1> QED
  BY <1>1, <1>2, <1>4, <1>5, <1>6, <1>7, <1>8, LocalsStep

LEMMA GateL1Locals ==
    ASSUME TypeOK, LocalsOK, NEW r \in Run, GateL1(r)
    PROVE  LocalsOK'
<1>1. proc[r] \in Local /\ UNCHANGED incoming
  BY DEF GateL1, TypeOK, envVars
<1>2. CASE HasL1Frames(r) /\ ~SessionGap(r)
  BY <1>1, <1>2, Phases, PhaseStep DEF GateL1
<1>3. CASE ~(HasL1Frames(r) /\ ~SessionGap(r))
  <2> DEFINE l == [proc[r] EXCEPT !.pc = "state", !.good = FALSE]
  <2>1. Becomes(r, l)
    BY <1>3 DEF GateL1
  <2>2. l \in Local
    BY <1>1, LocalUpdates, Phases
  <2>3. /\ l.todo = proc[r].todo /\ l.pc = "state"
        /\ l.frame = proc[r].frame /\ l.sha = proc[r].sha
    BY <1>1 DEF Local
  <2>4. l.todo \subseteq Present /\ l.pc \notin L1Phase
    BY <2>3 DEF LocalsOK, TodoListed, L1Phase
  <2> HIDE DEF l
  <2> QED
    BY <1>1, <2>1, <2>2, <2>3, <2>4, LoopStep
<1> QED
  BY <1>2, <1>3

LEMMA PublishLocals ==
    ASSUME TypeOK, LocalsOK, NEW r \in Run,
           \/ WriteL1Equity(r) \/ WriteL1Actions(r) \/ WriteL1Calendar(r)
           \/ WriteL1Manifest(r) \/ WritePublishedMeta(r) \/ WritePipelineState(r)
    PROVE  LocalsOK'
<1>1. proc[r] \in Local
  BY DEF TypeOK
<1>2. UNCHANGED incoming
  BY DEF WriteL1Equity, WriteL1Actions, WriteL1Calendar, WriteL1, WriteL1Manifest,
         WritePublishedMeta, WritePipelineState, envVars
<1>3. ASSUME NEW p \in L1Phase, NEW q \in L1Phase, proc[r].pc = p,
             Becomes(r, [proc[r] EXCEPT !.pc = q])
      PROVE  LocalsOK'
  <2>1. HasL1Frames(r) /\ ~SessionGap(r)
    BY <1>3 DEF LocalsOK, GatePassed
  <2>2. q \notin {"copy", "copying", "sidecar", "clean", "record"}
    BY DEF L1Phase
  <2> QED
    BY <1>2, <1>3, <2>1, <2>2, Phases, PhaseStep
<1>4. CASE WriteL1Equity(r) \/ WriteL1Actions(r) \/ WriteL1Calendar(r)
  BY <1>3, <1>4, Phases DEF WriteL1Equity, WriteL1Actions, WriteL1Calendar, WriteL1
<1>5. CASE WriteL1Manifest(r)
  BY <1>3, <1>5, Phases DEF WriteL1Manifest
<1>6. CASE WritePublishedMeta(r)
  <2> DEFINE l == [proc[r] EXCEPT !.pc = "state", !.pub = TRUE]
  <2>1. Becomes(r, l)
    BY <1>6 DEF WritePublishedMeta
  <2>2. l \in Local
    BY <1>1, LocalUpdates, Phases
  <2>3. /\ l.todo = proc[r].todo /\ l.pc = "state"
        /\ l.frame = proc[r].frame /\ l.sha = proc[r].sha
    BY <1>1 DEF Local
  <2>4. l.todo \subseteq Present /\ l.pc \notin L1Phase
    BY <2>3 DEF LocalsOK, TodoListed, L1Phase
  <2> HIDE DEF l
  <2> QED
    BY <1>2, <2>1, <2>2, <2>3, <2>4, LoopStep
<1>7. CASE WritePipelineState(r)
  <2>1. "done" \in Phase /\ "done" \notin L1Phase
    BY Phases DEF L1Phase
  <2> QED
    BY <1>2, <1>7, <2>1, PhaseStep DEF WritePipelineState
<1> QED
  BY <1>4, <1>5, <1>6, <1>7

LEMMA StepLocals ==
    ASSUME TypeOK, LocalsOK, NEW r \in Run, Step(r)
    PROVE  LocalsOK'
<1>1. CASE StartWithoutEquity(r)
  <2>1. "done" \in Phase /\ "done" \notin L1Phase /\ UNCHANGED incoming
    BY <1>1, Phases DEF L1Phase, StartWithoutEquity, envVars
  <2> QED
    BY <1>1, <2>1, PhaseStep DEF StartWithoutEquity
<1>2. CASE \E v \in Version : Start(r, v)
  BY <1>2, StartLocals
<1>3. CASE WriteRunMetadata(r)
  <2>1. "loop" \in Phase /\ "loop" \notin L1Phase /\ UNCHANGED incoming
    BY <1>3, Phases DEF L1Phase, WriteRunMetadata, envVars
  <2> QED
    BY <1>3, <2>1, PhaseStep DEF WriteRunMetadata
<1>4. CASE \E d \in Dataset : L0Step(r, d)
  BY <1>4, HashArtifactLocals, CopyingLocals, WriteL0Locals, RecordManifestLocals
     DEF L0Step, Copying
<1>5. CASE GateL1(r)
  BY <1>5, GateL1Locals
<1> QED
  BY <1>1, <1>2, <1>3, <1>4, <1>5, PublishLocals DEF Step

LEMMA FaultLocals ==
    ASSUME TypeOK, LocalsOK, NEW r \in Run, Fault(r)
    PROVE  LocalsOK'
<1>1. UNCHANGED incoming
  BY DEF Fault, Die, DatasetRaises
<1>2. CASE Die(r)
  <2>1. "dead" \in Phase /\ "dead" \notin L1Phase
    BY Phases DEF L1Phase
  <2> QED
    BY <1>1, <1>2, <2>1, PhaseStep DEF Die
<1>3. ASSUME NEW d \in Dataset, DatasetRaises(r, d)
      PROVE  LocalsOK'
  BY <1>1, <1>3, SkipLocals DEF DatasetRaises
<1> QED
  BY <1>2, <1>3 DEF Fault

LEMMA NextLocals == TypeOK /\ LocalsOK /\ [Next]_vars => LocalsOK'
<1> SUFFICES ASSUME TypeOK, LocalsOK, [Next]_vars PROVE LocalsOK'
  OBVIOUS
<1>1. CASE \E d \in Dataset, c \in Content : Drop(d, c)
  BY <1>1, DropLocals
<1>2. CASE \E r \in Run : Step(r) \/ Fault(r)
  BY <1>2, StepLocals, FaultLocals
<1>3. CASE UNCHANGED vars
  <2>1. UNCHANGED <<incoming, proc>>
    BY <1>3 DEF vars, envVars
  <2> QED
    BY <2>1 DEF LocalsOK, TodoListed, DigestKnown, RowsPassed, FramesPassed,
                GatePassed, Present, AtDataset, HasL1Frames, SessionGap
<1> QED
  BY <1>1, <1>2, <1>3 DEF Next

-------------------------------------------------------------------------------
(* L1 fails closed. *)

AfterLoop == L1Phase \cup {"state", "done", "dead"}

\* A step of one run that writes no L1 equity file, or leaves it torn, keeps the
\* property as long as the run's frames are final once it is past its loop.
LEMMA FilesKept ==
    ASSUME IInv, NEW r \in Run, NEW l \in Local, Becomes(r, l),
           proc[r].pc \in AfterLoop => l.pc \in AfterLoop /\ l.frame = proc[r].frame,
           \A v \in Version :
             Written(l1'["equity_eod"][v]) => UNCHANGED l1["equity_eod"][v]
    PROVE  WriterPastLoop' /\ L1FailClosed'
<1>1. /\ proc'[r] = l
      /\ \A q \in Run \ {r} : proc'[q] = proc[q]
  BY BecomesType DEF IInv, TypeOK
<1>2. \A v \in Version :
        Written(l1["equity_eod"][v]) => l1["equity_eod"][v].by \in Run
  BY Datasets DEF IInv, TypeOK, Written, CleanFile
<1>3. WriterPastLoop'
  <2> SUFFICES ASSUME NEW v \in Version, Written(l1'["equity_eod"][v])
               PROVE  proc'[l1'["equity_eod"][v].by].pc \in AfterLoop
    BY DEF WriterPastLoop, AfterLoop, Written
  <2> QED
    BY <1>1, <1>2 DEF IInv, WriterPastLoop, AfterLoop
<1>4. L1FailClosed'
  <2> SUFFICES ASSUME NEW v \in Version, Written(l1'["equity_eod"][v])
               PROVE  LET f == l1'["equity_eod"][v]
                          frame == proc'[f.by].frame
                      IN  /\ f.rows = frame["equity_eod"]
                          /\ f.adj = frame["corporate_actions"]
                          /\ \A d \in RequiredForL1 : frame[d] \in DqOk[d]
                          /\ <<f.rows, frame["trading_calendar"]>> \notin HardGap
    BY DEF L1FailClosed, Written
  <2> DEFINE f == l1["equity_eod"][v]
  <2>1. l1'["equity_eod"][v] = f /\ Written(f) /\ f.by \in Run
    BY <1>2
  <2>2. proc'[f.by].frame = proc[f.by].frame
    BY <1>1, <2>1 DEF IInv, WriterPastLoop, AfterLoop
  <2> QED
    BY <2>1, <2>2 DEF IInv, L1FailClosed
<1> QED
  BY <1>3, <1>4

\* The step that writes it: the gate made sure of everything the file claims.
LEMMA WriteL1EquityFiles ==
    ASSUME IInv, NEW r \in Run, WriteL1Equity(r)
    PROVE  WriterPastLoop' /\ L1FailClosed'
<1> DEFINE l == [proc[r] EXCEPT !.pc = "l1_actions"]
           F == L1File(r, "equity_eod")
           v == proc[r].ver
<1>1. proc[r] \in Local /\ v \in Version
  BY DEF IInv, TypeOK, Local
<1>2. l \in Local /\ l.pc = "l1_actions" /\ l.frame = proc[r].frame
  <2>1. l \in Local
    BY <1>1, LocalUpdates, Phases
  <2> QED
    BY <1>1, <2>1 DEF Local
<1>3. Becomes(r, l) /\ l1' = [l1 EXCEPT !["equity_eod"][v] = F]
  BY DEF WriteL1Equity, WriteL1
<1>4. HasL1Frames(r) /\ ~SessionGap(r)
  BY Phases DEF WriteL1Equity, WriteL1, IInv, LocalsOK, GatePassed
<1> HIDE DEF l
<1>5. /\ proc'[r] = l
      /\ \A q \in Run \ {r} : proc'[q] = proc[q]
  BY <1>2, <1>3, BecomesType DEF IInv, TypeOK
<1>6. /\ l1'["equity_eod"][v] = F
      /\ \A w \in Version \ {v} : l1'["equity_eod"][w] = l1["equity_eod"][w]
  BY <1>1, <1>3, Datasets DEF IInv, TypeOK
<1>7. \A q \in Run : proc'[q].frame = proc[q].frame
  BY <1>2, <1>5
<1>8. \A w \in Version \ {v} :
        Written(l1["equity_eod"][w]) => l1["equity_eod"][w].by \in Run
  BY Datasets DEF IInv, TypeOK, Written, CleanFile
<1>9. F.by = r /\ F.rows = proc[r].frame["equity_eod"]
      /\ F.adj = proc[r].frame["corporate_actions"]
  BY DEF L1File
<1> HIDE DEF F, v
<1>10. WriterPastLoop'
  <2> SUFFICES ASSUME NEW w \in Version, Written(l1'["equity_eod"][w])
               PROVE  proc'[l1'["equity_eod"][w].by].pc \in AfterLoop
    BY DEF WriterPastLoop, AfterLoop, Written
  <2>1. l.pc \in AfterLoop
    BY <1>2, Phases DEF AfterLoop
  <2> QED
    BY <1>5, <1>6, <1>8, <1>9, <2>1 DEF IInv, WriterPastLoop, AfterLoop
<1>11. L1FailClosed'
  <2> SUFFICES ASSUME NEW w \in Version, Written(l1'["equity_eod"][w])
               PROVE  LET f == l1'["equity_eod"][w]
                          frame == proc'[f.by].frame
                      IN  /\ f.rows = frame["equity_eod"]
                          /\ f.adj = frame["corporate_actions"]
                          /\ \A d \in RequiredForL1 : frame[d] \in DqOk[d]
                          /\ <<f.rows, frame["trading_calendar"]>> \notin HardGap
    BY DEF L1FailClosed, Written
  <2>1. CASE w = v
    <3>1. \A d \in RequiredForL1 : proc[r].frame[d] \in DqOk[d]
      BY <1>4, Datasets DEF HasL1Frames, IInv, LocalsOK, FramesPassed
    <3> QED
      BY <1>4, <1>6, <1>7, <1>9, <2>1, <3>1 DEF SessionGap
  <2>2. CASE w # v
    <3> DEFINE f == l1["equity_eod"][w]
    <3>1. l1'["equity_eod"][w] = f /\ Written(f) /\ f.by \in Run
      BY <1>6, <1>8, <2>2
    <3>2. proc'[f.by].frame = proc[f.by].frame
      BY <1>7, <3>1
    <3> QED
      BY <3>1, <3>2 DEF IInv, L1FailClosed
  <2> QED
    BY <2>1, <2>2
<1> QED
  BY <1>10, <1>11

\* Every action of a run changes the local variables of that run only.
LEMMA MovesOneRun ==
    ASSUME IInv, TypeOK', NEW r \in Run, Step(r) \/ Fault(r)
    PROVE  \E l \in Local : Becomes(r, l)
<1>1. CASE StartWithoutEquity(r) \/ \E v \in Version : Start(r, v)
  <2>1. CASE StartWithoutEquity(r)
    BY <2>1 DEF StartWithoutEquity, Becomes, IInv, TypeOK
  <2>2. ASSUME NEW v \in Version, Start(r, v)
        PROVE  \E l \in Local : Becomes(r, l)
    <3> DEFINE b == RequiredForL0 \subseteq Present
               l == [proc[r] EXCEPT !.pc = "meta", !.ver = v, !.todo = Present,
                                    !.pre = incoming["equity_eod"],
                                    !.allow = b, !.good = b]
    <3>1. Becomes(r, l)
      BY <2>2 DEF Start
    <3> HIDE DEF l
    <3>2. l = proc'[r] /\ proc'[r] \in Local
      BY <3>1 DEF Becomes, IInv, TypeOK
    <3> QED
      BY <3>1, <3>2
  <2> QED
    BY <1>1, <2>1, <2>2
<1>2. CASE WriteRunMetadata(r) \/ GateL1(r)
  BY <1>2 DEF WriteRunMetadata, GateL1, Becomes, IInv, TypeOK
<1>3. ASSUME NEW d \in Dataset, SkipDataset(r, d)
      PROVE  \E l \in Local : Becomes(r, l)
  BY <1>3 DEF SkipDataset, Becomes, IInv, TypeOK
<1>4. ASSUME NEW d \in Dataset, L0Step(r, d)
      PROVE  \E l \in Local : Becomes(r, l)
  <2>1. CASE HashArtifact(r, d)
    BY <1>3, <2>1 DEF HashArtifact, Becomes, IInv, TypeOK
  <2>2. CASE Copying(r, d) \/ WriteL0(r, d) \/ RecordManifest(r, d)
    BY <2>2
         DEF Copying, BeginCopy, EndCopy, WriteSidecar, WriteL0, RecordManifest, Becomes,
             IInv, TypeOK
  <2> QED
    BY <1>4, <2>1, <2>2 DEF L0Step, Copying
<1>5. CASE WriteL1Equity(r) \/ WriteL1Actions(r) \/ WriteL1Calendar(r)
  BY <1>5 DEF WriteL1Equity, WriteL1Actions, WriteL1Calendar, WriteL1, Becomes, IInv, TypeOK
<1>6. CASE WriteL1Manifest(r) \/ WritePublishedMeta(r) \/ WritePipelineState(r)
  BY <1>6 DEF WriteL1Manifest, WritePublishedMeta, WritePipelineState, Becomes, IInv, TypeOK
<1>7. CASE Fault(r)
  BY <1>3, <1>7 DEF Fault, Die, DatasetRaises, Becomes, IInv, TypeOK
<1> QED
  BY <1>1, <1>2, <1>4, <1>5, <1>6, <1>7 DEF Step

\* A run that is not past its loop writes no L1 file.
LEMMA EarlyFiles ==
    ASSUME IInv, TypeOK', NEW r \in Run, Step(r) \/ Fault(r),
           proc[r].pc \notin AfterLoop, UNCHANGED l1
    PROVE  WriterPastLoop' /\ L1FailClosed'
BY MovesOneRun, FilesKept

\* A run that is past its loop keeps its frames and stays past its loop.
LEMMA LateFiles ==
    ASSUME IInv, NEW r \in Run, NEW p \in AfterLoop, NEW b \in BOOLEAN,
           \/ Becomes(r, [proc[r] EXCEPT !.pc = p])
           \/ Becomes(r, [proc[r] EXCEPT !.pc = p, !.pub = b]),
           \A v \in Version :
             Written(l1'["equity_eod"][v]) => UNCHANGED l1["equity_eod"][v]
    PROVE  WriterPastLoop' /\ L1FailClosed'
<1> DEFINE k == [proc[r] EXCEPT !.pc = p]
           l == [proc[r] EXCEPT !.pc = p, !.pub = b]
<1>1. proc[r] \in Local /\ p \in Phase
  BY Phases DEF IInv, TypeOK, AfterLoop
<1>2. k \in Local /\ l \in Local
  BY <1>1, LocalUpdates
<1>3. /\ k.pc = p /\ k.frame = proc[r].frame
      /\ l.pc = p /\ l.frame = proc[r].frame
  BY <1>1 DEF Local
<1>4. Becomes(r, k) \/ Becomes(r, l)
  OBVIOUS
<1> HIDE DEF k, l
<1> QED
  BY <1>2, <1>3, <1>4, FilesKept

\* Nor does tearing a file write one.
LEMMA TearTargetFiles ==
    ASSUME IInv, NEW r \in Run, TearTarget(r), NEW v \in Version,
           Written(l1'["equity_eod"][v])
    PROVE  UNCHANGED l1["equity_eod"][v]
<1>1. CASE UNCHANGED l1
  BY <1>1
<1>2. ASSUME NEW d \in RequiredForL1, l1' = [l1 EXCEPT ![d][proc[r].ver] = Torn]
      PROVE  UNCHANGED l1["equity_eod"][v]
  <2>1. l1 \in [RequiredForL1 -> [Version -> CleanFile \cup {None, Torn}]]
    BY DEF IInv, TypeOK
  <2>2. l1'["equity_eod"][v] = Torn \/ UNCHANGED l1["equity_eod"][v]
    BY <1>2, <2>1, Datasets
  <2> QED
    BY <2>2 DEF Written
<1> QED
  BY <1>1, <1>2 DEF TearTarget

LEMMA StepFiles ==
    ASSUME IInv, TypeOK', NEW r \in Run, Step(r)
    PROVE  WriterPastLoop' /\ L1FailClosed'
<1>1. CASE \/ StartWithoutEquity(r) \/ \E v \in Version : Start(r, v)
           \/ WriteRunMetadata(r) \/ GateL1(r)
  <2>1. proc[r].pc \in {"idle", "meta", "loop"} /\ UNCHANGED l1
    BY <1>1 DEF StartWithoutEquity, Start, MayStart, WriteRunMetadata, GateL1, cleanVars
  <2>2. proc[r].pc \notin AfterLoop
    BY <2>1 DEF AfterLoop, L1Phase
  <2> QED
    BY <2>1, <2>2, EarlyFiles
<1>2. CASE \E d \in Dataset : L0Step(r, d)
  <2>1. proc[r].pc \in {"loop", "copy", "copying", "sidecar", "clean", "record"} /\ UNCHANGED l1
    BY <1>2
         DEF L0Step, HashArtifact, Copying, BeginCopy, EndCopy, WriteSidecar, WriteL0,
             RecordManifest, cleanVars
  <2>2. proc[r].pc \notin AfterLoop
    BY <2>1 DEF AfterLoop, L1Phase
  <2> QED
    BY <2>1, <2>2, EarlyFiles
<1>3. CASE WriteL1Equity(r)
  BY <1>3, WriteL1EquityFiles
<1>4. CASE WriteL1Actions(r) \/ WriteL1Calendar(r)
  <2>1. PICK d \in {"corporate_actions", "trading_calendar"}, p \in L1Phase :
          /\ l1' = [l1 EXCEPT ![d][proc[r].ver] = L1File(r, d)]
          /\ Becomes(r, [proc[r] EXCEPT !.pc = p])
    BY <1>4, Phases DEF WriteL1Actions, WriteL1Calendar, WriteL1
  <2>2. \A v \in Version : UNCHANGED l1["equity_eod"][v]
    BY <2>1, Datasets DEF IInv, TypeOK
  <2> QED
    BY <2>1, <2>2, LateFiles DEF AfterLoop
<1>5. CASE WriteL1Manifest(r) \/ WritePublishedMeta(r) \/ WritePipelineState(r)
  <2>1. UNCHANGED l1
    BY <1>5 DEF WriteL1Manifest, WritePublishedMeta, WritePipelineState, cleanVars
  <2>2. {"l1_meta", "state", "done"} \subseteq AfterLoop
    BY DEF AfterLoop, L1Phase
  <2>3. \E p \in AfterLoop :
          \/ Becomes(r, [proc[r] EXCEPT !.pc = p])
          \/ Becomes(r, [proc[r] EXCEPT !.pc = p, !.pub = TRUE])
    BY <1>5, <2>2 DEF WriteL1Manifest, WritePublishedMeta, WritePipelineState
  <2> QED
    BY <2>1, <2>3, LateFiles
<1> QED
  BY <1>1, <1>2, <1>3, <1>4, <1>5 DEF Step

LEMMA FaultFiles ==
    ASSUME IInv, TypeOK', NEW r \in Run, Fault(r)
    PROVE  WriterPastLoop' /\ L1FailClosed'
<1>1. \A v \in Version :
        Written(l1'["equity_eod"][v]) => UNCHANGED l1["equity_eod"][v]
  BY TearTargetFiles DEF Fault, Die, DatasetRaises
<1>2. CASE Die(r)
  <2>1. "dead" \in AfterLoop /\ Becomes(r, [proc[r] EXCEPT !.pc = "dead"])
    BY <1>2 DEF AfterLoop, Die
  <2> QED
    BY <1>1, <2>1, LateFiles
<1>3. CASE \E d \in Dataset : DatasetRaises(r, d)
  <2>1. proc[r].pc \in {"loop", "copy", "copying", "sidecar", "clean", "record"}
    BY <1>3 DEF DatasetRaises
  <2>2. proc[r].pc \notin AfterLoop
    BY <2>1 DEF AfterLoop, L1Phase
  <2> QED
    BY <1>1, <2>2, MovesOneRun, FilesKept
<1> QED
  BY <1>2, <1>3 DEF Fault

LEMMA NextFiles == IInv /\ TypeOK' /\ [Next]_vars => WriterPastLoop' /\ L1FailClosed'
<1> SUFFICES ASSUME IInv, TypeOK', [Next]_vars PROVE WriterPastLoop' /\ L1FailClosed'
  OBVIOUS
<1>1. CASE (\E d \in Dataset, c \in Content : Drop(d, c)) \/ UNCHANGED vars
  <2>1. UNCHANGED <<l1, proc>>
    BY <1>1 DEF Drop, vars, cleanVars
  <2> QED
    BY <2>1 DEF IInv, WriterPastLoop, L1FailClosed
<1>2. CASE \E r \in Run : Step(r) \/ Fault(r)
  BY <1>2, StepFiles, FaultFiles
<1> QED
  BY <1>1, <1>2 DEF Next

-------------------------------------------------------------------------------
(* The theorems. *)

LEMMA InitIInv == Init => IInv
<1> SUFFICES ASSUME Init PROVE IInv
  OBVIOUS
<1>1. TypeOK
  BY InitType
<1>2. \A r \in Run :
        /\ proc[r].pc = "idle" /\ proc[r].todo = {} /\ proc[r].rows = None
        /\ \A d \in Dataset : proc[r].frame[d] = None
  BY DEF Init
<1>3. LocalsOK
  <2>1. "idle" \notin L1Phase
    BY DEF L1Phase
  <2> QED
    BY <1>2, <2>1 DEF LocalsOK, TodoListed, DigestKnown, RowsPassed, FramesPassed, GatePassed
<1>4. \A v \in Version : ~Written(l1["equity_eod"][v])
  BY Datasets DEF Init, Written
<1>5. WriterPastLoop /\ L1FailClosed
  BY <1>4 DEF WriterPastLoop, L1FailClosed
<1> QED
  BY <1>1, <1>3, <1>5 DEF IInv

LEMMA NextIInv == IInv /\ [Next]_vars => IInv'
BY NextType, NextLocals, NextFiles DEF IInv

\* The files and the local variables always have their types: digests, frames and
\* manifests are present whenever run_ingest uses them.
THEOREM TypeCorrect == Spec => []TypeOK
<1>1. IInv => TypeOK
  BY DEF IInv
<1> QED
  BY <1>1, InitIInv, NextIInv, PTL DEF Spec

\* No interleaving of runs, drops, exceptions and kills publishes an L1 equity
\* file that did not pass every check of run_ingest (pipeline.py:187-249).
THEOREM FailClosed == Spec => []L1FailClosed
<1>1. IInv => L1FailClosed
  BY DEF IInv
<1> QED
  BY <1>1, InitIInv, NextIInv, PTL DEF Spec

-------------------------------------------------------------------------------
(* What each action of run r does to r's own variables, field by field. *)

\* The variables only Start, RecordManifest and WritePublishedMeta assign.
Kept(r) ==
    /\ proc'[r].ver = proc[r].ver /\ proc'[r].allow = proc[r].allow
    /\ proc'[r].pre = proc[r].pre
    /\ proc'[r].frame = proc[r].frame /\ proc'[r].sha = proc[r].sha

\* The next dataset, whatever became of this one.
Leaves(r, d) ==
    /\ proc'[r].pc = "loop" /\ proc'[r].todo = proc[r].todo \ {d}

Stays(r) ==
    /\ proc'[r].todo = proc[r].todo

LEMMA StartEffect ==
    ASSUME TypeOK, NEW r \in Run, NEW v \in Version, Start(r, v)
    PROVE  /\ proc[r].pc = "idle" /\ "equity_eod" \in Present
           /\ proc'[r].pc = "meta" /\ proc'[r].ver = v /\ proc'[r].todo = Present
           /\ proc'[r].pre = incoming["equity_eod"]
           /\ proc'[r].allow = (RequiredForL0 \subseteq Present)
           /\ proc'[r].good = (RequiredForL0 \subseteq Present)
           /\ proc'[r].pub = proc[r].pub
           /\ proc'[r].frame = proc[r].frame /\ proc'[r].sha = proc[r].sha
           /\ UNCHANGED <<cleanVars, rawVars, metaVars, envVars>>
<1> DEFINE b == RequiredForL0 \subseteq Present
           l == [proc[r] EXCEPT !.pc = "meta", !.ver = v, !.todo = Present,
                                !.pre = incoming["equity_eod"],
                                !.allow = b, !.good = b]
<1>1. proc[r] \in Local /\ Becomes(r, l) /\ proc \in [Run -> Local]
  BY DEF Start, TypeOK
<1> HIDE DEF b
<1>2. /\ l.pc = "meta" /\ l.ver = v /\ l.todo = Present
      /\ l.pre = incoming["equity_eod"] /\ l.allow = b /\ l.good = b
      /\ l.pub = proc[r].pub /\ l.frame = proc[r].frame /\ l.sha = proc[r].sha
  BY <1>1 DEF Local
<1>3. proc'[r] = l
  BY <1>1 DEF Becomes
<1> HIDE DEF l
<1> QED
  BY <1>2, <1>3 DEF b, Start, MayStart

LEMMA SkipEffect ==
    ASSUME TypeOK, NEW r \in Run, NEW d \in Dataset, SkipDataset(r, d)
    PROVE  /\ Kept(r) /\ Leaves(r, d)
           /\ proc'[r].good = FALSE /\ proc'[r].pub = proc[r].pub
BY DEF SkipDataset, Becomes, TypeOK, Local, Kept, Leaves

LEMMA HashEffect ==
    ASSUME TypeOK, NEW r \in Run, NEW d \in Dataset, HashArtifact(r, d)
    PROVE  /\ proc[r].pc = "loop" /\ AtDataset(r, d) /\ Kept(r)
           /\ proc'[r].pub = proc[r].pub
           /\ UNCHANGED <<rawVars, cleanVars, metaVars, envVars>>
           /\ \/ /\ raw[d][incoming[d]] = None /\ Stays(r)
                 /\ proc'[r].pc = "copy" /\ proc'[r].digest = incoming[d]
                 /\ proc'[r].good = proc[r].good
              \/ /\ raw[d][incoming[d]] = incoming[d] /\ Stays(r)
                 /\ proc'[r].pc = "sidecar" /\ proc'[r].digest = incoming[d]
                 /\ proc'[r].good = proc[r].good
              \/ /\ raw[d][incoming[d]] \notin {None, incoming[d]}
                 /\ Leaves(r, d) /\ proc'[r].good = FALSE
<1>1. /\ proc[r].pc = "loop" /\ AtDataset(r, d)
      /\ UNCHANGED <<rawVars, cleanVars, metaVars, envVars>>
  BY DEF HashArtifact
<1>2. ASSUME NEW p, Becomes(r, [proc[r] EXCEPT !.pc = p, !.digest = incoming[d]])
      PROVE  /\ Kept(r) /\ Stays(r) /\ proc'[r].pub = proc[r].pub
             /\ proc'[r].pc = p /\ proc'[r].digest = incoming[d]
             /\ proc'[r].good = proc[r].good
  BY <1>2 DEF Becomes, TypeOK, Local, Kept, Stays
<1>3. CASE raw[d][incoming[d]] \notin {None, incoming[d]} /\ SkipDataset(r, d)
  BY <1>1, <1>3, SkipEffect
<1> QED
  BY <1>1, <1>2, <1>3 DEF HashArtifact

LEMMA CopyEffect ==
    ASSUME TypeOK, NEW r \in Run, NEW d \in Dataset, Copying(r, d)
    PROVE  /\ AtDataset(r, d) /\ Kept(r) /\ Stays(r)
           /\ proc'[r].digest = proc[r].digest
           /\ proc'[r].good = proc[r].good /\ proc'[r].pub = proc[r].pub
           /\ UNCHANGED <<cleanVars, metaVars, envVars>>
           /\ \/ /\ proc[r].pc = "copy" /\ proc'[r].pc = "copying"
                 /\ raw' = [raw EXCEPT ![d][proc[r].digest] = Torn]
                 /\ UNCHANGED sidecar
              \/ /\ proc[r].pc = "copying" /\ proc'[r].pc = "sidecar"
                 /\ raw' = [raw EXCEPT ![d][proc[r].digest] = incoming[d]]
                 /\ UNCHANGED sidecar
              \/ /\ proc[r].pc = "sidecar" /\ proc'[r].pc = "clean"
                 /\ sidecar' = [sidecar EXCEPT ![d][proc[r].digest] = r]
                 /\ UNCHANGED raw
BY DEF Copying, BeginCopy, EndCopy, WriteSidecar, Becomes, TypeOK, Local, Kept, Stays

LEMMA WriteL0Effect ==
    ASSUME TypeOK, NEW r \in Run, NEW d \in Dataset, WriteL0(r, d)
    PROVE  /\ proc[r].pc = "clean" /\ AtDataset(r, d) /\ Kept(r) /\ Stays(r)
           /\ proc'[r].pc = "record" /\ proc'[r].digest = proc[r].digest
           /\ proc'[r].good = proc[r].good /\ proc'[r].pub = proc[r].pub
           /\ proc'[r].ok = ReportOk(r, d)
           /\ UNCHANGED <<l1, rawVars, metaVars, envVars>>
           /\ \/ /\ ReportOk(r, d) /\ proc[r].allow
                 /\ proc'[r].rows = Parsed(r, d)
                 /\ l0' = [l0 EXCEPT ![d][proc[r].ver] = L0File(r, d)]
              \/ /\ ~(ReportOk(r, d) /\ proc[r].allow)
                 /\ proc'[r].rows = None /\ UNCHANGED l0
<1> DEFINE ok == ReportOk(r, d)
           rows == Parsed(r, d)
<1>1. ASSUME NEW b, NEW c, Becomes(r, [proc[r] EXCEPT !.pc = "record", !.ok = b, !.rows = c])
      PROVE  /\ Kept(r) /\ Stays(r) /\ proc'[r].pc = "record"
             /\ proc'[r].digest = proc[r].digest /\ proc'[r].ok = b /\ proc'[r].rows = c
             /\ proc'[r].good = proc[r].good /\ proc'[r].pub = proc[r].pub
  BY <1>1 DEF Becomes, TypeOK, Local, Kept, Stays
<1>2. ok \in BOOLEAN
  BY DEF ReportOk, ChecksumOk
<1>3. CASE ok /\ proc[r].allow
  <2>1. /\ l0' = [l0 EXCEPT ![d][proc[r].ver] = L0File(r, d)]
        /\ Becomes(r, [proc[r] EXCEPT !.pc = "record", !.ok = TRUE, !.rows = rows])
    BY <1>3 DEF WriteL0
  <2> HIDE DEF ok, rows
  <2> QED
    BY <1>1, <1>2, <1>3, <2>1 DEF WriteL0, ok, rows
<1>4. CASE ~(ok /\ proc[r].allow)
  <2>1. UNCHANGED l0 /\ Becomes(r, [proc[r] EXCEPT !.pc = "record", !.ok = ok, !.rows = None])
    BY <1>4 DEF WriteL0
  <2> HIDE DEF ok, rows
  <2> QED
    BY <1>1, <1>2, <1>4, <2>1 DEF WriteL0, ok, rows
<1> QED
  BY <1>3, <1>4

LEMMA RecordEffect ==
    ASSUME TypeOK, NEW r \in Run, NEW d \in Dataset, RecordManifest(r, d)
    PROVE  /\ proc[r].pc = "record" /\ AtDataset(r, d) /\ Leaves(r, d)
           /\ proc'[r].ver = proc[r].ver /\ proc'[r].allow = proc[r].allow
           /\ proc'[r].pre = proc[r].pre /\ proc'[r].pub = proc[r].pub
           /\ proc'[r].frame = [proc[r].frame EXCEPT ![d] = proc[r].rows]
           /\ proc'[r].sha = [proc[r].sha EXCEPT ![d] = proc[r].digest]
           /\ proc'[r].good = (proc[r].good /\ proc[r].ok)
           /\ manifest' = [manifest EXCEPT ![d][proc[r].ver] =
                             [sha |-> proc[r].digest, ok |-> proc[r].ok,
                              clean |-> proc[r].rows # None, by |-> r]]
           /\ UNCHANGED <<cleanVars, rawVars, meta, runMeta, pstate, envVars>>
<1> DEFINE good == proc[r].good /\ proc[r].ok
           l == [proc[r] EXCEPT !.pc = "loop", !.todo = @ \ {d},
                                !.frame[d] = proc[r].rows,
                                !.sha[d] = proc[r].digest,
                                !.good = good]
<1>1. proc[r] \in Local /\ Becomes(r, l) /\ proc \in [Run -> Local]
  BY DEF RecordManifest, TypeOK
<1> HIDE DEF good
<1>2. /\ l.pc = "loop" /\ l.todo = proc[r].todo \ {d} /\ l.ver = proc[r].ver
      /\ l.allow = proc[r].allow /\ l.pre = proc[r].pre /\ l.pub = proc[r].pub
      /\ l.frame = [proc[r].frame EXCEPT ![d] = proc[r].rows]
      /\ l.sha = [proc[r].sha EXCEPT ![d] = proc[r].digest] /\ l.good = good
  BY <1>1 DEF Local
<1>3. proc'[r] = l
  BY <1>1 DEF Becomes
<1> HIDE DEF l
<1> QED
  BY <1>2, <1>3 DEF good, RecordManifest, Leaves

\* The other steps move the run to another phase and change little else.
PhaseEffect(r) ==
    /\ Kept(r) /\ Stays(r)
    /\ proc'[r].digest = proc[r].digest /\ proc'[r].rows = proc[r].rows
    /\ proc'[r].ok = proc[r].ok

LEMMA GateEffect ==
    ASSUME TypeOK, NEW r \in Run, GateL1(r)
    PROVE  /\ proc[r].pc = "loop" /\ proc[r].todo = {} /\ PhaseEffect(r)
           /\ proc'[r].pub = proc[r].pub
           /\ UNCHANGED <<cleanVars, rawVars, metaVars, envVars>>
           /\ \/ /\ HasL1Frames(r) /\ ~SessionGap(r)
                 /\ proc'[r].pc = "l1_equity" /\ proc'[r].good = proc[r].good
              \/ /\ ~(HasL1Frames(r) /\ ~SessionGap(r))
                 /\ proc'[r].pc = "state" /\ proc'[r].good = FALSE
<1>1. CASE HasL1Frames(r) /\ ~SessionGap(r)
  BY <1>1 DEF GateL1, Becomes, TypeOK, Local, PhaseEffect, Kept, Stays
<1>2. CASE ~(HasL1Frames(r) /\ ~SessionGap(r))
  <2>1. Becomes(r, [proc[r] EXCEPT !.pc = "state", !.good = FALSE])
    BY <1>2 DEF GateL1
  <2>2. /\ PhaseEffect(r) /\ proc'[r].pub = proc[r].pub
        /\ proc'[r].pc = "state" /\ proc'[r].good = FALSE
    BY <2>1 DEF Becomes, TypeOK, Local, PhaseEffect, Kept, Stays
  <2> QED
    BY <1>2, <2>2 DEF GateL1
<1> QED
  BY <1>1, <1>2

LEMMA WriteL1Effect ==
    ASSUME TypeOK, NEW r \in Run, NEW d, NEW from, NEW to, WriteL1(r, d, from, to)
    PROVE  /\ proc[r].pc = from /\ PhaseEffect(r) /\ proc'[r].pc = to
           /\ proc'[r].good = proc[r].good /\ proc'[r].pub = proc[r].pub
           /\ l1' = [l1 EXCEPT ![d][proc[r].ver] = L1File(r, d)]
           /\ UNCHANGED <<l0, rawVars, metaVars, envVars>>
BY DEF WriteL1, Becomes, TypeOK, Local, PhaseEffect, Kept, Stays

LEMMA PcEffect ==
    ASSUME TypeOK, NEW r \in Run, NEW p, Becomes(r, [proc[r] EXCEPT !.pc = p])
    PROVE  /\ PhaseEffect(r) /\ proc'[r].pc = p
           /\ proc'[r].good = proc[r].good /\ proc'[r].pub = proc[r].pub
BY DEF Becomes, TypeOK, Local, PhaseEffect, Kept, Stays

LEMMA PublishedMetaEffect ==
    ASSUME TypeOK, NEW r \in Run, WritePublishedMeta(r)
    PROVE  /\ PhaseEffect(r) /\ proc[r].pc = "l1_meta" /\ proc'[r].pc = "state"
           /\ proc'[r].good = proc[r].good /\ proc'[r].pub = TRUE
BY DEF WritePublishedMeta, Becomes, TypeOK, Local, PhaseEffect, Kept, Stays

\* A step that does nothing to the local variables of r but this.
Moves(r, p) ==
    /\ PhaseEffect(r) /\ proc'[r].pc = p
    /\ proc'[r].good = proc[r].good /\ proc'[r].pub = proc[r].pub

LEMMA MoveEffects ==
    ASSUME TypeOK, NEW r \in Run
    PROVE  /\ StartWithoutEquity(r) => proc[r].pc = "idle" /\ Moves(r, "done")
           /\ WriteRunMetadata(r) => proc[r].pc = "meta" /\ Moves(r, "loop")
           /\ WriteL1Manifest(r) => proc[r].pc = "l1_manifest" /\ Moves(r, "l1_meta")
           /\ WritePipelineState(r) => proc[r].pc = "state" /\ Moves(r, "done")
           /\ Die(r) => Active(r) /\ Moves(r, "dead")
<1>1. StartWithoutEquity(r) => proc[r].pc = "idle" /\ Moves(r, "done")
  BY PcEffect DEF StartWithoutEquity, MayStart, Moves
<1>2. WriteRunMetadata(r) => proc[r].pc = "meta" /\ Moves(r, "loop")
  BY PcEffect DEF WriteRunMetadata, Moves
<1>3. WriteL1Manifest(r) => proc[r].pc = "l1_manifest" /\ Moves(r, "l1_meta")
  BY PcEffect DEF WriteL1Manifest, Moves
<1>4. WritePipelineState(r) => proc[r].pc = "state" /\ Moves(r, "done")
  BY PcEffect DEF WritePipelineState, Moves
<1>5. Die(r) => Active(r) /\ Moves(r, "dead")
  BY PcEffect DEF Die, Moves
<1> QED
  BY <1>1, <1>2, <1>3, <1>4, <1>5

-------------------------------------------------------------------------------
(* What a step can do to the files. *)

\* A step writes a whole clean file only where these actions do.
LEMMA FileChanges ==
    ASSUME TypeOK, NEW r \in Run, Step(r) \/ Fault(r)
    PROVE  /\ \A d \in Dataset, v \in Version :
                \/ l0'[d][v] = l0[d][v] \/ l0'[d][v] = Torn
                \/ /\ WriteL0(r, d) /\ ReportOk(r, d) /\ v = proc[r].ver
                   /\ l0'[d][v] = L0File(r, d)
           /\ \A d \in RequiredForL1, v \in Version :
                \/ l1'[d][v] = l1[d][v] \/ l1'[d][v] = Torn
                \/ /\ proc[r].pc \in L1Phase /\ v = proc[r].ver
                   /\ proc'[r].pc \in L1Phase /\ PhaseEffect(r)
                   /\ l1'[d][v] = L1File(r, d)
<1>1. /\ l0 \in [Dataset -> [Version -> CleanFile \cup {None, Torn}]]
      /\ l1 \in [RequiredForL1 -> [Version -> CleanFile \cup {None, Torn}]]
  BY DEF TypeOK
<1>2. CASE UNCHANGED cleanVars
  BY <1>2 DEF cleanVars
<1>3. CASE Fault(r)
  <2>1. TearTarget(r)
    BY <1>3 DEF Fault, Die, DatasetRaises
  <2> QED
    BY <1>1, <2>1 DEF TearTarget
<1>4. ASSUME NEW e \in Dataset, WriteL0(r, e)
      PROVE  /\ \A d \in Dataset, v \in Version :
                  \/ l0'[d][v] = l0[d][v]
                  \/ /\ WriteL0(r, d) /\ ReportOk(r, d) /\ v = proc[r].ver
                     /\ l0'[d][v] = L0File(r, d)
             /\ UNCHANGED l1
  <2>1. /\ UNCHANGED l1
        /\ \/ UNCHANGED l0
           \/ ReportOk(r, e) /\ l0' = [l0 EXCEPT ![e][proc[r].ver] = L0File(r, e)]
    BY <1>4, WriteL0Effect
  <2> QED
    BY <1>1, <1>4, <2>1
<1>5. ASSUME NEW e \in RequiredForL1, NEW p \in L1Phase, NEW q \in L1Phase,
             WriteL1(r, e, p, q)
      PROVE  /\ \A d \in RequiredForL1, v \in Version :
                  \/ l1'[d][v] = l1[d][v]
                  \/ /\ proc[r].pc \in L1Phase /\ v = proc[r].ver
                     /\ proc'[r].pc \in L1Phase /\ PhaseEffect(r)
                     /\ l1'[d][v] = L1File(r, d)
             /\ UNCHANGED l0
  BY <1>1, <1>5, WriteL1Effect
<1>6. CASE WriteL1Equity(r) \/ WriteL1Actions(r) \/ WriteL1Calendar(r)
  <2>1. \E e \in RequiredForL1, p, q \in L1Phase : WriteL1(r, e, p, q)
    BY <1>6, Phases, Datasets DEF WriteL1Equity, WriteL1Actions, WriteL1Calendar
  <2> QED
    BY <1>5, <2>1
<1>7. CASE \/ StartWithoutEquity(r) \/ \E v \in Version : Start(r, v)
           \/ WriteRunMetadata(r) \/ GateL1(r)
           \/ WriteL1Manifest(r) \/ WritePublishedMeta(r) \/ WritePipelineState(r)
  BY <1>2, <1>7 DEF StartWithoutEquity, Start, WriteRunMetadata, GateL1,
                    WriteL1Manifest, WritePublishedMeta, WritePipelineState
<1>8. ASSUME NEW e \in Dataset, L0Step(r, e), ~WriteL0(r, e)
      PROVE  UNCHANGED cleanVars
  BY <1>8
       DEF L0Step, HashArtifact, Copying, BeginCopy, EndCopy, WriteSidecar,
           RecordManifest
<1> QED
  BY <1>2, <1>3, <1>4, <1>6, <1>7, <1>8 DEF Step, L0Step

\* The raw store changes only under the path that a run is copying to.
LEMMA RawChanges ==
    ASSUME TypeOK, NEW r \in Run, Step(r) \/ Fault(r),
           NEW d \in Dataset, NEW c \in Content, raw'[d][c] # raw[d][c]
    PROVE  proc[r].pc \in {"copy", "copying"} /\ AtDataset(r, d) /\ c = proc[r].digest
<1>1. raw \in [Dataset -> [Content -> Content \cup {None, Torn}]]
  BY DEF TypeOK
<1>2. raw' # raw
  OBVIOUS
<1>3. CASE Fault(r)
  BY <1>2, <1>3 DEF Fault, Die, DatasetRaises, rawVars
<1>4. CASE Step(r)
  <2>1. ~ (\/ StartWithoutEquity(r) \/ \E v \in Version : Start(r, v)
           \/ WriteRunMetadata(r) \/ GateL1(r)
           \/ WriteL1Equity(r) \/ WriteL1Actions(r) \/ WriteL1Calendar(r)
           \/ WriteL1Manifest(r) \/ WritePublishedMeta(r) \/ WritePipelineState(r))
    BY <1>2 DEF StartWithoutEquity, Start, WriteRunMetadata, GateL1, rawVars,
                WriteL1Equity, WriteL1Actions, WriteL1Calendar, WriteL1,
                WriteL1Manifest, WritePublishedMeta, WritePipelineState
  <2>2. PICK e \in Dataset : L0Step(r, e)
    BY <1>4, <2>1 DEF Step
  <2>3. Copying(r, e)
    BY <1>2, <2>2 DEF L0Step, Copying, HashArtifact, WriteL0, RecordManifest, rawVars
  <2> QED
    BY <1>1, <2>3 DEF Copying, BeginCopy, EndCopy, WriteSidecar
<1> QED
  BY <1>3, <1>4

\* Sidecars and RunMetadata documents are never removed.
LEMMA MetadataGrows ==
    ASSUME TypeOK, NEW r \in Run, Step(r) \/ Fault(r)
    PROVE  /\ runMeta \subseteq runMeta'
           /\ \A d \in Dataset, c \in Content :
                sidecar[d][c] # None => sidecar'[d][c] # None
<1>1. sidecar \in [Dataset -> [Content -> Run \cup {None}]] /\ None \notin Run
  BY IngestAssumption DEF TypeOK
<1>2. CASE Fault(r)
  BY <1>2 DEF Fault, Die, DatasetRaises, rawVars, metaVars
<1>3. CASE WriteRunMetadata(r)
  BY <1>3 DEF WriteRunMetadata, rawVars
<1>4. CASE \/ StartWithoutEquity(r) \/ \E v \in Version : Start(r, v)
           \/ GateL1(r) \/ WriteL1Equity(r) \/ WriteL1Actions(r)
           \/ WriteL1Calendar(r)
           \/ WriteL1Manifest(r) \/ WritePublishedMeta(r) \/ WritePipelineState(r)
  BY <1>4 DEF StartWithoutEquity, Start, GateL1, rawVars, metaVars,
              WriteL1Equity, WriteL1Actions, WriteL1Calendar, WriteL1,
              WriteL1Manifest, WritePublishedMeta, WritePipelineState
<1>5. ASSUME NEW e \in Dataset, L0Step(r, e)
      PROVE  /\ runMeta' = runMeta
             /\ \A d \in Dataset, c \in Content :
                  sidecar[d][c] # None => sidecar'[d][c] # None
  <2>1. runMeta' = runMeta
    BY <1>5
         DEF L0Step, HashArtifact, Copying, BeginCopy, EndCopy, WriteSidecar, WriteL0,
             RecordManifest, metaVars
  <2>2. \/ UNCHANGED sidecar
        \/ sidecar' = [sidecar EXCEPT ![e][incoming[e]] = r]
        \/ sidecar' = [sidecar EXCEPT ![e][proc[r].digest] = r]
    BY <1>5
         DEF L0Step, HashArtifact, Copying, BeginCopy, EndCopy, WriteSidecar, WriteL0,
             RecordManifest, rawVars
  <2> SUFFICES ASSUME NEW d \in Dataset, NEW c \in Content, sidecar[d][c] # None
               PROVE  sidecar'[d][c] # None
    BY <2>1
  <2>3. ASSUME NEW k, sidecar' = [sidecar EXCEPT ![e][k] = r]
        PROVE  sidecar'[d][c] # None
    BY <1>1, <2>3
  <2>4. CASE UNCHANGED sidecar
    BY <2>4
  <2> QED
    BY <2>2, <2>3, <2>4
<1> QED
  BY <1>2, <1>3, <1>4, <1>5 DEF Step

\* Runs leave data/incoming/ alone, and a step is not a fault.
LEMMA StepEnvironment ==
    ASSUME NEW r \in Run, Step(r)
    PROVE  UNCHANGED envVars
<1>1. ASSUME NEW d \in Dataset, L0Step(r, d) PROVE UNCHANGED envVars
  BY <1>1
       DEF L0Step, HashArtifact, Copying, BeginCopy, EndCopy, WriteSidecar, WriteL0,
           RecordManifest
<1>2. CASE StartWithoutEquity(r) \/ \E v \in Version : Start(r, v)
  BY <1>2 DEF StartWithoutEquity, Start
<1>3. CASE \/ WriteRunMetadata(r) \/ GateL1(r) \/ WriteL1Manifest(r)
           \/ WritePublishedMeta(r) \/ WritePipelineState(r)
  BY <1>3 DEF WriteRunMetadata, GateL1, WriteL1Manifest, WritePublishedMeta,
              WritePipelineState
<1>4. CASE WriteL1Equity(r) \/ WriteL1Actions(r) \/ WriteL1Calendar(r)
  BY <1>4 DEF WriteL1Equity, WriteL1Actions, WriteL1Calendar, WriteL1
<1> QED
  BY <1>1, <1>2, <1>3, <1>4 DEF Step

-------------------------------------------------------------------------------
(* Runs that follow one another. *)

OneAtATime == \A r, q \in Run : (Active(r) /\ Active(q)) => r = q

\* The path a run is about to copy to is still free, and is not whole before the
\* copy ends.
CopyTargetFree ==
    \A r \in Run, d \in Dataset :
        AtDataset(r, d) =>
            /\ proc[r].pc = "copy" => raw[d][proc[r].digest] = None
            /\ proc[r].pc = "copying" => raw[d][proc[r].digest] = Torn

LEMMA OthersKept ==
    ASSUME IInv, TypeOK', NEW r \in Run, Step(r) \/ Fault(r)
    PROVE  \A q \in Run \ {r} : proc'[q] = proc[q]
BY MovesOneRun, BecomesType DEF IInv, TypeOK

\* A run that is doing something is in one of the steps of its command.
LEMMA ActiveSteps ==
    ASSUME TypeOK, NEW r \in Run, Step(r) \/ Fault(r)
    PROVE  Active(r) \/ MayStart(r)
<1>1. \/ MayStart(r)
      \/ proc[r].pc \in {"meta", "loop", "copy", "copying", "sidecar", "clean", "record", "l1_equity",
                         "l1_actions", "l1_calendar", "l1_manifest", "l1_meta", "state"}
      \/ Active(r)
  BY DEF Step, Fault, StartWithoutEquity, Start, WriteRunMetadata, L0Step, HashArtifact,
         Copying, BeginCopy, EndCopy, WriteSidecar, WriteL0, RecordManifest, GateL1,
         WriteL1Equity, WriteL1Actions,
         WriteL1Calendar, WriteL1, WriteL1Manifest, WritePublishedMeta,
         WritePipelineState, Die, DatasetRaises
<1> QED
  BY <1>1 DEF Active

\* While a run takes a step the others are not started, finished or dead.
LEMMA Alone ==
    ASSUME IInv, TypeOK', ~Overlap, OneAtATime, NEW r \in Run, Step(r) \/ Fault(r)
    PROVE  /\ OneAtATime'
           /\ \A q \in Run \ {r} : proc'[q] = proc[q] /\ ~Active(q)
<1>1. \A q \in Run \ {r} : proc'[q] = proc[q]
  BY OthersKept
<1>2. \A q \in Run \ {r} : ~Active(q)
  BY ActiveSteps DEF MayStart, OneAtATime, IInv
<1>3. \A q \in Run \ {r} : ~Active(q)'
  BY <1>1, <1>2 DEF Active
<1> QED
  BY <1>1, <1>2, <1>3 DEF OneAtATime

\* The look is the only way to a copy, and its begin the only way into it.
LEMMA OnlyHashLeadsToCopy ==
    ASSUME TypeOK, NEW r \in Run, Step(r) \/ Fault(r), proc'[r].pc \in {"copy", "copying"}
    PROVE  \E d \in Dataset :
              \/ (HashArtifact(r, d) /\ proc'[r].pc = "copy")
              \/ (BeginCopy(r, d) /\ proc'[r].pc = "copying")
<1>1. ~Fault(r)
  BY MoveEffects, SkipEffect DEF Fault, Moves, DatasetRaises, Leaves
<1>2. ~ (\/ StartWithoutEquity(r) \/ WriteRunMetadata(r)
         \/ WriteL1Manifest(r) \/ WritePipelineState(r))
  BY MoveEffects DEF Moves
<1>3. ~ (\/ \E v \in Version : Start(r, v)
         \/ GateL1(r) \/ WritePublishedMeta(r))
  BY StartEffect, GateEffect, PublishedMetaEffect
<1>4. ~ (WriteL1Equity(r) \/ WriteL1Actions(r) \/ WriteL1Calendar(r))
  BY WriteL1Effect DEF WriteL1Equity, WriteL1Actions, WriteL1Calendar
<1>5. PICK d \in Dataset : L0Step(r, d)
  BY <1>1, <1>2, <1>3, <1>4 DEF Step
<1>6. ~ (EndCopy(r, d) \/ WriteSidecar(r, d) \/ WriteL0(r, d) \/ RecordManifest(r, d))
  <2>1. ~ (EndCopy(r, d) \/ WriteSidecar(r, d))
    BY DEF EndCopy, WriteSidecar, Becomes, TypeOK, Local
  <2> QED
    BY <2>1, WriteL0Effect, RecordEffect DEF Leaves
<1>7. BeginCopy(r, d) => proc'[r].pc = "copying"
  BY DEF BeginCopy, Becomes, TypeOK, Local
<1>8. HashArtifact(r, d) => proc'[r].pc # "copying"
  BY HashEffect DEF Leaves
<1> QED
  BY <1>5, <1>6, <1>7, <1>8 DEF L0Step

LEMMA NextCopyTarget ==
    ASSUME IInv, TypeOK', ~Overlap, OneAtATime, CopyTargetFree,
           NEW r \in Run, Step(r) \/ Fault(r)
    PROVE  CopyTargetFree'
<1> SUFFICES ASSUME NEW q \in Run, NEW d \in Dataset, proc'[q].pc \in {"copy", "copying"},
                    AtDataset(q, d)'
             PROVE  /\ (proc'[q].pc = "copy" => raw'[d][proc'[q].digest] = None)
                    /\ (proc'[q].pc = "copying" => raw'[d][proc'[q].digest] = Torn)
  BY DEF CopyTargetFree
<1>1. q = r
  BY Alone DEF Active
<1>2. PICK e \in Dataset : \/ (HashArtifact(r, e) /\ proc'[r].pc = "copy")
                          \/ (BeginCopy(r, e) /\ proc'[r].pc = "copying")
  BY <1>1, OnlyHashLeadsToCopy DEF IInv
<1>3. CASE HashArtifact(r, e) /\ proc'[r].pc = "copy"
  <2>1. /\ AtDataset(r, e) /\ raw[e][incoming[e]] = None /\ UNCHANGED raw
        /\ proc'[r].todo = proc[r].todo /\ proc'[r].digest = incoming[e]
    BY <1>3, HashEffect DEF IInv, Stays, Leaves, rawVars
  <2>2. d = e
    BY <1>1, <2>1, OneDatasetAtATime DEF AtDataset, IInv
  <2> QED
    BY <1>1, <1>3, <2>1, <2>2
<1>4. CASE BeginCopy(r, e) /\ proc'[r].pc = "copying"
  <2>1. /\ AtDataset(r, e) /\ proc[r].digest \in Content
        /\ proc'[r].todo = proc[r].todo /\ proc'[r].digest = proc[r].digest
        /\ raw' = [raw EXCEPT ![e][proc[r].digest] = Torn]
    BY <1>4, CopyEffect, AtDatasetFacts DEF Copying, BeginCopy, IInv, LocalsOK, Stays
  <2>2. d = e
    BY <1>1, <2>1, OneDatasetAtATime DEF AtDataset, IInv
  <2>3. raw'[e][proc[r].digest] = Torn
    BY <2>1 DEF IInv, TypeOK
  <2> QED
    BY <1>1, <1>4, <2>1, <2>2, <2>3
<1> QED
  BY <1>2, <1>3, <1>4

\* Only the end of a copy changes what is under a path already.
EndsCopy(d, c) ==
    /\ raw[d][c] = Torn
    /\ \E r \in Run : proc[r].pc = "copying" /\ AtDataset(r, d) /\ proc[r].digest = c

LEMMA NextRawImmutable ==
    ASSUME TypeOK, CopyTargetFree, [Next]_vars
    PROVE  \A d \in Dataset, c \in Content :
              raw[d][c] \notin {None, raw'[d][c]} => EndsCopy(d, c)
<1>1. CASE (\E d \in Dataset, c \in Content : Drop(d, c)) \/ UNCHANGED vars
  BY <1>1 DEF Drop, vars, rawVars
<1>2. ASSUME NEW r \in Run, Step(r) \/ Fault(r),
             NEW d \in Dataset, NEW c \in Content, raw[d][c] \notin {None, raw'[d][c]}
      PROVE  EndsCopy(d, c)
  <2>1. proc[r].pc \in {"copy", "copying"} /\ AtDataset(r, d) /\ c = proc[r].digest
    BY <1>2, RawChanges
  <2>2. proc[r].pc = "copying" /\ raw[d][c] = Torn
    BY <1>2, <2>1 DEF CopyTargetFree
  <2> QED
    BY <2>1, <2>2 DEF EndsCopy
<1> QED
  BY <1>1, <1>2 DEF Next

-------------------------------------------------------------------------------
(* The lineage of the clean files. *)

\* The raw store holds the bytes of digest c, and a sidecar describes them.
Archived(d, c) == raw[d][c] = c /\ sidecar[d][c] # None

RunRecorded(r) ==
    proc[r].pc \in L1Phase \cup {"loop", "copy", "copying", "sidecar", "clean", "record", "state"} => r \in runMeta

\* What a run knows of the raw store: the sidecar of the dataset being done is
\* there, the rows of the clean file just written were parsed from the archived
\* bytes, and so was every frame kept for L1.
SidecarWritten(r, d) ==
    (proc[r].pc \in {"clean", "record"} /\ AtDataset(r, d)) =>
        sidecar[d][proc[r].digest] # None

RowsArchived(r, d) ==
    (proc[r].pc = "record" /\ AtDataset(r, d) /\ proc[r].rows # None) =>
        proc[r].rows = proc[r].digest /\ Archived(d, proc[r].digest)

FrameArchived(r, d) ==
    proc[r].frame[d] # None =>
        proc[r].frame[d] = proc[r].sha[d] /\ Archived(d, proc[r].sha[d])

\* The datasets whose rows are parsed from the raw copy.
ParsedFromRaw == Dataset \ {"equity_eod"}

RunLineage(r) ==
    /\ RunRecorded(r)
    /\ \A d \in Dataset : SidecarWritten(r, d)
    /\ \A d \in ParsedFromRaw : RowsArchived(r, d) /\ FrameArchived(r, d)

Lineage == \A r \in Run : RunLineage(r)

\* What a step may do to the raw store and its metadata.
ArchiveGrows ==
    /\ runMeta \subseteq runMeta'
    /\ \A d \in Dataset, c \in Content :
         /\ raw[d][c] \notin {None, Torn} => raw'[d][c] = raw[d][c]
         /\ sidecar[d][c] # None => sidecar'[d][c] # None

LEMMA StepArchive ==
    ASSUME TypeOK, CopyTargetFree, NEW r \in Run, Step(r) \/ Fault(r)
    PROVE  ArchiveGrows
BY MetadataGrows, RawChanges DEF ArchiveGrows, CopyTargetFree

\* What is archived stays archived.
LEMMA StaysArchived ==
    ASSUME ArchiveGrows, NEW d \in Dataset, NEW c \in Content, Archived(d, c)
    PROVE  Archived(d, c)'
<1>1. c \notin {None, Torn}
  BY IngestAssumption
<1> QED
  BY <1>1 DEF ArchiveGrows, Archived

LEMMA StaysFromRaw ==
    ASSUME ArchiveGrows, NEW d \in Dataset, NEW f \in CleanFile, FromRaw(d, f)
    PROVE  /\ f.sha = f.rows /\ raw'[d][f.sha] = f.rows
           /\ sidecar'[d][f.sha] # None /\ f.by \in runMeta'
<1>1. f.sha \in Content /\ f.rows \in Content /\ f.rows \notin {None, Torn}
  BY IngestAssumption DEF CleanFile
<1> QED
  BY <1>1 DEF ArchiveGrows, FromRaw

\* The frames of a run that keeps them stay archived.
LEMMA FramesStayArchived ==
    ASSUME IInv, ArchiveGrows, NEW r \in Run, RunLineage(r),
           proc'[r].frame = proc[r].frame, proc'[r].sha = proc[r].sha
    PROVE  \A d \in ParsedFromRaw : FrameArchived(r, d)'
<1> SUFFICES ASSUME NEW d \in ParsedFromRaw, proc[r].frame[d] # None
             PROVE  /\ proc[r].frame[d] = proc[r].sha[d]
                    /\ raw'[d][proc[r].sha[d]] = proc[r].sha[d]
                    /\ sidecar'[d][proc[r].sha[d]] # None
  BY DEF FrameArchived, Archived
<1>1. d \in Dataset /\ proc[r].sha[d] \in Content
  BY DEF IInv, LocalsOK, FramesPassed, ParsedFromRaw
<1>2. proc[r].frame[d] = proc[r].sha[d] /\ Archived(d, proc[r].sha[d])
  BY DEF RunLineage, FrameArchived
<1> QED
  BY <1>1, <1>2, StaysArchived DEF Archived

\* A step to a phase that is not in the middle of a dataset.
LEMMA QuietLineage ==
    ASSUME IInv, ArchiveGrows, NEW r \in Run, RunLineage(r),
           proc'[r].frame = proc[r].frame, proc'[r].sha = proc[r].sha,
           proc'[r].pc \notin {"clean", "record"}, RunRecorded(r)'
    PROVE  RunLineage(r)'
BY FramesStayArchived DEF RunLineage, SidecarWritten, RowsArchived, ParsedFromRaw

\* The other runs are not in the middle of anything.
LEMMA OtherLineage ==
    ASSUME IInv, ArchiveGrows, NEW r \in Run, RunLineage(r), ~Active(r),
           proc'[r] = proc[r]
    PROVE  RunLineage(r)'
<1>1. proc'[r].pc \notin {"clean", "record"} /\ RunRecorded(r)'
  BY DEF Active, RunRecorded, L1Phase
<1> QED
  BY <1>1, QuietLineage

LEMMA HashLineage ==
    ASSUME IInv, ArchiveGrows, NEW r \in Run, NEW d \in Dataset, RunLineage(r),
           HashArtifact(r, d)
    PROVE  RunLineage(r)'
<1>1. /\ TypeOK /\ AtDataset(r, d) /\ Kept(r)
      /\ proc[r].pc = "loop" /\ proc'[r].pc \in {"loop", "copy", "sidecar"}
  BY HashEffect DEF IInv, Leaves
<1>2. RunRecorded(r)'
  BY <1>1 DEF RunLineage, RunRecorded, ArchiveGrows
<1> QED
  BY <1>1, <1>2, QuietLineage DEF Kept

LEMMA CopyLineage ==
    ASSUME IInv, ArchiveGrows, NEW r \in Run, NEW d \in Dataset, RunLineage(r),
           Copying(r, d)
    PROVE  RunLineage(r)'
<1>1. /\ TypeOK /\ AtDataset(r, d) /\ Kept(r) /\ proc[r].digest \in Content
      /\ proc[r].pc \in {"copy", "copying", "sidecar"}
      /\ proc'[r].pc \in {"copying", "sidecar", "clean"}
      /\ proc'[r].digest = proc[r].digest /\ proc'[r].todo = proc[r].todo
  BY CopyEffect, AtDatasetFacts DEF IInv, LocalsOK, Stays
<1>2. RunRecorded(r)'
  BY <1>1 DEF RunLineage, RunRecorded, ArchiveGrows
<1>3. CASE proc'[r].pc # "clean"
  BY <1>1, <1>2, <1>3, QuietLineage DEF Kept
<1>4. CASE proc'[r].pc = "clean"
  <2>1. sidecar' = [sidecar EXCEPT ![d][proc[r].digest] = r]
    BY <1>4, CopyEffect DEF IInv
  <2>2. ASSUME NEW e \in Dataset, AtDataset(r, e)'
        PROVE  sidecar'[e][proc'[r].digest] # None
    <3>1. e = d
      BY <1>1, <2>2, OneDatasetAtATime DEF AtDataset
    <3> QED
      BY <1>1, <2>1, <3>1, IngestAssumption DEF TypeOK
  <2>3. \A e \in ParsedFromRaw : FrameArchived(r, e)'
    BY <1>1, FramesStayArchived DEF Kept
  <2> QED
    BY <1>2, <1>4, <2>2, <2>3 DEF RunLineage, SidecarWritten, RowsArchived
<1> QED
  BY <1>3, <1>4

\* verify_checksum makes the raw file the one its name says.
LEMMA WriteL0Lineage ==
    ASSUME IInv, ArchiveGrows, NEW r \in Run, NEW d \in Dataset, RunLineage(r),
           WriteL0(r, d)
    PROVE  RunLineage(r)'
<1>1. /\ TypeOK /\ AtDataset(r, d) /\ Kept(r) /\ proc[r].digest \in Content
      /\ proc[r].pc = "clean" /\ proc'[r].pc = "record" /\ UNCHANGED <<raw, sidecar>>
      /\ proc'[r].digest = proc[r].digest /\ proc'[r].todo = proc[r].todo
  BY WriteL0Effect, AtDatasetFacts DEF IInv, LocalsOK, Stays, rawVars
<1>2. RunRecorded(r)'
  BY <1>1 DEF RunLineage, RunRecorded, ArchiveGrows
<1>3. \A e \in Dataset : AtDataset(r, e)' => sidecar'[e][proc'[r].digest] # None
  BY <1>1 DEF RunLineage, SidecarWritten, AtDataset
<1>4. ASSUME NEW e \in ParsedFromRaw, AtDataset(r, e)', proc'[r].rows # None
      PROVE  /\ proc'[r].rows = proc'[r].digest
             /\ raw'[e][proc'[r].digest] = proc'[r].digest
             /\ sidecar'[e][proc'[r].digest] # None
  <2>1. e = d /\ e # "equity_eod"
    BY <1>1, <1>4, OneDatasetAtATime DEF AtDataset, ParsedFromRaw
  <2>2. ReportOk(r, d) /\ proc'[r].rows = Parsed(r, d)
    BY <1>1, <1>4, WriteL0Effect
  <2>3. raw[d][proc[r].digest] = proc[r].digest /\ Parsed(r, d) = proc[r].digest
    BY <2>1, <2>2 DEF ReportOk, ChecksumOk, Parsed
  <2> QED
    BY <1>1, <1>3, <1>4, <2>1, <2>2, <2>3
<1>5. \A e \in ParsedFromRaw : FrameArchived(r, e)'
  BY <1>1, FramesStayArchived DEF Kept
<1> QED
  BY <1>2, <1>3, <1>4, <1>5 DEF RunLineage, SidecarWritten, RowsArchived, Archived

\* The caller keeps the rows of WriteL0 as a frame.
LEMMA RecordLineage ==
    ASSUME IInv, ArchiveGrows, NEW r \in Run, NEW d \in Dataset, RunLineage(r),
           RecordManifest(r, d)
    PROVE  RunLineage(r)'
<1>1. /\ TypeOK /\ AtDataset(r, d) /\ proc[r].digest \in Content /\ proc[r] \in Local
      /\ proc[r].pc = "record" /\ proc'[r].pc = "loop" /\ UNCHANGED <<raw, sidecar>>
      /\ proc'[r].frame = [proc[r].frame EXCEPT ![d] = proc[r].rows]
      /\ proc'[r].sha = [proc[r].sha EXCEPT ![d] = proc[r].digest]
  BY RecordEffect, AtDatasetFacts DEF IInv, LocalsOK, Leaves, rawVars
<1>2. RunRecorded(r)'
  BY <1>1 DEF RunLineage, RunRecorded, ArchiveGrows
<1>3. ASSUME NEW e \in ParsedFromRaw PROVE FrameArchived(r, e)'
  <2>1. /\ proc[r].frame \in [Dataset -> Content \cup {None}]
        /\ proc[r].sha \in [Dataset -> Content \cup {None}] /\ e \in Dataset
    BY <1>1 DEF Local, ParsedFromRaw
  <2>2. RowsArchived(r, e) /\ FrameArchived(r, e)
    BY DEF RunLineage
  <2>3. CASE e = d
    <3>1. proc'[r].frame[e] = proc[r].rows /\ proc'[r].sha[e] = proc[r].digest
      BY <1>1, <2>1, <2>3
    <3> QED
      BY <1>1, <2>2, <2>3, <3>1 DEF RowsArchived, FrameArchived, Archived
  <2>4. CASE e # d
    <3>1. proc'[r].frame[e] = proc[r].frame[e] /\ proc'[r].sha[e] = proc[r].sha[e]
      BY <1>1, <2>1, <2>4
    <3> QED
      BY <1>1, <2>2, <3>1 DEF FrameArchived, Archived
  <2> QED
    BY <2>3, <2>4
<1> QED
  BY <1>1, <1>2, <1>3 DEF RunLineage, SidecarWritten, RowsArchived

\* The other steps leave no dataset half done.
LEMMA StepLineage ==
    ASSUME IInv, ArchiveGrows, NEW r \in Run, Step(r) \/ Fault(r), RunLineage(r)
    PROVE  RunLineage(r)'
<1> USE DEF IInv
<1>1. ASSUME NEW d \in Dataset, L0Step(r, d) PROVE RunLineage(r)'
  BY <1>1, HashLineage, CopyLineage, WriteL0Lineage, RecordLineage DEF L0Step, Copying
<1>2. CASE WriteRunMetadata(r)
  <2>1. runMeta' = runMeta \cup {r} /\ Moves(r, "loop")
    BY <1>2, MoveEffects DEF WriteRunMetadata
  <2> QED
    BY <2>1, QuietLineage DEF Moves, PhaseEffect, Kept, RunRecorded
<1>3. CASE \E v \in Version : Start(r, v)
  BY <1>3, StartEffect, QuietLineage DEF RunRecorded, L1Phase
<1>4. CASE StartWithoutEquity(r) \/ WritePipelineState(r) \/ Die(r)
  BY <1>4, MoveEffects, QuietLineage
  DEF Moves, PhaseEffect, Kept, RunRecorded, L1Phase
<1>5. ASSUME NEW d \in Dataset, DatasetRaises(r, d) PROVE RunLineage(r)'
  <2>1. /\ proc[r].pc \in {"loop", "copy", "copying", "sidecar", "clean", "record"}
        /\ Kept(r) /\ proc'[r].pc = "loop"
    BY <1>5, SkipEffect DEF DatasetRaises, Leaves
  <2>2. RunRecorded(r)'
    BY <2>1 DEF RunLineage, RunRecorded, ArchiveGrows
  <2> QED
    BY <2>1, <2>2, QuietLineage DEF Kept
<1>6. CASE GateL1(r) \/ WritePublishedMeta(r) \/ WriteL1Manifest(r)
  <2>1. /\ proc[r].pc \in {"loop", "l1_meta", "l1_manifest"} /\ PhaseEffect(r)
        /\ proc'[r].pc \in {"l1_equity", "l1_meta", "state"}
    BY <1>6, GateEffect, PublishedMetaEffect, MoveEffects DEF Moves
  <2>2. RunRecorded(r)'
    BY <2>1, Phases DEF RunLineage, RunRecorded, ArchiveGrows
  <2> QED
    BY <2>1, <2>2, QuietLineage DEF PhaseEffect, Kept
<1>7. CASE WriteL1Equity(r) \/ WriteL1Actions(r) \/ WriteL1Calendar(r)
  <2>1. proc[r].pc \in L1Phase /\ PhaseEffect(r) /\ proc'[r].pc \in L1Phase
    BY <1>7, Phases, WriteL1Effect DEF WriteL1Equity, WriteL1Actions, WriteL1Calendar
  <2>2. RunRecorded(r)' /\ proc'[r].pc \notin {"clean", "record"}
    BY <2>1 DEF RunLineage, RunRecorded, ArchiveGrows, L1Phase
  <2> QED
    BY <2>1, <2>2, QuietLineage DEF PhaseEffect, Kept
<1> QED
  BY <1>1, <1>2, <1>3, <1>4, <1>5, <1>6, <1>7 DEF Step, Fault

\* The files on disk stay rebuildable, and so is the one that is written.
LEMMA StepRebuildable ==
    ASSUME IInv, ArchiveGrows, NEW r \in Run, Step(r) \/ Fault(r), RunLineage(r),
           RebuildableFromRaw
    PROVE  RebuildableFromRaw'
<1>1. /\ l0 \in [Dataset -> [Version -> CleanFile \cup {None, Torn}]]
      /\ l1 \in [RequiredForL1 -> [Version -> CleanFile \cup {None, Torn}]]
      /\ TypeOK /\ proc[r] \in Local
  BY DEF IInv, TypeOK
<1>2. ASSUME NEW d \in ParsedFromRaw, NEW v \in Version, Written(l0'[d][v])
      PROVE  FromRaw(d, l0[d][v])'
  <2>1. d \in Dataset /\ d # "equity_eod"
    BY DEF ParsedFromRaw
  <2>2. CASE l0'[d][v] = l0[d][v]
    <3>1. l0[d][v] \in CleanFile /\ FromRaw(d, l0[d][v])
      BY <1>1, <1>2, <2>1, <2>2 DEF RebuildableFromRaw, Written
    <3> QED
      BY <2>1, <2>2, <3>1, StaysFromRaw DEF FromRaw
  <2>3. CASE WriteL0(r, d) /\ ReportOk(r, d) /\ l0'[d][v] = L0File(r, d)
    <3>1. /\ proc[r].pc = "clean" /\ AtDataset(r, d) /\ UNCHANGED <<raw, sidecar, runMeta>>
          /\ Parsed(r, d) \in Content /\ proc[r].digest \in Content
      BY <1>1, <2>1, <2>3, WriteL0Effect, ReportedContents, AtDatasetFacts
      DEF IInv, LocalsOK, rawVars, metaVars
    <3>2. /\ raw[d][proc[r].digest] = proc[r].digest /\ Parsed(r, d) = proc[r].digest
          /\ sidecar[d][proc[r].digest] # None /\ r \in runMeta
      BY <2>1, <2>3, <3>1
      DEF ReportOk, ChecksumOk, Parsed, RunLineage, SidecarWritten, RunRecorded
    <3>3. /\ L0File(r, d).sha = proc[r].digest /\ L0File(r, d).rows = Parsed(r, d)
          /\ L0File(r, d).by = r
      BY DEF L0File
    <3> QED
      BY <2>3, <3>1, <3>2, <3>3 DEF FromRaw
  <2> QED
    BY <1>1, <1>2, <2>1, <2>2, <2>3, FileChanges DEF Written
<1>3. ASSUME NEW d \in ParsedFromRaw \cap RequiredForL1, NEW v \in Version,
             Written(l1'[d][v])
      PROVE  FromRaw(d, l1[d][v])'
  <2>1. d \in Dataset /\ d # "equity_eod" /\ d \in RequiredForL1
    BY DEF ParsedFromRaw
  <2>2. CASE l1'[d][v] = l1[d][v]
    <3>1. l1[d][v] \in CleanFile /\ FromRaw(d, l1[d][v])
      BY <1>1, <1>3, <2>1, <2>2 DEF RebuildableFromRaw, Written
    <3> QED
      BY <2>1, <2>2, <3>1, StaysFromRaw DEF FromRaw
  <2>3. CASE /\ proc[r].pc \in L1Phase /\ l1'[d][v] = L1File(r, d)
    <3>1. proc[r].frame[d] # None /\ proc[r].sha[d] \in Content /\ r \in runMeta
      BY <2>1, <2>3 DEF IInv, LocalsOK, GatePassed, HasL1Frames, FramesPassed,
                        RunLineage, RunRecorded
    <3>2. proc[r].frame[d] = proc[r].sha[d] /\ Archived(d, proc[r].sha[d])
      BY <3>1 DEF RunLineage, FrameArchived
    <3>3. raw'[d][proc[r].sha[d]] = proc[r].sha[d] /\ sidecar'[d][proc[r].sha[d]] # None
      BY <2>1, <3>1, <3>2, StaysArchived DEF Archived
    <3>4. /\ L1File(r, d).sha = proc[r].sha[d] /\ L1File(r, d).rows = proc[r].frame[d]
          /\ L1File(r, d).by = r
      BY DEF L1File
    <3>5. r \in runMeta'
      BY <3>1 DEF ArchiveGrows
    <3> QED
      BY <2>3, <3>2, <3>3, <3>4, <3>5 DEF FromRaw
  <2> QED
    BY <1>1, <1>3, <2>1, <2>2, <2>3, FileChanges DEF Written
<1> QED
  BY <1>2, <1>3 DEF RebuildableFromRaw, ParsedFromRaw, Written, FromRaw

-------------------------------------------------------------------------------
(* What a run in progress has left on disk. *)

\* A run that has not started has no frames, and only WritePublishedMeta
\* announces L1.
Fresh ==
    \A r \in Run :
        /\ proc[r].pc = "idle" => \A d \in Dataset : proc[r].frame[d] = None
        /\ proc[r].pub => proc[r].pc \in {"state", "done", "dead"}

Owns(r, d) ==
    LET f == l1[d][proc[r].ver] IN Written(f) /\ f.by = r

OwnsManifest(r, m) ==
    LET doc == manifest[m][proc[r].ver] IN doc # None /\ doc.by = r /\ doc.ok

\* The L0 file of the dataset being done, and the manifests of those that are.
L0Output(r) ==
    \A d \in Dataset :
        /\ (proc[r].pc = "record" /\ AtDataset(r, d) /\ proc[r].rows # None) =>
             /\ proc[r].ok
             /\ LET f == l0[d][proc[r].ver] IN
                  Written(f) /\ f.by = r /\ f.sha = proc[r].digest
        /\ proc[r].frame[d] # None => OwnsManifest(r, d)

Announcing(r) == proc[r].pc = "state" /\ proc[r].pub

\* The L1 files are written in this order, then their manifest and their metadata.
L1Output(r) ==
    /\ (proc[r].pc \in L1Phase \ {"l1_equity"} \/ Announcing(r)) => Owns(r, "equity_eod")
    /\ (proc[r].pc \in {"l1_calendar", "l1_manifest", "l1_meta"} \/ Announcing(r)) =>
         Owns(r, "corporate_actions")
    /\ (proc[r].pc \in {"l1_manifest", "l1_meta"} \/ Announcing(r)) =>
         Owns(r, "trading_calendar")
    /\ (proc[r].pc = "l1_meta" \/ Announcing(r)) => OwnsManifest(r, "equity_eod_l1")
    /\ Announcing(r) => meta[proc[r].ver] = r /\ HasL1Frames(r)

Output == \A r \in Run : Active(r) => L0Output(r) /\ L1Output(r)

\* No step takes a run back to where it has not begun.
LEMMA StepBegins ==
    ASSUME TypeOK, NEW r \in Run, Step(r) \/ Fault(r)
    PROVE  proc'[r].pc # "idle"
<1>1. ASSUME NEW d \in Dataset, L0Step(r, d) PROVE proc'[r].pc # "idle"
  BY <1>1, HashEffect, CopyEffect, WriteL0Effect, RecordEffect DEF L0Step, Copying, Leaves
<1>2. CASE \E v \in Version : Start(r, v)
  BY <1>2, StartEffect
<1>3. CASE WriteL1Equity(r) \/ WriteL1Actions(r) \/ WriteL1Calendar(r)
  BY <1>3, WriteL1Effect DEF WriteL1Equity, WriteL1Actions, WriteL1Calendar
<1>4. CASE GateL1(r) \/ WritePublishedMeta(r)
  BY <1>4, GateEffect, PublishedMetaEffect
<1>5. ASSUME NEW d \in Dataset, DatasetRaises(r, d) PROVE proc'[r].pc # "idle"
  BY <1>5, SkipEffect DEF DatasetRaises, Leaves
<1> QED
  BY <1>1, <1>2, <1>3, <1>4, <1>5, MoveEffects DEF Step, Fault, Moves

LEMMA NextFresh ==
    ASSUME IInv, TypeOK', Fresh, NEW r \in Run, Step(r) \/ Fault(r)
    PROVE  Fresh'
<1> USE DEF IInv
<1>1. \A q \in Run \ {r} : proc'[q] = proc[q]
  BY OthersKept
<1>2. proc'[r].pc # "idle"
  BY StepBegins
<1>3. proc'[r].pub => proc'[r].pc \in {"state", "done", "dead"}
  <2>1. ASSUME NEW d \in Dataset, L0Step(r, d) PROVE ~proc'[r].pub
    BY <2>1, HashEffect, CopyEffect, WriteL0Effect, RecordEffect DEF L0Step, Copying, Fresh
  <2>2. CASE \E v \in Version : Start(r, v)
    BY <2>2, StartEffect DEF Fresh
  <2>3. CASE WriteL1Equity(r) \/ WriteL1Actions(r) \/ WriteL1Calendar(r)
    BY <2>3, WriteL1Effect DEF WriteL1Equity, WriteL1Actions, WriteL1Calendar, Fresh
  <2>4. CASE GateL1(r) \/ WritePublishedMeta(r)
    BY <2>4, GateEffect, PublishedMetaEffect DEF Fresh
  <2>5. ASSUME NEW d \in Dataset, DatasetRaises(r, d) PROVE ~proc'[r].pub
    BY <2>5, SkipEffect DEF DatasetRaises, Fresh
  <2>6. CASE \/ StartWithoutEquity(r) \/ WriteRunMetadata(r) \/ WriteL1Manifest(r)
             \/ WritePipelineState(r) \/ Die(r)
    BY <2>6, MoveEffects DEF Moves, Fresh
  <2> QED
    BY <2>1, <2>2, <2>3, <2>4, <2>5, <2>6 DEF Step, Fault
<1> QED
  BY <1>1, <1>2, <1>3 DEF Fresh

\* Manifests of the datasets that are done stay while the run goes on.
LEMMA L0OutputKept ==
    ASSUME NEW r \in Run, L0Output(r), UNCHANGED manifest,
           proc'[r].frame = proc[r].frame, proc'[r].ver = proc[r].ver,
           proc'[r].pc # "record"
    PROVE  L0Output(r)'
BY DEF L0Output, OwnsManifest

LEMMA HashCopyOutput ==
    ASSUME IInv, NEW r \in Run, NEW d \in Dataset, L0Output(r),
           HashArtifact(r, d) \/ Copying(r, d)
    PROVE  L0Output(r)' /\ L1Output(r)'
<1>1. /\ Kept(r) /\ UNCHANGED manifest /\ proc'[r].pc \in {"loop", "copy", "copying", "sidecar", "clean"}
  BY HashEffect, CopyEffect DEF IInv, metaVars, Leaves
<1> QED
  BY <1>1, L0OutputKept DEF Kept, L1Output, Announcing, L1Phase

LEMMA WriteL0Output ==
    ASSUME IInv, NEW r \in Run, NEW d \in Dataset, L0Output(r), WriteL0(r, d)
    PROVE  L0Output(r)' /\ L1Output(r)'
<1>1. /\ TypeOK /\ AtDataset(r, d) /\ Kept(r) /\ proc[r].digest \in Content
      /\ proc[r] \in Local /\ proc'[r].pc = "record" /\ UNCHANGED manifest
      /\ proc'[r].digest = proc[r].digest /\ proc'[r].todo = proc[r].todo
  BY WriteL0Effect, AtDatasetFacts DEF IInv, LocalsOK, Stays, metaVars
<1>2. \A e \in Dataset : proc'[r].frame[e] # None => OwnsManifest(r, e)'
  BY <1>1 DEF L0Output, OwnsManifest, Kept
<1>3. ASSUME NEW e \in Dataset, AtDataset(r, e)', proc'[r].rows # None
      PROVE  /\ proc'[r].ok
             /\ LET f == l0'[e][proc'[r].ver] IN
                  Written(f) /\ f.by = r /\ f.sha = proc'[r].digest
  <2>1. e = d
    BY <1>1, <1>3, OneDatasetAtATime DEF AtDataset
  <2>2. /\ ReportOk(r, d) /\ proc'[r].ok
        /\ l0' = [l0 EXCEPT ![d][proc[r].ver] = L0File(r, d)]
    BY <1>1, <1>3, WriteL0Effect
  <2>3. l0'[d][proc[r].ver] = L0File(r, d)
    BY <1>1, <2>2 DEF TypeOK, Local
  <2>4. L0File(r, d) \in CleanFile
    BY <1>1, <2>2, ReportedContents DEF L0File, CleanFile
  <2>5. Written(L0File(r, d))
    BY <2>4, IngestAssumption DEF Written
  <2>6. L0File(r, d).by = r /\ L0File(r, d).sha = proc[r].digest
    BY DEF L0File
  <2> QED
    BY <1>1, <2>1, <2>2, <2>3, <2>5, <2>6 DEF Kept
<1> QED
  BY <1>1, <1>2, <1>3 DEF L0Output, L1Output, Announcing, L1Phase, Written

LEMMA RecordOutput ==
    ASSUME IInv, NEW r \in Run, NEW d \in Dataset, L0Output(r), RecordManifest(r, d)
    PROVE  L0Output(r)' /\ L1Output(r)'
<1> DEFINE doc == [sha |-> proc[r].digest, ok |-> proc[r].ok,
                   clean |-> proc[r].rows # None, by |-> r]
<1>1. /\ TypeOK /\ AtDataset(r, d) /\ proc[r].digest \in Content /\ proc[r] \in Local
      /\ proc[r].pc = "record" /\ proc'[r].pc = "loop" /\ proc'[r].ver = proc[r].ver
      /\ proc'[r].frame = [proc[r].frame EXCEPT ![d] = proc[r].rows]
      /\ manifest' = [manifest EXCEPT ![d][proc[r].ver] = doc]
  BY RecordEffect, AtDatasetFacts DEF IInv, LocalsOK, Leaves
<1>2. doc \in Manifest
  BY <1>1 DEF Manifest, Local
<1>3. doc # None /\ doc.by = r /\ doc.ok = proc[r].ok
  BY <1>2, IngestAssumption
<1> HIDE DEF doc
<1>4. /\ manifest \in [ManifestName -> [Version -> Manifest \cup {None}]]
      /\ proc[r].frame \in [Dataset -> Content \cup {None}] /\ proc[r].ver \in Version
  BY <1>1 DEF TypeOK, Local
<1>5. ASSUME NEW e \in Dataset, proc'[r].frame[e] # None
      PROVE  OwnsManifest(r, e)'
  <2>1. CASE e = d
    <3>1. proc'[r].frame[e] = proc[r].rows /\ manifest'[e][proc[r].ver] = doc
      BY <1>1, <1>4, <2>1, Datasets
    <3> QED
      BY <1>1, <1>3, <1>5, <2>1, <3>1 DEF L0Output, OwnsManifest
  <2>2. CASE e # d
    <3>1. proc'[r].frame[e] = proc[r].frame[e]
      BY <1>1, <1>4, <2>2
    <3>2. manifest'[e] = manifest[e]
      BY <1>1, <1>4, <2>2, Datasets
    <3> QED
      BY <1>1, <1>5, <3>1, <3>2 DEF L0Output, OwnsManifest
  <2> QED
    BY <2>1, <2>2
<1> QED
  BY <1>1, <1>5 DEF L0Output, L1Output, Announcing, L1Phase

\* The file a run writes to L1 is its own.
LEMMA WriteL1Output ==
    ASSUME IInv, NEW r \in Run, L0Output(r), L1Output(r),
           WriteL1Equity(r) \/ WriteL1Actions(r) \/ WriteL1Calendar(r)
    PROVE  L0Output(r)' /\ L1Output(r)'
<1>1. proc[r] \in Local /\ TypeOK /\ proc[r].ver \in Version
  BY DEF IInv, TypeOK, Local
<1>2. PICK d \in RequiredForL1, p \in L1Phase, q \in L1Phase :
        /\ WriteL1(r, d, p, q)
        /\ <<d, p, q>> \in {<<"equity_eod", "l1_equity", "l1_actions">>,
                           <<"corporate_actions", "l1_actions", "l1_calendar">>,
                           <<"trading_calendar", "l1_calendar", "l1_manifest">>}
  BY Phases, Datasets DEF WriteL1Equity, WriteL1Actions, WriteL1Calendar
<1>3. /\ proc[r].pc = p /\ PhaseEffect(r) /\ proc'[r].pc = q /\ UNCHANGED manifest
      /\ l1' = [l1 EXCEPT ![d][proc[r].ver] = L1File(r, d)]
  BY <1>1, <1>2, WriteL1Effect DEF metaVars
<1>4. L1File(r, d) \in CleanFile
  BY <1>1, <1>2, <1>3, L1FileType DEF IInv, LocalsOK, GatePassed
<1>5. Written(L1File(r, d)) /\ L1File(r, d).by = r
  <2>1. Written(L1File(r, d))
    BY <1>4, IngestAssumption DEF Written
  <2> QED
    BY <2>1 DEF L1File
<1>6. l1'[d][proc[r].ver] = L1File(r, d)
      /\ \A e \in RequiredForL1 \ {d} : l1'[e] = l1[e]
  BY <1>1, <1>3 DEF TypeOK
<1>7. /\ Owns(r, d)'
      /\ \A e \in RequiredForL1 \ {d} : Owns(r, e) => Owns(r, e)'
  BY <1>3, <1>5, <1>6 DEF Owns, PhaseEffect, Kept
<1>8. L0Output(r)'
  BY <1>2, <1>3, L0OutputKept DEF PhaseEffect, Kept
<1>9. L1Output(r)'
  BY <1>2, <1>3, <1>7, Datasets DEF L1Output, Announcing, L1Phase
<1> QED
  BY <1>8, <1>9

LEMMA WriteL1ManifestOutput ==
    ASSUME IInv, NEW r \in Run, L0Output(r), L1Output(r), WriteL1Manifest(r)
    PROVE  L0Output(r)' /\ L1Output(r)'
<1> DEFINE doc == [sha |-> proc[r].sha["equity_eod"], ok |-> TRUE,
                   clean |-> TRUE, by |-> r]
<1>1. /\ TypeOK /\ proc[r] \in Local /\ proc[r].ver \in Version
      /\ proc[r].pc = "l1_manifest" /\ PhaseEffect(r) /\ proc'[r].pc = "l1_meta"
      /\ manifest' = [manifest EXCEPT !["equity_eod_l1"][proc[r].ver] = doc]
      /\ UNCHANGED l1
  BY MoveEffects DEF IInv, TypeOK, Local, WriteL1Manifest, Moves, cleanVars
<1>2. proc[r].sha["equity_eod"] \in Content
  BY <1>1, Phases, Datasets DEF IInv, LocalsOK, GatePassed, HasL1Frames, FramesPassed
<1>3. doc \in Manifest
  BY <1>2 DEF Manifest
<1>4. doc # None /\ doc.by = r /\ doc.ok = TRUE
  BY <1>3, IngestAssumption
<1> HIDE DEF doc
<1>5. manifest \in [ManifestName -> [Version -> Manifest \cup {None}]]
  BY <1>1 DEF TypeOK
<1>6. /\ manifest'["equity_eod_l1"][proc[r].ver] = doc
      /\ \A d \in Dataset : manifest'[d] = manifest[d]
  <2>1. "equity_eod_l1" \notin Dataset
    BY DEF Dataset
  <2> QED
    BY <1>1, <1>5, <2>1, Datasets
<1>7. L0Output(r)'
  BY <1>1, <1>6 DEF L0Output, OwnsManifest, PhaseEffect, Kept
<1>8. OwnsManifest(r, "equity_eod_l1")'
  BY <1>1, <1>4, <1>6 DEF OwnsManifest, PhaseEffect, Kept
<1>9. \A d \in RequiredForL1 : Owns(r, d) => Owns(r, d)'
  BY <1>1 DEF Owns, PhaseEffect, Kept
<1> QED
  BY <1>1, <1>7, <1>8, <1>9, Datasets DEF L1Output, Announcing, L1Phase

LEMMA WritePublishedMetaOutput ==
    ASSUME IInv, NEW r \in Run, L0Output(r), L1Output(r), WritePublishedMeta(r)
    PROVE  L0Output(r)' /\ L1Output(r)'
<1>1. /\ TypeOK /\ proc[r].ver \in Version /\ proc[r].pc = "l1_meta"
      /\ PhaseEffect(r) /\ proc'[r].pc = "state" /\ UNCHANGED <<l1, manifest>>
      /\ meta' = [meta EXCEPT ![proc[r].ver] = r]
  BY PublishedMetaEffect DEF IInv, TypeOK, Local, WritePublishedMeta, cleanVars
<1>2. meta'[proc[r].ver] = r /\ HasL1Frames(r)
  BY <1>1, Phases DEF TypeOK, IInv, LocalsOK, GatePassed
<1>3. HasL1Frames(r)'
  BY <1>1, <1>2 DEF HasL1Frames, PhaseEffect, Kept
<1>4. /\ \A d \in RequiredForL1 : Owns(r, d) => Owns(r, d)'
      /\ OwnsManifest(r, "equity_eod_l1") => OwnsManifest(r, "equity_eod_l1")'
  BY <1>1 DEF Owns, OwnsManifest, PhaseEffect, Kept
<1>5. L0Output(r)'
  BY <1>1, L0OutputKept DEF PhaseEffect, Kept
<1> QED
  BY <1>1, <1>2, <1>3, <1>4, <1>5, Phases, Datasets
  DEF L1Output, L1Phase, PhaseEffect, Kept

\* The steps of the loop and of the gate announce nothing.
LEMMA QuietOutput ==
    ASSUME IInv, Fresh, NEW r \in Run, L0Output(r),
           \/ WriteRunMetadata(r) \/ GateL1(r)
           \/ \E d \in Dataset : DatasetRaises(r, d)
    PROVE  L0Output(r)' /\ L1Output(r)'
<1>1. /\ proc[r].pc \in {"meta", "loop", "copy", "copying", "sidecar", "clean", "record"} /\ ~proc[r].pub
      /\ Kept(r) /\ proc'[r].pub = proc[r].pub /\ UNCHANGED manifest
      /\ proc'[r].pc \in {"loop", "l1_equity", "state"}
  <2>1. CASE WriteRunMetadata(r)
    BY <2>1, MoveEffects DEF IInv, Moves, PhaseEffect, WriteRunMetadata, Fresh
  <2>2. CASE GateL1(r)
    BY <2>2, GateEffect DEF IInv, PhaseEffect, metaVars, Fresh
  <2>3. ASSUME NEW d \in Dataset, DatasetRaises(r, d)
        PROVE  /\ proc[r].pc \in {"loop", "copy", "copying", "sidecar", "clean", "record"} /\ ~proc[r].pub
               /\ Kept(r) /\ proc'[r].pub = proc[r].pub /\ UNCHANGED manifest
               /\ proc'[r].pc = "loop"
    BY <2>3, SkipEffect DEF IInv, DatasetRaises, metaVars, Leaves, Fresh
  <2> QED
    BY <2>1, <2>2, <2>3
<1>2. L0Output(r)'
  BY <1>1, L0OutputKept DEF Kept
<1>3. L1Output(r)'
  BY <1>1 DEF L1Output, Announcing, L1Phase
<1> QED
  BY <1>2, <1>3

LEMMA StartOutput ==
    ASSUME IInv, Fresh, NEW r \in Run, NEW v \in Version, Start(r, v)
    PROVE  L0Output(r)' /\ L1Output(r)'
<1>1. /\ proc[r].pc = "idle" /\ proc'[r].pc = "meta"
      /\ proc'[r].frame = proc[r].frame
  BY StartEffect DEF IInv
<1>2. \A d \in Dataset : proc'[r].frame[d] = None
  BY <1>1 DEF Fresh
<1> QED
  BY <1>1, <1>2 DEF L0Output, L1Output, Announcing, L1Phase

LEMMA NextOutput ==
    ASSUME IInv, TypeOK', ~Overlap, OneAtATime, Fresh, Output,
           NEW r \in Run, Step(r) \/ Fault(r)
    PROVE  Output'
<1>1. \A q \in Run \ {r} : ~Active(q)'
  BY Alone DEF Active
<1>2. SUFFICES ASSUME Active(r)' PROVE L0Output(r)' /\ L1Output(r)'
  BY <1>1 DEF Output
<1>3. ~ (StartWithoutEquity(r) \/ WritePipelineState(r) \/ Die(r))
  BY <1>2, MoveEffects DEF Moves, Active, IInv
<1>4. CASE \E v \in Version : Start(r, v)
  BY <1>4, StartOutput
<1>5. CASE Active(r)
  <2>1. L0Output(r) /\ L1Output(r)
    BY <1>5 DEF Output
  <2>2. ASSUME NEW d \in Dataset, L0Step(r, d) PROVE L0Output(r)' /\ L1Output(r)'
    BY <2>1, <2>2, HashCopyOutput, WriteL0Output, RecordOutput DEF L0Step, Copying
  <2>3. CASE WriteL1Equity(r) \/ WriteL1Actions(r) \/ WriteL1Calendar(r)
    BY <2>1, <2>3, WriteL1Output
  <2>4. CASE WriteL1Manifest(r) \/ WritePublishedMeta(r)
    BY <2>1, <2>4, WriteL1ManifestOutput, WritePublishedMetaOutput
  <2>5. CASE \/ WriteRunMetadata(r) \/ GateL1(r)
             \/ \E d \in Dataset : DatasetRaises(r, d)
    BY <2>1, <2>5, QuietOutput
  <2> QED
    BY <1>3, <1>4, <2>2, <2>3, <2>4, <2>5 DEF Step, Fault
<1>6. CASE MayStart(r) /\ ~Active(r)
  <2>1. proc[r].pc = "idle"
    BY <1>6 DEF MayStart
  <2> QED
    BY <1>3, <1>4, <2>1
    DEF Step, Fault, WriteRunMetadata, L0Step, HashArtifact, Copying, BeginCopy, EndCopy,
        WriteSidecar, WriteL0,
        RecordManifest, GateL1, WriteL1Equity, WriteL1Actions, WriteL1Calendar, WriteL1,
        WriteL1Manifest, WritePublishedMeta, DatasetRaises
<1> QED
  BY <1>5, <1>6, ActiveSteps DEF IInv

\* The status is written last.
LEMMA StateAfterOutput ==
    ASSUME IInv, Output, [Next]_vars, NEW r \in Run,
           pstate[r] # "success", pstate'[r] = "success"
    PROVE  LET v == proc[r].ver IN
           /\ \A d \in RequiredForL1 : Written(l1[d][v]) /\ l1[d][v].by = r
           /\ \A m \in RequiredForL1 \cup {"equity_eod_l1"} :
                manifest[m][v] # None /\ manifest[m][v].by = r /\ manifest[m][v].ok
           /\ meta[v] = r
<1>1. pstate' # pstate
  OBVIOUS
<1>2. PICK q \in Run : WritePipelineState(q) \/ StartWithoutEquity(q)
  <2>1. PICK q \in Run : Step(q)
    BY <1>1 DEF Next, Drop, Fault, Die, DatasetRaises, vars, metaVars
  <2>2. ~ \E d \in Dataset : L0Step(q, d)
    BY <1>1
         DEF L0Step, HashArtifact, Copying, BeginCopy, EndCopy, WriteSidecar, WriteL0,
             RecordManifest, metaVars
  <2>3. ~ (\/ \E v \in Version : Start(q, v)
           \/ WriteRunMetadata(q) \/ GateL1(q)
           \/ WriteL1Equity(q) \/ WriteL1Actions(q) \/ WriteL1Calendar(q)
           \/ WriteL1Manifest(q) \/ WritePublishedMeta(q))
    BY <1>1 DEF Start, WriteRunMetadata, GateL1, WriteL1Equity, WriteL1Actions,
                WriteL1Calendar, WriteL1, WriteL1Manifest, WritePublishedMeta, metaVars
  <2> QED
    BY <2>1, <2>2, <2>3 DEF Step
<1>3. pstate \in [Run -> {"none", "success", "failed"}]
  BY DEF IInv, TypeOK
<1>4. WritePipelineState(r) /\ proc[r].pub
  <2>1. CASE WritePipelineState(q)
    BY <1>2, <1>3, <2>1 DEF WritePipelineState
  <2>2. CASE StartWithoutEquity(q)
    BY <1>3, <2>2 DEF StartWithoutEquity
  <2> QED
    BY <1>2, <2>1, <2>2
<1>5. Announcing(r) /\ Active(r)
  BY <1>4 DEF WritePipelineState, Announcing, Active
<1>6. L0Output(r) /\ L1Output(r)
  BY <1>5 DEF Output
<1>7. HasL1Frames(r) /\ meta[proc[r].ver] = r /\ OwnsManifest(r, "equity_eod_l1")
  BY <1>5, <1>6 DEF L1Output
<1>8. \A d \in RequiredForL1 : Owns(r, d) /\ OwnsManifest(r, d)
  BY <1>5, <1>6, <1>7, Datasets DEF L0Output, L1Output, HasL1Frames, RequiredForL1
<1> QED
  BY <1>7, <1>8 DEF Owns, OwnsManifest

-------------------------------------------------------------------------------
(* What the metadata says of the files, when no run was cut short. *)

\* A manifest that claims a clean file describes it, but for the moment between
\* the file and its manifest.
L0Described ==
    faults = 0 =>
        \A v \in Version, d \in Dataset :
            LET doc == manifest[d][v] IN
            (doc # None /\ doc.clean) =>
                \/ Written(l0[d][v]) /\ l0[d][v].by = doc.by /\ l0[d][v].sha = doc.sha
                \/ \E r \in Run :
                     proc[r].ver = v /\ proc[r].pc = "record" /\ AtDataset(r, d)

\* The three files of an L1 version come from the run its metadata names, or
\* there are none, or a run is writing them.
Announced(v) ==
    /\ meta[v] # None
    /\ manifest["equity_eod_l1"][v] # None
    /\ manifest["equity_eod_l1"][v].by = meta[v]
    /\ \A d \in RequiredForL1 : Written(l1[d][v]) /\ l1[d][v].by = meta[v]

Unpublished(v) == meta[v] = None /\ \A d \in RequiredForL1 : l1[d][v] = None

L1Together ==
    faults = 0 =>
        \A v \in Version :
            \/ Announced(v) \/ Unpublished(v)
            \/ \E r \in Run : proc[r].ver = v /\ proc[r].pc \in L1Phase

\* Between two runs that is what MetadataDescribesFiles says.
LEMMA IdleMetadata ==
    ASSUME L0Described, L1Together
    PROVE  MetadataDescribesFiles
<1> SUFFICES ASSUME faults = 0, \A r \in Run : ~Active(r), NEW v \in Version
             PROVE  /\ \A d \in Dataset : LET m == manifest[d][v] IN
                         (m # None /\ m.clean) =>
                            Written(l0[d][v]) /\ l0[d][v].by = m.by /\ l0[d][v].sha = m.sha
                    /\ meta[v] # None =>
                         /\ manifest["equity_eod_l1"][v].by = meta[v]
                         /\ \A d \in RequiredForL1 :
                              Written(l1[d][v]) /\ l1[d][v].by = meta[v]
  BY DEF MetadataDescribesFiles
<1>1. \A r \in Run : proc[r].pc # "record" /\ proc[r].pc \notin L1Phase
  BY DEF Active, L1Phase
<1>2. Announced(v) \/ Unpublished(v)
  BY <1>1 DEF L1Together
<1> QED
  BY <1>1, <1>2 DEF L0Described, Announced, Unpublished

\* The steps that do not end a dataset and write no L0 file.
LEMMA DescribedKept ==
    ASSUME L0Described, UNCHANGED <<l0, faults>>, NEW r \in Run,
           \A d \in Dataset : manifest'[d] = manifest[d],
           \A q \in Run \ {r} : proc'[q] = proc[q], proc[r].pc # "record"
    PROVE  L0Described'
<1> SUFFICES ASSUME faults = 0, NEW v \in Version, NEW d \in Dataset,
                    manifest[d][v] # None, manifest[d][v].clean
             PROVE  \/ /\ Written(l0[d][v]) /\ l0[d][v].by = manifest[d][v].by
                       /\ l0[d][v].sha = manifest[d][v].sha
                    \/ \E q \in Run :
                        proc'[q].ver = v /\ proc'[q].pc = "record" /\ AtDataset(q, d)'
  BY DEF L0Described, Written
<1>1. CASE \E q \in Run : proc[q].ver = v /\ proc[q].pc = "record" /\ AtDataset(q, d)
  BY <1>1 DEF AtDataset
<1>2. CASE ~ \E q \in Run : proc[q].ver = v /\ proc[q].pc = "record" /\ AtDataset(q, d)
  BY <1>2 DEF L0Described
<1> QED
  BY <1>1, <1>2

LEMMA WriteL0Described ==
    ASSUME IInv, TypeOK', OneAtATime, L0Described, NEW r \in Run, NEW d \in Dataset,
           WriteL0(r, d)
    PROVE  L0Described'
<1>1. /\ TypeOK /\ AtDataset(r, d) /\ Kept(r) /\ proc[r].ver \in Version
      /\ proc[r].pc = "clean" /\ proc'[r].pc = "record"
      /\ UNCHANGED <<manifest, faults>> /\ proc'[r].todo = proc[r].todo
  BY WriteL0Effect DEF IInv, TypeOK, Local, Stays, metaVars, envVars
<1>2. \A q \in Run \ {r} : proc'[q] = proc[q]
  BY OthersKept DEF Step, L0Step
<1>3. \A e \in Dataset, v \in Version :
         l0'[e][v] = l0[e][v] \/ (e = d /\ v = proc[r].ver)
  <2>1. UNCHANGED l0 \/ l0' = [l0 EXCEPT ![d][proc[r].ver] = L0File(r, d)]
    BY <1>1, WriteL0Effect
  <2> QED
    BY <1>1, <2>1 DEF TypeOK
<1>4. AtDataset(r, d)'
  BY <1>1 DEF AtDataset
<1> SUFFICES ASSUME faults = 0, NEW v \in Version, NEW e \in Dataset,
                    manifest[e][v] # None, manifest[e][v].clean
             PROVE  \/ /\ Written(l0'[e][v]) /\ l0'[e][v].by = manifest[e][v].by
                       /\ l0'[e][v].sha = manifest[e][v].sha
                    \/ \E q \in Run :
                        proc'[q].ver = v /\ proc'[q].pc = "record" /\ AtDataset(q, e)'
  BY <1>1 DEF L0Described, Written
<1>5. CASE e = d /\ v = proc[r].ver
  BY <1>1, <1>4, <1>5 DEF Kept
<1>6. CASE \E q \in Run : proc[q].ver = v /\ proc[q].pc = "record" /\ AtDataset(q, e)
  BY <1>1, <1>2, <1>6 DEF AtDataset
<1>7. CASE /\ ~(e = d /\ v = proc[r].ver)
           /\ ~ \E q \in Run : proc[q].ver = v /\ proc[q].pc = "record" /\ AtDataset(q, e)
  BY <1>3, <1>7 DEF L0Described
<1> QED
  BY <1>5, <1>6, <1>7

\* The manifest of a clean file names the file WriteL0 has just written.
LEMMA RecordDescribed ==
    ASSUME IInv, TypeOK', OneAtATime, Output, L0Described,
           NEW r \in Run, NEW d \in Dataset, RecordManifest(r, d)
    PROVE  L0Described'
<1> DEFINE doc == [sha |-> proc[r].digest, ok |-> proc[r].ok,
                   clean |-> proc[r].rows # None, by |-> r]
<1>1. /\ TypeOK /\ AtDataset(r, d) /\ proc[r].ver \in Version
      /\ proc[r].pc = "record" /\ UNCHANGED <<l0, faults>>
      /\ manifest' = [manifest EXCEPT ![d][proc[r].ver] = doc]
  BY RecordEffect DEF IInv, TypeOK, Local, cleanVars, envVars
<1>2. doc.sha = proc[r].digest /\ doc.clean = (proc[r].rows # None) /\ doc.by = r
  OBVIOUS
<1> HIDE DEF doc
<1>3. /\ manifest'[d][proc[r].ver] = doc
      /\ \A e \in Dataset, v \in Version :
           ~(e = d /\ v = proc[r].ver) => manifest'[e][v] = manifest[e][v]
  BY <1>1, Datasets DEF TypeOK
<1> SUFFICES ASSUME faults = 0, NEW v \in Version, NEW e \in Dataset,
                    manifest'[e][v] # None, manifest'[e][v].clean
             PROVE  /\ Written(l0[e][v]) /\ l0[e][v].by = manifest'[e][v].by
                    /\ l0[e][v].sha = manifest'[e][v].sha
  BY <1>1 DEF L0Described, Written
<1>4. CASE e = d /\ v = proc[r].ver
  <2>1. Active(r)
    BY <1>1 DEF Active
  <2>2. L0Output(r)
    BY <2>1 DEF Output
  <2>3. manifest'[e][v] = doc /\ doc.clean
    BY <1>3, <1>4
  <2>4. proc[r].rows # None
    BY <1>2, <2>3
  <2>5. LET f == l0[d][proc[r].ver] IN Written(f) /\ f.by = r /\ f.sha = proc[r].digest
    BY <1>1, <2>2, <2>4 DEF L0Output
  <2> QED
    BY <1>2, <1>4, <2>3, <2>5
<1>5. CASE ~(e = d /\ v = proc[r].ver)
  <2>1. \A q \in Run : proc[q].pc = "record" => q = r
    BY <1>1 DEF OneAtATime, Active
  <2>2. ~ \E q \in Run : proc[q].ver = v /\ proc[q].pc = "record" /\ AtDataset(q, e)
    BY <1>1, <1>5, <2>1, OneDatasetAtATime
  <2> QED
    BY <1>3, <1>5, <2>2 DEF L0Described
<1> QED
  BY <1>4, <1>5

LEMMA StepDescribed ==
    ASSUME IInv, TypeOK', OneAtATime, Output, L0Described, NEW r \in Run, Step(r)
    PROVE  L0Described'
<1>1. \A q \in Run \ {r} : proc'[q] = proc[q]
  BY OthersKept
<1>2. ASSUME NEW d \in Dataset, L0Step(r, d) PROVE L0Described'
  <2>1. CASE HashArtifact(r, d) \/ Copying(r, d)
    BY <1>1, <2>1, DescribedKept
         DEF HashArtifact, Copying, BeginCopy, EndCopy, WriteSidecar, cleanVars,
             metaVars, envVars
  <2> QED
    BY <1>2, <2>1, WriteL0Described, RecordDescribed DEF L0Step, Copying
<1>3. CASE \/ StartWithoutEquity(r) \/ WriteRunMetadata(r) \/ GateL1(r)
           \/ \E v \in Version : Start(r, v)
  BY <1>1, <1>3, DescribedKept
  DEF StartWithoutEquity, Start, MayStart, WriteRunMetadata, GateL1, cleanVars, metaVars, envVars
<1>4. CASE WriteL1Equity(r) \/ WriteL1Actions(r) \/ WriteL1Calendar(r)
  BY <1>1, <1>4, DescribedKept
  DEF WriteL1Equity, WriteL1Actions, WriteL1Calendar, WriteL1, metaVars, envVars
<1>5. CASE WriteL1Manifest(r)
  <2>1. \A d \in Dataset : manifest'[d] = manifest[d]
    BY <1>5 DEF WriteL1Manifest, IInv, TypeOK, Dataset, ManifestName
  <2> QED
    BY <1>1, <1>5, <2>1, DescribedKept DEF WriteL1Manifest, cleanVars, envVars
<1>6. CASE WritePublishedMeta(r) \/ WritePipelineState(r)
  BY <1>1, <1>6, DescribedKept DEF WritePublishedMeta, WritePipelineState, cleanVars, envVars
<1> QED
  BY <1>2, <1>3, <1>4, <1>5, <1>6 DEF Step

\* A step of a run that is not writing L1 leaves the L1 files and what is said of
\* them alone; a run that is writes under its own version.
LEMMA L1Changes ==
    ASSUME IInv, NEW r \in Run, Step(r), NEW v \in Version,
           ~(proc[r].pc \in L1Phase /\ v = proc[r].ver)
    PROVE  /\ \A d \in RequiredForL1 : l1'[d][v] = l1[d][v]
           /\ manifest'["equity_eod_l1"][v] = manifest["equity_eod_l1"][v]
           /\ meta'[v] = meta[v]
<1>1. /\ TypeOK /\ "equity_eod_l1" \notin Dataset
      /\ proc[r].ver \in Version
  BY DEF IInv, TypeOK, Local, Dataset
<1>2. CASE \/ StartWithoutEquity(r) \/ WriteRunMetadata(r) \/ GateL1(r)
           \/ WritePipelineState(r)
           \/ \E w \in Version : Start(r, w)
  BY <1>2 DEF StartWithoutEquity, Start, WriteRunMetadata, GateL1, WritePipelineState,
              cleanVars, metaVars
<1>3. ASSUME NEW d \in Dataset, L0Step(r, d)
      PROVE  /\ UNCHANGED <<l1, meta>>
             /\ manifest'["equity_eod_l1"] = manifest["equity_eod_l1"]
  <2>1. CASE RecordManifest(r, d)
    BY <1>1, <2>1, Datasets DEF RecordManifest, cleanVars, TypeOK
  <2> QED
    BY <1>3, <2>1
         DEF L0Step, HashArtifact, Copying, BeginCopy, EndCopy, WriteSidecar, WriteL0,
             cleanVars, metaVars
<1>4. CASE WriteL1Equity(r) \/ WriteL1Actions(r) \/ WriteL1Calendar(r)
  <2>1. PICK d \in RequiredForL1 : l1' = [l1 EXCEPT ![d][proc[r].ver] = L1File(r, d)]
    BY <1>4, Datasets DEF WriteL1Equity, WriteL1Actions, WriteL1Calendar, WriteL1
  <2>2. UNCHANGED metaVars /\ proc[r].pc \in L1Phase
    BY <1>4, Phases DEF WriteL1Equity, WriteL1Actions, WriteL1Calendar, WriteL1
  <2> QED
    BY <1>1, <2>1, <2>2 DEF TypeOK, metaVars
<1>5. CASE WriteL1Manifest(r)
  BY <1>1, <1>5, Phases DEF WriteL1Manifest, cleanVars, TypeOK, ManifestName
<1>6. CASE WritePublishedMeta(r)
  BY <1>1, <1>6, Phases DEF WritePublishedMeta, cleanVars, TypeOK
<1> QED
  BY <1>2, <1>3, <1>4, <1>5, <1>6 DEF Step

\* A run that is writing L1 goes on, or has just announced it.
LEMMA L1PhaseSteps ==
    ASSUME IInv, NEW r \in Run, Step(r), proc[r].pc \in L1Phase
    PROVE  /\ proc'[r].ver = proc[r].ver
           /\ proc'[r].pc \in L1Phase \/ Announcing(r)'
<1>1. \/ WriteL1Equity(r) \/ WriteL1Actions(r) \/ WriteL1Calendar(r)
      \/ WriteL1Manifest(r) \/ WritePublishedMeta(r)
  BY DEF Step, StartWithoutEquity, Start, MayStart, WriteRunMetadata, L0Step, HashArtifact,
         Copying, BeginCopy, EndCopy, WriteSidecar, WriteL0, RecordManifest, GateL1,
         WritePipelineState, L1Phase
<1>2. CASE WriteL1Equity(r) \/ WriteL1Actions(r) \/ WriteL1Calendar(r)
  BY <1>2, WriteL1Effect, Phases
  DEF WriteL1Equity, WriteL1Actions, WriteL1Calendar, PhaseEffect, Kept, IInv
<1>3. CASE WriteL1Manifest(r)
  BY <1>3, MoveEffects, Phases DEF Moves, PhaseEffect, Kept, IInv
<1>4. CASE WritePublishedMeta(r)
  BY <1>4, PublishedMetaEffect DEF PhaseEffect, Kept, Announcing, IInv
<1> QED
  BY <1>1, <1>2, <1>3, <1>4

LEMMA StepTogether ==
    ASSUME IInv, TypeOK', ~Overlap, OneAtATime, Output', L1Together,
           NEW r \in Run, Step(r), UNCHANGED faults
    PROVE  L1Together'
<1>1. \A q \in Run \ {r} : proc'[q] = proc[q] /\ ~Active(q)
  BY Alone
<1>2. \A q \in Run : proc[q].pc \in L1Phase => q = r
  BY <1>1 DEF Active, L1Phase
<1> SUFFICES ASSUME faults = 0, NEW v \in Version
             PROVE  \/ Announced(v)' \/ Unpublished(v)'
                    \/ \E q \in Run : proc'[q].ver = v /\ proc'[q].pc \in L1Phase
  BY DEF L1Together
<1>3. CASE proc[r].pc \in L1Phase /\ v = proc[r].ver
  <2>1. proc'[r].ver = v /\ (proc'[r].pc \in L1Phase \/ Announcing(r)')
    BY <1>3, L1PhaseSteps
  <2>2. ASSUME Announcing(r)' PROVE Announced(v)'
    <3>1. Active(r)'
      BY <2>2 DEF Announcing, Active
    <3>2. L1Output(r)'
      BY <3>1 DEF Output
    <3>3. /\ \A d \in RequiredForL1 : Owns(r, d)'
          /\ OwnsManifest(r, "equity_eod_l1")' /\ meta'[v] = r
      BY <2>1, <2>2, <3>2 DEF L1Output, RequiredForL1
    <3>4. r # None
      BY IngestAssumption
    <3> QED
      BY <2>1, <3>3, <3>4 DEF Owns, OwnsManifest, Announced
  <2> QED
    BY <2>1, <2>2
<1>4. CASE ~(proc[r].pc \in L1Phase /\ v = proc[r].ver)
  <2>1. Announced(v) \/ Unpublished(v)
    BY <1>2, <1>4 DEF L1Together
  <2> QED
    BY <1>4, <2>1, L1Changes DEF Announced, Unpublished, Written
<1> QED
  BY <1>3, <1>4

-------------------------------------------------------------------------------
(* With incoming files that stay put and no fault, the outcome of a run is a    *)
(* function of those files, whichever runs overlap.                             *)

Passes(d) == incoming[d] \in DqOk[d]

L0Allowed == RequiredForL0 \subseteq Present

\* The local variables of a run until its L1 files are announced.
LoopOutcome(r) ==
    /\ "equity_eod" \in Present
    /\ proc[r].pre = incoming["equity_eod"]
    /\ proc[r].allow = L0Allowed
    /\ proc[r].todo \subseteq Present
    /\ \A d \in Dataset :
         proc[r].frame[d] = IF d \in Present \ proc[r].todo /\ Passes(d) /\ L0Allowed
                            THEN incoming[d] ELSE None
    /\ proc[r].good <=> L0Allowed /\ \A d \in Present \ proc[r].todo : Passes(d)

\* Those of the dataset being done.
DatasetOutcome(r, d) ==
    /\ proc[r].pc \in {"copy", "copying", "sidecar", "clean", "record"} => proc[r].digest = incoming[d]
    /\ proc[r].pc \in {"sidecar", "clean"} => raw[d][proc[r].digest] = proc[r].digest
    /\ proc[r].pc = "record" =>
         /\ proc[r].ok <=> Passes(d)
         /\ proc[r].rows = IF Passes(d) /\ L0Allowed THEN incoming[d] ELSE None

AllPass == \A d \in Present : Passes(d)

SymbolMapPasses ==
    incoming["symbol_isin_map"] \in DqOk["symbol_isin_map"] \cup {None}

RunOutcome(r) ==
    /\ proc[r].pc # "dead"
    /\ proc[r].pc \in L1Phase \cup {"meta", "loop", "copy", "copying", "sidecar", "clean", "record"} =>
         LoopOutcome(r)
    /\ \A d \in Dataset : AtDataset(r, d) => DatasetOutcome(r, d)
    /\ proc[r].pc \in L1Phase => proc[r].todo = {} /\ L1Inputs
    /\ proc[r].pc = "state" =>
         /\ proc[r].pub <=> L1Inputs
         /\ (proc[r].good /\ proc[r].pub) <=> (L1Inputs /\ AllPass)
    /\ proc[r].pc = "done" =>
         /\ proc[r].pub <=> L1Inputs
         /\ pstate[r] = "success" <=> (L1Inputs /\ SymbolMapPasses)

\* A run is in the middle of a copy to this path.
BeingCopied(d, c) ==
    \E r \in Run : proc[r].pc = "copying" /\ AtDataset(r, d) /\ proc[r].digest = c

\* No copy is left torn and no artifact replaced while it is hashed and copied.
RawWhole == \A d \in Dataset, c \in Content : raw[d][c] \in {None, c} \/ BeingCopied(d, c)

Outcome == (drops = 0 /\ faults = 0) => RawWhole /\ \A r \in Run : RunOutcome(r)

\* L1 is built from three frames that are the incoming files.
LEMMA GateOutcome ==
    ASSUME TypeOK, NEW r \in Run, LoopOutcome(r), proc[r].todo = {}
    PROVE  (HasL1Frames(r) /\ ~SessionGap(r)) <=> L1Inputs
<1>1. \A d \in Dataset : d \in Present <=> incoming[d] # None
  BY DEF Present
<1>2. RequiredForL0 \subseteq RequiredForL1
  BY DEF RequiredForL0, RequiredForL1
<1>3. \A d \in RequiredForL1 :
        proc[r].frame[d] # None <=> (d \in Present /\ Passes(d) /\ L0Allowed)
  BY <1>1, Datasets DEF LoopOutcome
<1>4. HasL1Frames(r) <=>
        (L0Allowed /\ RequiredForL1 \subseteq Present /\ \A d \in RequiredForL1 : Passes(d))
  BY <1>3 DEF HasL1Frames, LoopOutcome
<1>5. RequiredForL1 \subseteq Present => L0Allowed
  BY <1>2 DEF L0Allowed
<1>6. HasL1Frames(r) => \A d \in RequiredForL1 : proc[r].frame[d] = incoming[d]
  BY <1>3, Datasets DEF HasL1Frames, LoopOutcome
<1>7. HasL1Frames(r) =>
        (SessionGap(r) <=> <<incoming["equity_eod"], incoming["trading_calendar"]>> \in HardGap)
  BY <1>6, Datasets DEF SessionGap
<1> QED
  BY <1>4, <1>5, <1>7 DEF L1Inputs, Passes

\* The fourth dataset is the one L1 does not need.
LEMMA StatusOutcome ==
    ASSUME L1Inputs
    PROVE  AllPass <=> SymbolMapPasses
<1>1. Dataset = RequiredForL1 \cup {"symbol_isin_map"}
  BY DEF Dataset, RequiredForL1
<1>2. \A d \in RequiredForL1 : Passes(d)
  BY DEF L1Inputs, Passes
<1>3. "symbol_isin_map" \in Present <=> incoming["symbol_isin_map"] # None
  BY <1>1 DEF Present
<1>4. AllPass <=> ("symbol_isin_map" \in Present => Passes("symbol_isin_map"))
  BY <1>1, <1>2 DEF AllPass, Present
<1> QED
  BY <1>3, <1>4, IngestAssumption DEF SymbolMapPasses, Passes

\* A run between its datasets.
LEMMA LoopOutcomeStep ==
    ASSUME NEW r \in Run, LoopOutcome(r), UNCHANGED incoming, Kept(r), Stays(r),
           proc'[r].good = proc[r].good
    PROVE  LoopOutcome(r)'
BY DEF LoopOutcome, Kept, Stays, Present, Passes, L0Allowed

LEMMA StartOutcome ==
    ASSUME IInv, Fresh, NEW r \in Run, NEW v \in Version, Start(r, v)
    PROVE  RunOutcome(r)'
<1>1. /\ proc[r].pc = "idle" /\ "equity_eod" \in Present
      /\ proc'[r].pc = "meta" /\ proc'[r].todo = Present
      /\ proc'[r].pre = incoming["equity_eod"]
      /\ proc'[r].allow = L0Allowed /\ proc'[r].good = L0Allowed
      /\ proc'[r].frame = proc[r].frame /\ UNCHANGED incoming
  BY StartEffect DEF IInv, L0Allowed, envVars
<1>2. Present' = Present /\ (L0Allowed' <=> L0Allowed)
  BY <1>1 DEF Present, L0Allowed
<1>3. \A d \in Dataset : proc'[r].frame[d] = None
  BY <1>1 DEF Fresh
<1>4. LoopOutcome(r)'
  BY <1>1, <1>2, <1>3 DEF LoopOutcome
<1> QED
  BY <1>1, <1>4 DEF RunOutcome, DatasetOutcome, L1Phase

LEMMA HashOutcome ==
    ASSUME IInv, OneAtATime, RawWhole, NEW r \in Run, NEW d \in Dataset, RunOutcome(r),
           HashArtifact(r, d)
    PROVE  RunOutcome(r)'
<1>1. TypeOK /\ incoming[d] \in Content
  BY AtDatasetFacts DEF IInv, LocalsOK, HashArtifact
<1>2. raw[d][incoming[d]] \in {None, incoming[d]}
  BY <1>1 DEF RawWhole, BeingCopied, OneAtATime, Active, HashArtifact
<1>3. /\ proc[r].pc = "loop" /\ AtDataset(r, d) /\ Kept(r) /\ Stays(r)
      /\ proc'[r].good = proc[r].good /\ UNCHANGED <<raw, incoming>>
      /\ proc'[r].digest = incoming[d] /\ proc'[r].pc \in {"copy", "sidecar"}
      /\ proc'[r].pc = "sidecar" => raw[d][incoming[d]] = incoming[d]
  BY <1>1, <1>2, HashEffect DEF envVars, rawVars
<1>4. LoopOutcome(r)'
  BY <1>3, LoopOutcomeStep DEF RunOutcome
<1>5. ASSUME NEW e \in Dataset, AtDataset(r, e)' PROVE e = d
  BY <1>1, <1>3, <1>5, OneDatasetAtATime DEF AtDataset, Stays
<1> QED
  BY <1>3, <1>4, <1>5 DEF RunOutcome, DatasetOutcome, L1Phase

LEMMA CopyOutcome ==
    ASSUME IInv, NEW r \in Run, NEW d \in Dataset, RunOutcome(r), Copying(r, d)
    PROVE  RunOutcome(r)'
<1>1. /\ TypeOK /\ incoming[d] \in Content
  BY AtDatasetFacts DEF IInv, LocalsOK, Copying, BeginCopy, EndCopy, WriteSidecar
<1>2. /\ proc[r].pc \in {"copy", "copying", "sidecar"} /\ AtDataset(r, d)
      /\ Kept(r) /\ Stays(r) /\ proc'[r].good = proc[r].good /\ UNCHANGED incoming
      /\ proc'[r].digest = proc[r].digest /\ proc'[r].pc \in {"copying", "sidecar", "clean"}
  BY <1>1, CopyEffect DEF envVars
<1>3. LoopOutcome(r)' /\ proc[r].digest = incoming[d]
  BY <1>2, LoopOutcomeStep DEF RunOutcome, DatasetOutcome
<1>4. ASSUME proc'[r].pc \in {"sidecar", "clean"}
      PROVE  raw'[d][proc'[r].digest] = proc'[r].digest
  <2>1. \/ raw' = [raw EXCEPT ![d][proc[r].digest] = incoming[d]]
        \/ proc[r].pc = "sidecar" /\ UNCHANGED raw
    BY <1>1, <1>4, CopyEffect
  <2> QED
    BY <1>1, <1>2, <1>3, <2>1 DEF TypeOK, RunOutcome, DatasetOutcome
<1>5. ASSUME NEW e \in Dataset, AtDataset(r, e)' PROVE e = d
  BY <1>1, <1>2, <1>5, OneDatasetAtATime DEF AtDataset, Stays
<1> QED
  BY <1>2, <1>3, <1>4, <1>5 DEF RunOutcome, DatasetOutcome, L1Phase

LEMMA WriteL0Outcome ==
    ASSUME IInv, NEW r \in Run, NEW d \in Dataset, RunOutcome(r), WriteL0(r, d)
    PROVE  RunOutcome(r)'
<1>1. /\ TypeOK /\ proc[r].pc = "clean" /\ AtDataset(r, d) /\ Kept(r) /\ Stays(r)
      /\ proc'[r].good = proc[r].good /\ UNCHANGED <<raw, incoming>>
      /\ proc'[r].digest = proc[r].digest /\ proc'[r].pc = "record"
      /\ proc'[r].ok = ReportOk(r, d)
      /\ proc'[r].rows = IF ReportOk(r, d) /\ proc[r].allow THEN Parsed(r, d) ELSE None
  BY WriteL0Effect DEF IInv, rawVars, envVars
<1>2. LoopOutcome(r) /\ LoopOutcome(r)'
  BY <1>1, LoopOutcomeStep DEF RunOutcome
<1>3. proc[r].digest = incoming[d] /\ ChecksumOk(r, d)
  BY <1>1 DEF RunOutcome, DatasetOutcome, ChecksumOk
<1>4. Parsed(r, d) = incoming[d]
  BY <1>2, <1>3 DEF Parsed, LoopOutcome, ChecksumOk
<1>5. (ReportOk(r, d) <=> Passes(d)) /\ (proc[r].allow <=> L0Allowed)
  BY <1>2, <1>3, <1>4 DEF ReportOk, Passes, LoopOutcome
<1>6. (Passes(d)' <=> Passes(d)) /\ (L0Allowed' <=> L0Allowed)
  BY <1>1 DEF Passes, L0Allowed, Present
<1>7. /\ proc'[r].ok <=> Passes(d)'
      /\ proc'[r].rows = IF Passes(d)' /\ L0Allowed' THEN incoming'[d] ELSE None
  BY <1>1, <1>4, <1>5, <1>6
<1>8. ASSUME NEW e \in Dataset, AtDataset(r, e)' PROVE e = d
  BY <1>1, <1>8, OneDatasetAtATime DEF AtDataset, Stays
<1> QED
  BY <1>1, <1>2, <1>3, <1>7, <1>8 DEF RunOutcome, DatasetOutcome, L1Phase

\* The caller's bookkeeping ends the dataset.
LEMMA RecordOutcome ==
    ASSUME IInv, NEW r \in Run, NEW d \in Dataset, RunOutcome(r), RecordManifest(r, d)
    PROVE  RunOutcome(r)'
<1>1. /\ TypeOK /\ proc[r].pc = "record" /\ AtDataset(r, d) /\ UNCHANGED incoming
      /\ proc'[r].pc = "loop" /\ proc'[r].todo = proc[r].todo \ {d}
      /\ proc'[r].pre = proc[r].pre /\ proc'[r].allow = proc[r].allow
      /\ proc'[r].frame = [proc[r].frame EXCEPT ![d] = proc[r].rows]
      /\ proc'[r].good = (proc[r].good /\ proc[r].ok)
  BY RecordEffect DEF IInv, Leaves, envVars
<1>2. LoopOutcome(r) /\ DatasetOutcome(r, d) /\ d \in proc[r].todo
  BY <1>1 DEF RunOutcome, AtDataset
<1>3. /\ Present' = Present /\ (L0Allowed' <=> L0Allowed)
      /\ \A e \in Dataset : Passes(e)' <=> Passes(e)
  BY <1>1 DEF Present, L0Allowed, Passes
<1>4. Present \ proc'[r].todo = (Present \ proc[r].todo) \cup {d}
  BY <1>1, <1>2 DEF LoopOutcome
<1>5. ASSUME NEW e \in Dataset
      PROVE  proc'[r].frame[e] =
               IF e \in Present' \ proc'[r].todo /\ Passes(e)' /\ L0Allowed'
               THEN incoming'[e] ELSE None
  <2>1. proc[r].frame \in [Dataset -> Content \cup {None}]
    BY <1>1 DEF TypeOK, Local
  <2>2. CASE e = d
    <3>1. proc'[r].frame[e] = IF Passes(d) /\ L0Allowed THEN incoming[d] ELSE None
      BY <1>1, <1>2, <2>1, <2>2 DEF DatasetOutcome
    <3> QED
      BY <1>1, <1>3, <1>4, <2>2, <3>1
  <2>3. CASE e # d
    <3>1. proc'[r].frame[e] = proc[r].frame[e]
      BY <1>1, <2>1, <2>3
    <3>2. proc[r].frame[e] = IF e \in Present \ proc[r].todo /\ Passes(e) /\ L0Allowed
                             THEN incoming[e] ELSE None
      BY <1>2 DEF LoopOutcome
    <3> QED
      BY <1>1, <1>3, <1>4, <2>3, <3>1, <3>2
  <2> QED
    BY <2>2, <2>3
<1>6. proc'[r].good <=> L0Allowed' /\ \A e \in Present' \ proc'[r].todo : Passes(e)'
  <2>1. proc[r].ok <=> Passes(d)
    BY <1>1, <1>2 DEF DatasetOutcome
  <2>2. proc[r].good <=> L0Allowed /\ \A e \in Present \ proc[r].todo : Passes(e)
    BY <1>2 DEF LoopOutcome
  <2>3. \A e \in Present : e \in Dataset
    BY DEF Present
  <2> QED
    BY <1>1, <1>3, <1>4, <2>1, <2>2, <2>3
<1>7. LoopOutcome(r)'
  <2>1. proc'[r].pre = incoming'["equity_eod"] /\ proc'[r].allow = L0Allowed'
    BY <1>1, <1>2, <1>3 DEF LoopOutcome, L0Allowed
  <2>2. "equity_eod" \in Present' /\ proc'[r].todo \subseteq Present'
    BY <1>1, <1>2, <1>3 DEF LoopOutcome
  <2> QED
    BY <1>5, <1>6, <2>1, <2>2 DEF LoopOutcome
<1> QED
  BY <1>1, <1>7 DEF RunOutcome, DatasetOutcome, L1Phase

\* The premises of L1 are those of the incoming files while these stay put.
LEMMA SameInputs ==
    ASSUME UNCHANGED incoming
    PROVE  /\ L1Inputs' <=> L1Inputs
           /\ AllPass' <=> AllPass
           /\ SymbolMapPasses' <=> SymbolMapPasses
BY DEF L1Inputs, AllPass, SymbolMapPasses, Passes, Present

LEMMA GateL1Outcome ==
    ASSUME IInv, Fresh, NEW r \in Run, RunOutcome(r), GateL1(r)
    PROVE  RunOutcome(r)'
<1>1. /\ TypeOK /\ proc[r].pc = "loop" /\ proc[r].todo = {} /\ PhaseEffect(r)
      /\ proc'[r].pub = proc[r].pub /\ UNCHANGED incoming
  BY GateEffect DEF IInv, envVars
<1>2. LoopOutcome(r) /\ proc'[r].todo = {} /\ ~proc'[r].pub
  BY <1>1 DEF RunOutcome, PhaseEffect, Stays, Fresh
<1>3. (HasL1Frames(r) /\ ~SessionGap(r)) <=> L1Inputs
  BY <1>1, <1>2, GateOutcome
<1>4. CASE L1Inputs
  <2>1. proc'[r].pc = "l1_equity" /\ proc'[r].good = proc[r].good
    BY <1>3, <1>4, GateEffect DEF IInv
  <2>2. LoopOutcome(r)'
    BY <1>1, <1>2, <2>1, LoopOutcomeStep DEF PhaseEffect
  <2> QED
    BY <1>1, <1>2, <1>4, <2>1, <2>2, SameInputs DEF RunOutcome, AtDataset
<1>5. CASE ~L1Inputs
  <2>1. proc'[r].pc = "state" /\ proc'[r].good = FALSE
    BY <1>3, <1>5, GateEffect DEF IInv
  <2> QED
    BY <1>1, <1>2, <1>5, <2>1, SameInputs DEF RunOutcome, AtDataset, L1Phase
<1> QED
  BY <1>4, <1>5

\* The steps that change the phase only.
LEMMA MetaOutcome ==
    ASSUME IInv, NEW r \in Run, RunOutcome(r), WriteRunMetadata(r)
    PROVE  RunOutcome(r)'
<1>1. /\ proc[r].pc = "meta" /\ Moves(r, "loop") /\ UNCHANGED incoming
  BY MoveEffects DEF IInv, WriteRunMetadata, envVars
<1>2. LoopOutcome(r)'
  BY <1>1, LoopOutcomeStep DEF RunOutcome, Moves, PhaseEffect
<1> QED
  BY <1>1, <1>2 DEF RunOutcome, Moves, DatasetOutcome, L1Phase

LEMMA WriteL1Outcome ==
    ASSUME IInv, NEW r \in Run, RunOutcome(r),
           \/ WriteL1Equity(r) \/ WriteL1Actions(r) \/ WriteL1Calendar(r)
           \/ WriteL1Manifest(r)
    PROVE  RunOutcome(r)'
<1>1. /\ proc[r].pc \in L1Phase /\ PhaseEffect(r) /\ proc'[r].pc \in L1Phase
      /\ proc'[r].good = proc[r].good /\ UNCHANGED incoming
  <2>1. CASE WriteL1Manifest(r)
    BY <2>1, MoveEffects, Phases DEF IInv, Moves, WriteL1Manifest, envVars
  <2>2. CASE WriteL1Equity(r) \/ WriteL1Actions(r) \/ WriteL1Calendar(r)
    BY <2>2, WriteL1Effect, Phases
    DEF IInv, WriteL1Equity, WriteL1Actions, WriteL1Calendar, envVars
  <2> QED
    BY <2>1, <2>2
<1>2. LoopOutcome(r)' /\ proc'[r].todo = {} /\ L1Inputs'
  BY <1>1, LoopOutcomeStep, SameInputs DEF RunOutcome, PhaseEffect, Stays
<1>3. proc'[r].pc \notin {"dead", "state", "done"}
  BY <1>1 DEF L1Phase
<1> QED
  BY <1>1, <1>2, <1>3 DEF RunOutcome, AtDataset

\* A run that announces L1 has an error exactly when a dataset did not pass.
LEMMA PublishedMetaOutcome ==
    ASSUME IInv, NEW r \in Run, RunOutcome(r), WritePublishedMeta(r)
    PROVE  RunOutcome(r)'
<1>1. /\ proc[r].pc = "l1_meta" /\ proc'[r].pc = "state" /\ proc'[r].pub = TRUE
      /\ proc'[r].good = proc[r].good /\ PhaseEffect(r) /\ UNCHANGED incoming
  BY PublishedMetaEffect DEF IInv, WritePublishedMeta, envVars
<1>2. LoopOutcome(r) /\ proc[r].todo = {} /\ L1Inputs
  BY <1>1, Phases DEF RunOutcome
<1>3. L0Allowed
  BY <1>2 DEF L1Inputs, L0Allowed, RequiredForL0, RequiredForL1
<1>4. proc[r].good <=> AllPass
  BY <1>2, <1>3 DEF LoopOutcome, AllPass
<1>5. proc'[r].todo = {}
  BY <1>1, <1>2 DEF PhaseEffect, Stays
<1> QED
  BY <1>1, <1>2, <1>4, <1>5, SameInputs DEF RunOutcome, AtDataset, L1Phase

LEMMA PipelineStateOutcome ==
    ASSUME IInv, NEW r \in Run, RunOutcome(r), WritePipelineState(r)
    PROVE  RunOutcome(r)'
<1>1. /\ proc[r].pc = "state" /\ Moves(r, "done") /\ UNCHANGED incoming
  BY MoveEffects DEF IInv, WritePipelineState, envVars
<1>2. pstate'[r] = "success" <=> (proc[r].good /\ proc[r].pub)
  BY DEF WritePipelineState, IInv, TypeOK
<1>3. /\ proc[r].pub <=> L1Inputs
      /\ (proc[r].good /\ proc[r].pub) <=> (L1Inputs /\ AllPass)
  BY <1>1 DEF RunOutcome
<1>4. pstate'[r] = "success" <=> (L1Inputs /\ SymbolMapPasses)
  BY <1>2, <1>3, StatusOutcome
<1>5. /\ proc'[r].pc = "done" /\ proc'[r].pub = proc[r].pub
      /\ \A d \in Dataset : DatasetOutcome(r, d)'
  BY <1>1 DEF Moves, DatasetOutcome
<1> QED
  BY <1>3, <1>4, <1>5, SameInputs, <1>1 DEF RunOutcome, L1Phase

\* Without an equity file nothing is published.
LEMMA NoEquityOutcome ==
    ASSUME IInv, Fresh, NEW r \in Run, StartWithoutEquity(r)
    PROVE  RunOutcome(r)'
<1>1. /\ proc[r].pc = "idle" /\ Moves(r, "done") /\ UNCHANGED incoming
      /\ "equity_eod" \notin Present
  BY MoveEffects DEF IInv, StartWithoutEquity, envVars
<1>2. pstate'[r] = "failed"
  BY DEF StartWithoutEquity, IInv, TypeOK
<1>3. ~L1Inputs /\ ~proc[r].pub
  BY <1>1, Datasets DEF L1Inputs, Fresh
<1>4. /\ proc'[r].pc = "done" /\ proc'[r].pub = proc[r].pub
      /\ \A d \in Dataset : DatasetOutcome(r, d)'
  BY <1>1 DEF Moves, DatasetOutcome
<1> QED
  BY <1>1, <1>2, <1>3, <1>4, SameInputs DEF RunOutcome, L1Phase

LEMMA OneRunOutcome ==
    ASSUME IInv, Fresh, OneAtATime, RawWhole, NEW r \in Run, RunOutcome(r), Step(r)
    PROVE  RunOutcome(r)'
<1>1. ASSUME NEW d \in Dataset, L0Step(r, d) PROVE RunOutcome(r)'
  BY <1>1, HashOutcome, CopyOutcome, WriteL0Outcome, RecordOutcome DEF L0Step, Copying
<1>2. CASE StartWithoutEquity(r) \/ \E v \in Version : Start(r, v)
  BY <1>2, NoEquityOutcome, StartOutcome
<1>3. CASE WriteRunMetadata(r) \/ GateL1(r)
  BY <1>3, MetaOutcome, GateL1Outcome
<1>4. CASE \/ WriteL1Equity(r) \/ WriteL1Actions(r) \/ WriteL1Calendar(r)
           \/ WriteL1Manifest(r)
  BY <1>4, WriteL1Outcome
<1>5. CASE WritePublishedMeta(r) \/ WritePipelineState(r)
  BY <1>5, PublishedMetaOutcome, PipelineStateOutcome
<1> QED
  BY <1>1, <1>2, <1>3, <1>4, <1>5 DEF Step

\* The other runs report what they did, and a copy that is not whole goes on.
LEMMA StepShares ==
    ASSUME IInv, TypeOK', ~Overlap, OneAtATime, RawWhole, NEW r \in Run, RunOutcome(r),
           Step(r)
    PROVE  RawWhole' /\ \A q \in Run \ {r} : pstate'[q] = pstate[q]
<1>1. \A q \in Run \ {r} : pstate'[q] = pstate[q]
  BY DEF Step, StartWithoutEquity, Start, WriteRunMetadata, L0Step, HashArtifact, BeginCopy,
         EndCopy, WriteSidecar, WriteL0, RecordManifest, GateL1, WriteL1Equity, WriteL1Actions,
         WriteL1Calendar, WriteL1, WriteL1Manifest, WritePublishedMeta, WritePipelineState,
         metaVars, IInv, TypeOK
<1>2. ASSUME NEW d \in Dataset, NEW c \in Content, raw'[d][c] = raw[d][c]
      PROVE  raw'[d][c] \in {None, c} \/ BeingCopied(d, c)'
  <2>1. CASE raw[d][c] \in {None, c}
    BY <1>2, <2>1
  <2>2. CASE BeingCopied(d, c) /\ raw[d][c] \notin {None, c}
    <3>1. PICK q \in Run : proc[q].pc = "copying" /\ AtDataset(q, d) /\ proc[q].digest = c
      BY <2>2 DEF BeingCopied
    <3>2. q # r
      <4>1. ASSUME q = r PROVE FALSE
        <5>1. PICK e \in Dataset : EndCopy(r, e)
          BY <3>1, <4>1 DEF Step, StartWithoutEquity, Start, MayStart, WriteRunMetadata, L0Step,
               HashArtifact, BeginCopy, WriteSidecar, WriteL0, RecordManifest, GateL1,
               WriteL1Equity, WriteL1Actions, WriteL1Calendar, WriteL1, WriteL1Manifest,
               WritePublishedMeta, WritePipelineState
        <5>2. e = d
          BY <3>1, <4>1, <5>1, OneDatasetAtATime DEF EndCopy, IInv
        <5>3. proc[r].digest = incoming[d]
          BY <3>1, <4>1 DEF RunOutcome, DatasetOutcome
        <5>4. raw'[d][c] = c
          BY <3>1, <4>1, <5>1, <5>2, <5>3 DEF EndCopy, IInv, TypeOK
        <5> QED
          BY <1>2, <2>2, <5>4
      <4> QED
        BY <4>1
    <3>3. proc'[q] = proc[q]
      BY <3>2, Alone
    <3> QED
      BY <3>1, <3>3 DEF BeingCopied, AtDataset
  <2> QED
    BY <2>1, <2>2 DEF RawWhole
<1>3. ASSUME NEW d \in Dataset, NEW c \in Content, raw'[d][c] # raw[d][c]
      PROVE  raw'[d][c] \in {None, c} \/ BeingCopied(d, c)'
  <2>1. proc[r].pc \in {"copy", "copying"} /\ AtDataset(r, d) /\ c = proc[r].digest
    BY <1>3, RawChanges DEF IInv
  <2>2. c = incoming[d]
    BY <2>1 DEF RunOutcome, DatasetOutcome
  <2>3. PICK e \in Dataset : Copying(r, e)
    BY <2>1 DEF Copying, Step, StartWithoutEquity, Start, MayStart, WriteRunMetadata, L0Step,
         HashArtifact, WriteL0, RecordManifest, GateL1, WriteL1Equity, WriteL1Actions,
         WriteL1Calendar, WriteL1, WriteL1Manifest, WritePublishedMeta, WritePipelineState
  <2>4. e = d /\ Stays(r) /\ proc'[r].digest = proc[r].digest
    BY <2>1, <2>3, CopyEffect, OneDatasetAtATime DEF IInv
  <2>5. CASE proc'[r].pc = "copying"
    BY <2>1, <2>4, <2>5 DEF BeingCopied, AtDataset, Stays
  <2>6. CASE raw' = [raw EXCEPT ![d][proc[r].digest] = incoming[d]]
    BY <2>1, <2>2, <2>6 DEF IInv, TypeOK
  <2> QED
    BY <1>3, <2>3, <2>4, <2>5, <2>6, CopyEffect DEF IInv
<1> QED
  BY <1>1, <1>2, <1>3 DEF RawWhole

LEMMA NextOutcome ==
    ASSUME IInv, TypeOK', Fresh, ~Overlap, OneAtATime, Outcome, NEW r \in Run, Step(r)
    PROVE  Outcome'
<1>1. UNCHANGED envVars
  BY StepEnvironment
<1> SUFFICES ASSUME drops = 0, faults = 0
             PROVE  RawWhole' /\ \A q \in Run : RunOutcome(q)'
  BY <1>1 DEF Outcome, envVars
<1>2. RawWhole /\ \A q \in Run : RunOutcome(q)
  BY DEF Outcome
<1>3. /\ RawWhole' /\ RunOutcome(r)' /\ UNCHANGED incoming
      /\ \A q \in Run \ {r} : pstate'[q] = pstate[q] /\ proc'[q] = proc[q] /\ ~Active(q)
  BY <1>1, <1>2, OneRunOutcome, StepShares, Alone DEF envVars
<1>4. ASSUME NEW q \in Run \ {r} PROVE RunOutcome(q)'
  <2>1. /\ proc'[q] = proc[q] /\ pstate'[q] = pstate[q] /\ RunOutcome(q)
        /\ proc[q].pc \in {"idle", "done", "dead"}
    BY <1>2, <1>3 DEF Active
  <2> QED
    BY <1>3, <2>1, SameInputs DEF RunOutcome, DatasetOutcome, L1Phase
<1> QED
  BY <1>3, <1>4

\* Runs that follow one another: Fresh and Outcome hold next to IInv.
OutcomeIInv == IInv /\ Fresh /\ OneAtATime /\ Outcome

LEMMA InitOutcome == Init => OutcomeIInv
<1> SUFFICES ASSUME Init PROVE Fresh /\ OneAtATime /\ Outcome
  BY InitIInv DEF OutcomeIInv
<1>1. \A r \in Run : /\ proc[r].pc = "idle" /\ proc[r].todo = {} /\ ~proc[r].pub
                     /\ \A d \in Dataset : proc[r].frame[d] = None
  BY DEF Init
<1>2. RawWhole
  BY DEF Init, RawWhole
<1> QED
  BY <1>1, <1>2 DEF Fresh, OneAtATime, Active, Outcome, RunOutcome, AtDataset, L1Phase

LEMMA FaultsCount ==
    ASSUME TypeOK, NEW r \in Run, Fault(r)
    PROVE  faults' # 0
BY IngestAssumption DEF Fault, Die, DatasetRaises, TypeOK

LEMMA NextOutcomeIInv ==
    ASSUME ~Overlap, OutcomeIInv, [Next]_vars
    PROVE  OutcomeIInv'
<1> SUFFICES Fresh' /\ OneAtATime' /\ Outcome'
  BY NextIInv DEF OutcomeIInv
<1> USE DEF OutcomeIInv
<1>1. TypeOK' /\ TypeOK
  BY NextIInv DEF IInv
<1>2. CASE UNCHANGED vars
  <2>1. Fresh' /\ OneAtATime'
    BY <1>2 DEF Fresh, OneAtATime, Active, vars
  <2>2. RawWhole => RawWhole'
    BY <1>2 DEF RawWhole, BeingCopied, AtDataset, vars, rawVars
  <2>3. \A r \in Run : RunOutcome(r) => RunOutcome(r)'
    BY <1>2 DEF RunOutcome, LoopOutcome, DatasetOutcome, AtDataset, L1Inputs, AllPass,
                SymbolMapPasses, Passes, L0Allowed, Present, vars, rawVars, metaVars, envVars
  <2> QED
    BY <1>2, <2>1, <2>2, <2>3 DEF Outcome, vars, envVars
<1>3. CASE \E d \in Dataset, c \in Content : Drop(d, c)
  <2>1. drops' # 0 /\ UNCHANGED proc
    BY <1>1, <1>3, IngestAssumption DEF Drop, TypeOK
  <2> QED
    BY <2>1 DEF Fresh, OneAtATime, Active, Outcome
<1>4. ASSUME NEW r \in Run, Fault(r) PROVE Fresh' /\ OneAtATime' /\ Outcome'
  BY <1>1, <1>4, NextFresh, FaultsCount, Alone DEF Outcome
<1>5. ASSUME NEW r \in Run, Step(r) PROVE Fresh' /\ OneAtATime' /\ Outcome'
  BY <1>1, <1>5, NextFresh, NextOutcome, Alone
<1> QED
  BY <1>2, <1>3, <1>4, <1>5 DEF Next

\* With one run at a time, the four incoming files alone decide what an undisturbed
\* ingest publishes and reports, whatever earlier runs left in the raw store, the
\* clean store and the manifests.
THEOREM OutcomeDecided ==
    ASSUME ~Overlap
    PROVE  Spec => []InputsDecideOutcome
<1>1. OutcomeIInv => InputsDecideOutcome
  BY DEF OutcomeIInv, Outcome, RunOutcome, InputsDecideOutcome, SymbolMapPasses
<1>2. OutcomeIInv /\ [Next]_vars => OutcomeIInv'
  BY NextOutcomeIInv
<1> QED
  BY <1>1, <1>2, InitOutcome, PTL DEF Spec

-------------------------------------------------------------------------------
(* Runs that follow one another: everything above together. *)

FilesIInv ==
    /\ IInv /\ Fresh
    /\ OneAtATime /\ CopyTargetFree
    /\ Lineage /\ RebuildableFromRaw
    /\ Output /\ L0Described /\ L1Together

LEMMA InitFilesIInv == Init => FilesIInv
<1> SUFFICES ASSUME Init PROVE FilesIInv
  OBVIOUS
<1>1. IInv /\ Fresh
  BY InitOutcome DEF OutcomeIInv
<1>2. \A r \in Run : /\ proc[r].pc = "idle" /\ \A d \in Dataset : proc[r].frame[d] = None
  BY DEF Init
<1>3. OneAtATime /\ CopyTargetFree /\ Output
  BY <1>2 DEF OneAtATime, CopyTargetFree, Output, Active
<1>4. Lineage
  BY <1>2 DEF Lineage, RunLineage, RunRecorded, SidecarWritten, RowsArchived,
              FrameArchived, ParsedFromRaw, L1Phase
<1>5. /\ \A d \in Dataset, v \in Version : l0[d][v] = None
      /\ \A d \in RequiredForL1, v \in Version : l1[d][v] = None
  BY DEF Init
<1>6. RebuildableFromRaw
  BY <1>5 DEF RebuildableFromRaw, Written
<1>7. L0Described
  BY Datasets DEF Init, L0Described
<1>8. L1Together
  BY <1>5 DEF Init, L1Together, Unpublished
<1> QED
  BY <1>1, <1>3, <1>4, <1>6, <1>7, <1>8 DEF FilesIInv

\* The environment touches data/incoming/ only.
LEMMA EnvironmentStep ==
    ASSUME FilesIInv, IInv', UNCHANGED <<cleanVars, rawVars, metaVars, proc, faults>>
    PROVE  FilesIInv'
<1> USE DEF FilesIInv, cleanVars, rawVars, metaVars
<1>1. Fresh' /\ OneAtATime' /\ CopyTargetFree'
  BY DEF Fresh, OneAtATime, CopyTargetFree, AtDataset, Active
<1>2. Lineage'
  BY DEF Lineage, RunLineage, RunRecorded, SidecarWritten, RowsArchived, FrameArchived,
         Archived, AtDataset
<1>3. RebuildableFromRaw'
  BY DEF RebuildableFromRaw, FromRaw, Written
<1>4. Output'
  BY DEF Output, L0Output, L1Output, Owns, OwnsManifest, Announcing, HasL1Frames,
         AtDataset, Active, Written
<1>5. L0Described' /\ L1Together'
  BY DEF L0Described, L1Together, Announced, Unpublished, AtDataset, Written
<1> QED
  BY <1>1, <1>2, <1>3, <1>4, <1>5

LEMMA NextFilesIInv ==
    ASSUME ~Overlap, FilesIInv, [Next]_vars
    PROVE  FilesIInv'
<1>1. IInv /\ IInv' /\ TypeOK /\ TypeOK'
  BY NextIInv DEF FilesIInv, IInv
<1>2. CASE (\E d \in Dataset, c \in Content : Drop(d, c)) \/ UNCHANGED vars
  BY <1>1, <1>2, EnvironmentStep DEF Drop, vars, envVars
<1>3. ASSUME NEW r \in Run, Step(r) \/ Fault(r) PROVE FilesIInv'
  <2> USE DEF FilesIInv
  <2>1. Fresh' /\ OneAtATime' /\ CopyTargetFree' /\ Output'
    BY <1>1, <1>3, NextFresh, Alone, NextCopyTarget, NextOutput
  <2>2. ArchiveGrows
    BY <1>1, <1>3, StepArchive
  <2>3. RunLineage(r)' /\ RebuildableFromRaw'
    BY <1>1, <1>3, <2>2, StepLineage, StepRebuildable DEF Lineage
  <2>4. ASSUME NEW q \in Run \ {r} PROVE RunLineage(q)'
    <3>1. proc'[q] = proc[q] /\ ~Active(q) /\ RunLineage(q)
      BY <1>1, <1>3, Alone DEF Lineage
    <3> QED
      BY <1>1, <2>2, <3>1, OtherLineage
  <2>5. L0Described' /\ L1Together'
    <3>1. CASE Fault(r)
      BY <1>1, <3>1, FaultsCount DEF L0Described, L1Together
    <3>2. CASE Step(r)
      <4>1. UNCHANGED faults
        BY <3>2, StepEnvironment DEF envVars
      <4> QED
        BY <1>1, <2>1, <3>2, <4>1, StepDescribed, StepTogether
    <3> QED
      BY <1>3, <3>1, <3>2
  <2> QED
    BY <1>1, <2>1, <2>3, <2>4, <2>5 DEF Lineage
<1> QED
  BY <1>2, <1>3 DEF Next

\* With one run at a time, no raw file is ever overwritten, torn after the fact or
\* removed: archive_raw looks for the path before it copies, and nobody else copies
\* in between.
THEOREM RawNeverOverwritten ==
    ASSUME ~Overlap
    PROVE  Spec => RawImmutable
<1>1. FilesIInv /\ [Next]_vars => FilesIInv'
  BY NextFilesIInv
<1>2. FilesIInv /\ [Next]_vars =>
        [\A d \in Dataset, c \in Content :
            raw[d][c] \notin {None, raw'[d][c]} =>
              /\ raw[d][c] = Torn
              /\ \E r \in Run : /\ proc[r].pc = "copying"
                                /\ AtDataset(r, d) /\ proc[r].digest = c]_raw
  BY NextRawImmutable DEF FilesIInv, IInv, EndsCopy
<1> QED
  BY <1>1, <1>2, InitFilesIInv, PTL DEF Spec, RawImmutable

\* With one run at a time, every clean file parsed from a raw copy can be rebuilt
\* from it, across drops, exceptions, kills and torn files.
THEOREM Rebuildable ==
    ASSUME ~Overlap
    PROVE  Spec => []RebuildableFromRaw
<1>1. FilesIInv /\ [Next]_vars => FilesIInv'
  BY NextFilesIInv
<1>2. FilesIInv => RebuildableFromRaw
  BY DEF FilesIInv
<1> QED
  BY <1>1, <1>2, InitFilesIInv, PTL DEF Spec

\* With one run at a time and none of them cut short, the metadata describes the
\* files on disk between two runs.
THEOREM MetadataIsRight ==
    ASSUME ~Overlap
    PROVE  Spec => []MetadataDescribesFiles
<1>1. FilesIInv /\ [Next]_vars => FilesIInv'
  BY NextFilesIInv
<1>2. FilesIInv => MetadataDescribesFiles
  BY IdleMetadata DEF FilesIInv
<1> QED
  BY <1>1, <1>2, InitFilesIInv, PTL DEF Spec

\* With one run at a time, a run that reports success has left its three L1 files,
\* their manifests and their metadata on disk, whatever became of earlier runs.
THEOREM SuccessIsPublished ==
    ASSUME ~Overlap
    PROVE  Spec => SuccessMeansPublished
<1>1. FilesIInv /\ [Next]_vars => FilesIInv'
  BY NextFilesIInv
<1>2. FilesIInv /\ [Next]_vars =>
        [\A r \in Run : (pstate[r] # "success" /\ pstate'[r] = "success") =>
            LET v == proc[r].ver IN
            /\ \A d \in RequiredForL1 : Written(l1[d][v]) /\ l1[d][v].by = r
            /\ \A m \in RequiredForL1 \cup {"equity_eod_l1"} :
                 manifest[m][v] # None /\ manifest[m][v].by = r /\ manifest[m][v].ok
            /\ meta[v] = r]_pstate
  BY StateAfterOutput DEF FilesIInv
<1> QED
  BY <1>1, <1>2, InitFilesIInv, PTL DEF Spec, SuccessMeansPublished

-------------------------------------------------------------------------------
(* The inductive strengthening: what the files on disk hold. *)

\* A file f of dataset d holds contents that passed their reports.
FilePassed(d, f) ==
    /\ f.rows \in DqOk[d]
    /\ (d = "equity_eod" /\ f.adj # None) => f.adj \in DqOk["corporate_actions"]

L0Passed == \A d \in Dataset, v \in Version : Written(l0[d][v]) => FilePassed(d, l0[d][v])

\* An L1 equity file was adjusted, an L0 one was not.
L1Passed ==
    /\ \A d \in RequiredForL1, v \in Version :
         Written(l1[d][v]) => FilePassed(d, l1[d][v])
    /\ \A v \in Version :
         Written(l1["equity_eod"][v]) => l1["equity_eod"][v].adj # None

\* A reader past the equity file holds a good one, not only a reader that is done.
EquityLoaded ==
    \A q \in Reader : view[q].pc \in {"equity", "loaded"} =>
        /\ view[q].eq.rows \in DqOk["equity_eod"]
        /\ view[q].eq.adj \in DqOk["corporate_actions"]

ReadersIInv ==
    /\ ReadersTypeOK /\ IInv /\ L0Passed /\ L1Passed
    /\ EquityLoaded /\ LoadedPassedDQ

-------------------------------------------------------------------------------
(* The files stay good. *)

\* A file was written by this step with good contents, or it was there before.
LEMMA FilesPassedBecause ==
    ASSUME TypeOK, L0Passed, L1Passed,
           \A d \in Dataset, v \in Version :
             Written(l0'[d][v]) => l0'[d][v] = l0[d][v] \/ FilePassed(d, l0'[d][v]),
           \A d \in RequiredForL1, v \in Version :
             Written(l1'[d][v]) =>
               \/ l1'[d][v] = l1[d][v]
               \/ /\ FilePassed(d, l1'[d][v])
                  /\ d = "equity_eod" => l1'[d][v].adj # None
    PROVE  L0Passed' /\ L1Passed'
<1>1. L0Passed'
  <2> SUFFICES ASSUME NEW d \in Dataset, NEW v \in Version, Written(l0'[d][v])
               PROVE  FilePassed(d, l0'[d][v])
    BY DEF L0Passed, FilePassed, Written
  <2> QED  BY DEF L0Passed
<1>2. ASSUME NEW d \in RequiredForL1, NEW v \in Version, Written(l1'[d][v])
      PROVE  FilePassed(d, l1'[d][v]) /\ (d = "equity_eod" => l1'[d][v].adj # None)
  BY <1>2 DEF L1Passed
<1> QED
  BY <1>1, <1>2, Datasets DEF L1Passed, FilePassed, Written

\* WriteL0 writes what passed the report just made.
LEMMA WriteL0Passed ==
    ASSUME TypeOK, L0Passed, L1Passed, NEW r \in Run, NEW d \in Dataset, WriteL0(r, d)
    PROVE  L0Passed' /\ L1Passed'
<1>1. UNCHANGED l1
  BY DEF WriteL0
<1>2. l0 \in [Dataset -> [Version -> CleanFile \cup {None, Torn}]]
  BY DEF TypeOK
<1>3. CASE UNCHANGED l0
  BY <1>1, <1>3, FilesPassedBecause
<1>4. CASE ReportOk(r, d) /\ l0' = [l0 EXCEPT ![d][proc[r].ver] = L0File(r, d)]
  <2>1. FilePassed(d, L0File(r, d))
    BY <1>4 DEF FilePassed, L0File, ReportOk
  <2>2. ASSUME NEW e \in Dataset, NEW v \in Version
        PROVE  l0'[e][v] = l0[e][v] \/ (e = d /\ l0'[e][v] = L0File(r, d))
    BY <1>2, <1>4
  <2> QED  BY <1>1, <2>1, <2>2, FilesPassedBecause
<1> QED  BY <1>3, <1>4 DEF WriteL0

\* A run that writes L1 has the frames of three datasets that passed.
LEMMA WriteL1Passed ==
    ASSUME TypeOK, LocalsOK, L0Passed, L1Passed,
           NEW r \in Run, NEW d \in RequiredForL1, NEW p \in L1Phase, NEW to,
           WriteL1(r, d, p, to)
    PROVE  L0Passed' /\ L1Passed'
<1>1. UNCHANGED l0 /\ l1' = [l1 EXCEPT ![d][proc[r].ver] = L1File(r, d)]
  BY DEF WriteL1
<1>2. l1 \in [RequiredForL1 -> [Version -> CleanFile \cup {None, Torn}]]
  BY DEF TypeOK
<1>3. HasL1Frames(r)
  BY DEF WriteL1, LocalsOK, GatePassed
<1>4. \A e \in RequiredForL1 : proc[r].frame[e] # None /\ proc[r].frame[e] \in DqOk[e]
  BY <1>3, Datasets DEF HasL1Frames, LocalsOK, FramesPassed
<1>5. /\ FilePassed(d, L1File(r, d))
      /\ d = "equity_eod" => L1File(r, d).adj # None
  BY <1>4, Datasets DEF FilePassed, L1File
<1>6. ASSUME NEW e \in RequiredForL1, NEW v \in Version
      PROVE  l1'[e][v] = l1[e][v] \/ (e = d /\ l1'[e][v] = L1File(r, d))
  BY <1>1, <1>2
<1> QED  BY <1>1, <1>5, <1>6, FilesPassedBecause

\* A writer that dies leaves no contents behind.
LEMMA TearTargetPassed ==
    ASSUME TypeOK, L0Passed, L1Passed, NEW r \in Run, TearTarget(r)
    PROVE  L0Passed' /\ L1Passed'
<1>1. /\ l0 \in [Dataset -> [Version -> CleanFile \cup {None, Torn}]]
      /\ l1 \in [RequiredForL1 -> [Version -> CleanFile \cup {None, Torn}]]
  BY DEF TypeOK
<1>2. CASE UNCHANGED <<l0, l1>>
  BY <1>2, FilesPassedBecause
<1>3. ASSUME NEW d \in Dataset, l0' = [l0 EXCEPT ![d][proc[r].ver] = Torn], UNCHANGED l1
      PROVE  L0Passed' /\ L1Passed'
  <2>1. \A e \in Dataset, v \in Version : l0'[e][v] = l0[e][v] \/ l0'[e][v] = Torn
    BY <1>1, <1>3
  <2> QED  BY <1>3, <2>1, FilesPassedBecause DEF Written
<1>4. ASSUME NEW d \in RequiredForL1, l1' = [l1 EXCEPT ![d][proc[r].ver] = Torn],
             UNCHANGED l0
      PROVE  L0Passed' /\ L1Passed'
  <2>1. \A e \in RequiredForL1, v \in Version : l1'[e][v] = l1[e][v] \/ l1'[e][v] = Torn
    BY <1>1, <1>4
  <2> QED  BY <1>4, <2>1, FilesPassedBecause DEF Written
<1> QED
  BY <1>2, <1>3, <1>4 DEF TearTarget

LEMMA NextPassed ==
    ASSUME TypeOK, LocalsOK, L0Passed, L1Passed, [Next]_vars
    PROVE  L0Passed' /\ L1Passed'
<1>1. CASE UNCHANGED <<l0, l1>>
  BY <1>1, FilesPassedBecause
<1>2. ASSUME NEW r \in Run, Fault(r)
      PROVE  L0Passed' /\ L1Passed'
  BY <1>2, TearTargetPassed DEF Fault, Die, DatasetRaises
<1>3. ASSUME NEW r \in Run, Step(r)
      PROVE  L0Passed' /\ L1Passed'
  <2>1. CASE \/ StartWithoutEquity(r) \/ \E v \in Version : Start(r, v)
             \/ WriteRunMetadata(r) \/ GateL1(r)
             \/ WriteL1Manifest(r) \/ WritePublishedMeta(r) \/ WritePipelineState(r)
    BY <1>1, <2>1 DEF StartWithoutEquity, Start, WriteRunMetadata, GateL1, cleanVars,
                      WriteL1Manifest, WritePublishedMeta, WritePipelineState
  <2>2. CASE \E d \in Dataset : L0Step(r, d)
    BY <1>1, <2>2, WriteL0Passed
    DEF L0Step, HashArtifact, Copying, BeginCopy, EndCopy, WriteSidecar, RecordManifest,
        cleanVars
  <2>3. CASE WriteL1Equity(r) \/ WriteL1Actions(r) \/ WriteL1Calendar(r)
    BY <2>3, Datasets, Phases, WriteL1Passed
    DEF WriteL1Equity, WriteL1Actions, WriteL1Calendar, RequiredForL1
  <2> QED  BY <1>3, <2>1, <2>2, <2>3 DEF Step
<1> QED
  BY <1>1, <1>2, <1>3 DEF Next, Drop, vars, cleanVars

-------------------------------------------------------------------------------
(* The readers. *)

\* A folder of Parquet files, some of which may be torn.
Folder == [Version -> CleanFile \cup {None, Torn}]

\* A readable folder has a latest file, and it is a whole one.
LEMMA LatestReadable ==
    ASSUME NEW folder \in Folder, Readable(folder)
    PROVE  /\ LatestParquet(folder) \in Version
           /\ folder[LatestParquet(folder)] \in CleanFile
           /\ Written(folder[LatestParquet(folder)])
<1>1. Existing(folder) \in SUBSET Version /\ Existing(folder) # {}
  BY DEF Existing, Readable
<1>2. \E v \in Existing(folder) : \A w \in Existing(folder) : w <= v
  BY <1>1, ReadersAssumption
<1>3. LatestParquet(folder) \in Existing(folder)
  BY <1>2 DEF LatestParquet
<1> QED  BY <1>3 DEF Existing, Readable, Written, Folder

\* The equity file loaded is an L1 file, which passed.
LEMMA LoadEquityStep ==
    ASSUME ReadersIInv, NEW q \in Reader, LoadEquity(q)
    PROVE  ReadersIInv'
<1> DEFINE folder == l1["equity_eod"]
           v == LatestParquet(folder)
<1>1. view \in [Reader -> View] /\ UNCHANGED vars /\ view[q].pc = "idle"
  BY DEF ReadersIInv, ReadersTypeOK, LoadEquity
<1>2. IInv' /\ TypeOK' /\ L0Passed' /\ L1Passed'
  BY <1>1 DEF ReadersIInv, ReadersTypeOK, IInv, TypeOK, LocalsOK, TodoListed, DigestKnown,
              RowsPassed, FramesPassed, GatePassed, WriterPastLoop, L1FailClosed,
              L0Passed, L1Passed, vars, cleanVars, rawVars, metaVars, envVars,
              Present, AtDataset, HasL1Frames, SessionGap
<1>3. folder \in Folder
  BY Datasets DEF ReadersIInv, ReadersTypeOK, TypeOK, Folder
<1>4. CASE Readable(folder)
  <2>1. /\ v \in Version /\ folder[v] \in CleanFile
        /\ folder[v].rows \in DqOk["equity_eod"]
        /\ folder[v].adj \in DqOk["corporate_actions"]
    BY <1>3, <1>4, LatestReadable, Datasets DEF ReadersIInv, L1Passed, FilePassed
  <2>2. view' = [view EXCEPT ![q].pc = "equity", ![q].eq = folder[v],
                             ![q].begun = Begun, ![q].calm = Idle]
    BY <1>4 DEF LoadEquity
  <2> HIDE DEF v, folder
  <2>3. Begun \in SUBSET Run /\ Idle \in BOOLEAN
    BY DEF Begun, Idle
  <2>4. view' \in [Reader -> View]
    <3> DEFINE f == folder[v]
               begun == Begun
               calm == Idle
    <3>1. f \in CleanFile /\ begun \in SUBSET Run /\ calm \in BOOLEAN
      BY <2>1, <2>3
    <3>2. view' = [view EXCEPT ![q] = [view[q] EXCEPT !.pc = "equity", !.eq = f,
                                                      !.begun = begun, !.calm = calm]]
      BY <2>2
    <3> HIDE DEF f, begun, calm
    <3>3. [view[q] EXCEPT !.pc = "equity", !.eq = f, !.begun = begun, !.calm = calm] \in View
      BY <1>1, <3>1 DEF View
    <3> QED  BY <1>1, <3>2, <3>3
  <2>5. /\ view'[q].pc = "equity" /\ view'[q].eq = folder[v]
        /\ \A p \in Reader \ {q} : view'[p] = view[p]
    BY <1>1, <2>2 DEF View
  <2>6. EquityLoaded' /\ LoadedPassedDQ'
    BY <2>1, <2>5 DEF ReadersIInv, EquityLoaded, LoadedPassedDQ, Loaded
  <2> QED  BY <1>2, <2>4, <2>6 DEF ReadersIInv, ReadersTypeOK
<1>5. CASE ~Readable(folder)
  <2>1. view' = [view EXCEPT ![q].pc = "failed"]
    BY <1>5 DEF LoadEquity
  <2>2. view' \in [Reader -> View]
    BY <1>1, <2>1 DEF View
  <2>3. view'[q].pc = "failed" /\ \A p \in Reader \ {q} : view'[p] = view[p]
    BY <1>1, <2>1 DEF View
  <2>4. EquityLoaded' /\ LoadedPassedDQ'
    BY <2>3 DEF ReadersIInv, EquityLoaded, LoadedPassedDQ, Loaded
  <2> QED  BY <1>2, <2>2, <2>4 DEF ReadersIInv, ReadersTypeOK
<1> QED  BY <1>4, <1>5

\* The calendar loaded is an L1 file or an L0 one, and both passed.
LEMMA LoadSessionsStep ==
    ASSUME ReadersIInv, NEW q \in Reader, LoadSessions(q)
    PROVE  ReadersIInv'
<1> DEFINE v == LatestParquet(CalendarFolder)
           calm == view[q].calm /\ Idle /\ Begun = view[q].begun
<1>1. view \in [Reader -> View] /\ UNCHANGED vars /\ view[q].pc = "equity"
  BY DEF ReadersIInv, ReadersTypeOK, LoadSessions
<1>2. IInv' /\ TypeOK' /\ L0Passed' /\ L1Passed'
  BY <1>1 DEF ReadersIInv, ReadersTypeOK, IInv, TypeOK, LocalsOK, TodoListed, DigestKnown,
              RowsPassed, FramesPassed, GatePassed, WriterPastLoop, L1FailClosed,
              L0Passed, L1Passed, vars, cleanVars, rawVars, metaVars, envVars,
              Present, AtDataset, HasL1Frames, SessionGap
<1>3. CalendarFolder \in Folder
  BY Datasets DEF ReadersIInv, ReadersTypeOK, TypeOK, Folder, CalendarFolder
<1>4. CASE Readable(CalendarFolder)
  <2>1. /\ v \in Version /\ CalendarFolder[v] \in CleanFile
        /\ CalendarFolder[v].rows \in DqOk["trading_calendar"]
    BY <1>3, <1>4, LatestReadable, Datasets
    DEF ReadersIInv, L0Passed, L1Passed, FilePassed, CalendarFolder
  <2>2. view' = [view EXCEPT ![q].pc = "loaded", ![q].cal = CalendarFolder[v],
                             ![q].calm = calm]
    BY <1>4 DEF LoadSessions
  <2>3. calm \in BOOLEAN
    OBVIOUS
  <2> HIDE DEF v, calm
  <2>4. view' \in [Reader -> View]
    <3> DEFINE f == CalendarFolder[v]
    <3>1. f \in CleanFile
      BY <2>1
    <3>2. view' = [view EXCEPT ![q] = [view[q] EXCEPT !.pc = "loaded", !.cal = f,
                                                      !.calm = calm]]
      BY <2>2
    <3> HIDE DEF f
    <3>3. [view[q] EXCEPT !.pc = "loaded", !.cal = f, !.calm = calm] \in View
      BY <1>1, <2>3, <3>1 DEF View
    <3> QED  BY <1>1, <3>2, <3>3
  <2>5. /\ view'[q].pc = "loaded" /\ view'[q].cal = CalendarFolder[v]
        /\ view'[q].eq = view[q].eq
        /\ \A p \in Reader \ {q} : view'[p] = view[p]
    BY <1>1, <2>2 DEF View
  <2>6. EquityLoaded' /\ LoadedPassedDQ'
    BY <1>1, <2>1, <2>5 DEF ReadersIInv, EquityLoaded, LoadedPassedDQ, Loaded
  <2> QED  BY <1>2, <2>4, <2>6 DEF ReadersIInv, ReadersTypeOK
<1>5. CASE ~Readable(CalendarFolder)
  <2>1. view' = [view EXCEPT ![q].pc = "failed"]
    BY <1>5 DEF LoadSessions
  <2>2. view' \in [Reader -> View]
    BY <1>1, <2>1 DEF View
  <2>3. view'[q].pc = "failed" /\ \A p \in Reader \ {q} : view'[p] = view[p]
    BY <1>1, <2>1 DEF View
  <2>4. EquityLoaded' /\ LoadedPassedDQ'
    BY <2>3 DEF ReadersIInv, EquityLoaded, LoadedPassedDQ, Loaded
  <2> QED  BY <1>2, <2>2, <2>4 DEF ReadersIInv, ReadersTypeOK
<1> QED  BY <1>4, <1>5

LEMMA FindEmptyFolderStep ==
    ASSUME ReadersIInv, NEW q \in Reader, FindEmptyFolder(q)
    PROVE  ReadersIInv'
<1>1. view \in [Reader -> View] /\ UNCHANGED vars
  BY DEF ReadersIInv, ReadersTypeOK, FindEmptyFolder
<1>2. IInv' /\ TypeOK' /\ L0Passed' /\ L1Passed'
  BY <1>1 DEF ReadersIInv, ReadersTypeOK, IInv, TypeOK, LocalsOK, TodoListed, DigestKnown,
              RowsPassed, FramesPassed, GatePassed, WriterPastLoop, L1FailClosed,
              L0Passed, L1Passed, vars, cleanVars, rawVars, metaVars, envVars,
              Present, AtDataset, HasL1Frames, SessionGap
<1>3. view' = [view EXCEPT ![q].pc = "failed"]
  BY DEF FindEmptyFolder
<1>4. view' \in [Reader -> View]
  BY <1>1, <1>3 DEF View
<1>5. view'[q].pc = "failed" /\ \A p \in Reader \ {q} : view'[p] = view[p]
  BY <1>1, <1>3 DEF View
<1>6. EquityLoaded' /\ LoadedPassedDQ'
  BY <1>5 DEF ReadersIInv, EquityLoaded, LoadedPassedDQ, Loaded
<1> QED  BY <1>2, <1>4, <1>6 DEF ReadersIInv, ReadersTypeOK

-------------------------------------------------------------------------------
(* The theorems. *)

LEMMA InitReaders == ReadersInit => ReadersIInv
<1> SUFFICES ASSUME ReadersInit PROVE ReadersIInv
  OBVIOUS
<1>1. IInv /\ TypeOK
  BY InitIInv DEF ReadersInit, IInv
<1>2. L0Passed /\ L1Passed
  BY Datasets DEF ReadersInit, Init, L0Passed, L1Passed, Written
<1>3. view \in [Reader -> View] /\ \A q \in Reader : view[q].pc = "idle"
  BY DEF ReadersInit, View
<1> QED
  BY <1>1, <1>2, <1>3 DEF ReadersIInv, ReadersTypeOK, EquityLoaded, LoadedPassedDQ, Loaded

LEMMA NextReaders == ReadersIInv /\ [ReadersNext]_<<vars, view>> => ReadersIInv'
<1> SUFFICES ASSUME ReadersIInv, [ReadersNext]_<<vars, view>> PROVE ReadersIInv'
  OBVIOUS
<1>1. CASE [Next]_vars /\ UNCHANGED view
  <2>1. IInv' /\ TypeOK'
    BY <1>1, NextIInv DEF ReadersIInv, IInv
  <2>2. L0Passed' /\ L1Passed'
    BY <1>1, NextPassed DEF ReadersIInv, IInv
  <2>3. view' \in [Reader -> View] /\ EquityLoaded' /\ LoadedPassedDQ'
    BY <1>1 DEF ReadersIInv, ReadersTypeOK, EquityLoaded, LoadedPassedDQ, Loaded
  <2> QED  BY <2>1, <2>2, <2>3 DEF ReadersIInv, ReadersTypeOK
<1>2. CASE \E q \in Reader : LoadEquity(q) \/ LoadSessions(q) \/ FindEmptyFolder(q)
  BY <1>2, LoadEquityStep, LoadSessionsStep, FindEmptyFolderStep
<1> QED  BY <1>1, <1>2 DEF ReadersNext

\* What the readers hold keeps its type: they never take a file that is not there
\* or is torn for a frame (features/inputs.py).
THEOREM ReadersTypeCorrect == ReadersSpec => []ReadersTypeOK
<1>1. ReadersIInv => ReadersTypeOK
  BY DEF ReadersIInv
<1> QED
  BY <1>1, InitReaders, NextReaders, PTL DEF ReadersSpec

\* Without locks or manifests, a reader of the L1 partition never computes on
\* contents that failed their report (features/inputs.py, ingest/pipeline.py).
THEOREM OnlyPassedIsLoaded == ReadersSpec => []LoadedPassedDQ
<1>1. ReadersIInv => LoadedPassedDQ
  BY DEF ReadersIInv
<1> QED
  BY <1>1, InitReaders, NextReaders, PTL DEF ReadersSpec

-------------------------------------------------------------------------------
(* A load during which no ingest ran. *)

\* Every L1 file has the rows of a frame of its writer, which is past its loop.
L1FromFrames ==
    \A d \in RequiredForL1, v \in Version : LET f == l1[d][v] IN
        Written(f) => proc[f.by].pc \in AfterLoop /\ f.rows = proc[f.by].frame[d]

LEMMA AfterLoopKept ==
    ASSUME IInv, NEW r \in Run, Step(r) \/ Fault(r), proc[r].pc \in AfterLoop
    PROVE  proc'[r].pc \in AfterLoop /\ proc'[r].frame = proc[r].frame
<1>1. TypeOK /\ proc[r].pc \notin {"idle", "meta", "loop", "copy", "copying", "sidecar", "clean", "record"}
  BY DEF IInv, AfterLoop, L1Phase
<1>2. CASE Die(r) \/ WriteL1Manifest(r) \/ WritePipelineState(r)
  BY <1>1, <1>2, MoveEffects, Phases DEF Moves, PhaseEffect, Kept, AfterLoop
<1>3. CASE WritePublishedMeta(r)
  BY <1>1, <1>3, PublishedMetaEffect DEF PhaseEffect, Kept, AfterLoop
<1>4. CASE WriteL1Equity(r) \/ WriteL1Actions(r) \/ WriteL1Calendar(r)
  BY <1>1, <1>4, WriteL1Effect, Phases
  DEF WriteL1Equity, WriteL1Actions, WriteL1Calendar, PhaseEffect, Kept, AfterLoop
<1>5. ~ (\/ StartWithoutEquity(r) \/ WriteRunMetadata(r) \/ GateL1(r)
         \/ \E v \in Version : Start(r, v))
  BY <1>1 DEF StartWithoutEquity, WriteRunMetadata, GateL1, Start, MayStart
<1>6. ~ \E d \in Dataset : L0Step(r, d) \/ DatasetRaises(r, d)
  BY <1>1
       DEF L0Step, HashArtifact, Copying, BeginCopy, EndCopy, WriteSidecar, WriteL0,
           RecordManifest, DatasetRaises
<1> QED
  BY <1>2, <1>3, <1>4, <1>5, <1>6 DEF Step, Fault

LEMMA NextL1FromFrames ==
    ASSUME IInv, TypeOK', L1FromFrames, NEW r \in Run, Step(r) \/ Fault(r)
    PROVE  L1FromFrames'
<1> SUFFICES ASSUME NEW d \in RequiredForL1, NEW v \in Version, Written(l1'[d][v])
             PROVE  /\ proc'[l1'[d][v].by].pc \in AfterLoop
                    /\ l1'[d][v].rows = proc'[l1'[d][v].by].frame[d]
  BY DEF L1FromFrames, Written
<1>1. TypeOK /\ l1[d][v] \in CleanFile \cup {None, Torn}
  BY DEF IInv, TypeOK
<1>2. CASE l1'[d][v] = l1[d][v]
  <2>1. l1[d][v] \in CleanFile /\ Written(l1[d][v])
    BY <1>1, <1>2 DEF Written
  <2>2. l1[d][v].by \in Run
    BY <2>1 DEF CleanFile
  <2>3. /\ proc[l1[d][v].by].pc \in AfterLoop
        /\ l1[d][v].rows = proc[l1[d][v].by].frame[d]
    BY <2>1 DEF L1FromFrames
  <2> QED
    BY <1>2, <2>2, <2>3, OthersKept, AfterLoopKept
<1>3. CASE proc'[r].pc \in L1Phase /\ PhaseEffect(r) /\ l1'[d][v] = L1File(r, d)
  BY <1>3 DEF L1File, PhaseEffect, Kept, AfterLoop
<1> QED
  BY <1>1, <1>2, <1>3, FileChanges DEF Written

\* A reader that found no ingest running holds the latest equity file as long as no
\* run has begun since.
CalmEquity ==
    \A q \in Reader : view[q].pc = "equity" =>
        /\ view[q].begun \subseteq Begun
        /\ (view[q].calm /\ Begun = view[q].begun) =>
             /\ Idle /\ Existing(l1["equity_eod"]) # {}
             /\ view[q].eq = l1["equity_eod"][LatestParquet(l1["equity_eod"])]

LEMMA IngestKeepsCalm ==
    ASSUME IInv, TypeOK', CalmEquity, NEW r \in Run, Step(r) \/ Fault(r), UNCHANGED view
    PROVE  CalmEquity'
<1>1. /\ TypeOK /\ proc'[r].pc # "idle"
      /\ \A q \in Run \ {r} : proc'[q] = proc[q]
  BY StepBegins, OthersKept DEF IInv
<1>2. Begun' = Begun \cup {r}
  BY <1>1 DEF Begun
<1>3. r \in Begun => Active(r)
  BY <1>1, ActiveSteps DEF MayStart, Begun, Active
<1> SUFFICES ASSUME NEW q \in Reader, view[q].pc = "equity"
             PROVE  /\ view[q].begun \subseteq Begun'
                    /\ ~(view[q].calm /\ Begun' = view[q].begun)
  BY DEF CalmEquity
<1>4. /\ view[q].begun \subseteq Begun
      /\ (view[q].calm /\ Begun = view[q].begun) => Idle
  BY DEF CalmEquity
<1> QED
  BY <1>2, <1>3, <1>4 DEF Idle

\* With no ingest running or cut short, the three L1 folders hold the same versions,
\* and each version is the work of one run.
LEMMA QuietPartition ==
    ASSUME FilesIInv, L1FromFrames, Idle, faults = 0, NEW v \in Existing(l1["equity_eod"])
    PROVE  /\ Existing(l1["trading_calendar"]) = Existing(l1["equity_eod"])
           /\ l1["trading_calendar"][v].by = l1["equity_eod"][v].by
           /\ <<l1["equity_eod"][v].rows, l1["trading_calendar"][v].rows>> \notin HardGap
<1>1. \A w \in Version : Announced(w) \/ Unpublished(w)
  BY DEF FilesIInv, L1Together, Idle, Active, L1Phase
<1>2. \A w \in Version : l1["trading_calendar"][w] # None <=> l1["equity_eod"][w] # None
  BY <1>1, Datasets DEF Announced, Unpublished, Written
<1>3. v \in Version /\ Announced(v)
  BY <1>1, Datasets DEF Existing, Unpublished
<1>4. /\ Written(l1["trading_calendar"][v]) /\ Written(l1["equity_eod"][v])
      /\ l1["trading_calendar"][v].by = l1["equity_eod"][v].by
  BY <1>3, Datasets DEF Announced
<1>5. l1["trading_calendar"][v].rows = proc[l1["equity_eod"][v].by].frame["trading_calendar"]
  BY <1>3, <1>4, Datasets DEF L1FromFrames
<1>6. <<l1["equity_eod"][v].rows,
        proc[l1["equity_eod"][v].by].frame["trading_calendar"]>> \notin HardGap
  BY <1>3, <1>4 DEF FilesIInv, IInv, L1FailClosed
<1> QED
  BY <1>2, <1>4, <1>5, <1>6 DEF Existing

CalmIInv == ReadersIInv /\ FilesIInv /\ L1FromFrames /\ CalmEquity /\ CalmLoadIsSnapshot

LEMMA LoadEquityCalm ==
    ASSUME CalmIInv, NEW q \in Reader, LoadEquity(q)
    PROVE  CalmEquity' /\ CalmLoadIsSnapshot'
<1> DEFINE folder == l1["equity_eod"]
           f == folder[LatestParquet(folder)]
           calm == Idle
<1>1. /\ view \in [Reader -> View] /\ UNCHANGED vars
      /\ Begun' = Begun /\ Idle' = Idle /\ UNCHANGED <<faults, l1>>
  BY DEF CalmIInv, ReadersIInv, ReadersTypeOK, LoadEquity, vars, Begun, Idle, Active,
         envVars, cleanVars
<1>2. CASE Readable(folder)
  <2>1. view' = [view EXCEPT ![q].pc = "equity", ![q].eq = f,
                             ![q].begun = Begun, ![q].calm = calm]
    BY <1>2 DEF LoadEquity
  <2>2. Existing(folder) # {}
    BY <1>2 DEF Readable
  <2> HIDE DEF f, calm
  <2>3. /\ view'[q].pc = "equity" /\ view'[q].eq = f /\ view'[q].begun = Begun
        /\ view'[q].calm = calm
        /\ \A p \in Reader \ {q} : view'[p] = view[p]
    BY <1>1, <2>1 DEF View
  <2>4. CalmLoadIsSnapshot'
    BY <1>1, <2>3 DEF CalmIInv, CalmLoadIsSnapshot, Loaded
  <2>5. ASSUME NEW p \in Reader, view'[p].pc = "equity"
        PROVE  /\ view'[p].begun \subseteq Begun
               /\ (view'[p].calm /\ Begun = view'[p].begun) =>
                    Idle /\ Existing(folder) # {} /\ view'[p].eq = f
    <3>1. CASE p = q
      BY <2>2, <2>3, <3>1 DEF calm
    <3>2. CASE p # q
      BY <2>3, <2>5, <3>2 DEF CalmIInv, CalmEquity, f
    <3> QED
      BY <3>1, <3>2
  <2>6. CalmEquity'
    BY <1>1, <2>5 DEF CalmEquity, f
  <2> QED
    BY <2>4, <2>6
<1>3. CASE ~Readable(folder)
  <2>1. view' = [view EXCEPT ![q].pc = "failed"]
    BY <1>3 DEF LoadEquity
  <2>2. view'[q].pc = "failed" /\ \A p \in Reader \ {q} : view'[p] = view[p]
    BY <1>1, <2>1 DEF View
  <2> QED
    BY <1>1, <2>2 DEF CalmIInv, CalmEquity, CalmLoadIsSnapshot, Loaded
<1> QED
  BY <1>2, <1>3

\* The calendar is taken from the version the equity file came from.
LEMMA LoadSessionsCalm ==
    ASSUME CalmIInv, NEW q \in Reader, LoadSessions(q)
    PROVE  CalmEquity' /\ CalmLoadIsSnapshot'
<1> DEFINE f == CalendarFolder[LatestParquet(CalendarFolder)]
           calm == view[q].calm /\ Idle /\ Begun = view[q].begun
<1>1. /\ view \in [Reader -> View] /\ UNCHANGED vars /\ view[q].pc = "equity"
      /\ Begun' = Begun /\ Idle' = Idle /\ UNCHANGED <<faults, l1>>
  BY DEF CalmIInv, ReadersIInv, ReadersTypeOK, LoadSessions, vars, Begun, Idle, Active,
         envVars, cleanVars
<1>2. ASSUME \A p \in Reader \ {q} : view'[p] = view[p], view'[q].pc # "equity",
             (view'[q].pc = "loaded" /\ view'[q].calm /\ faults = 0) =>
                /\ view'[q].cal.by = view'[q].eq.by
                /\ <<view'[q].eq.rows, view'[q].cal.rows>> \notin HardGap
      PROVE  CalmEquity' /\ CalmLoadIsSnapshot'
  BY <1>1, <1>2 DEF CalmIInv, CalmEquity, CalmLoadIsSnapshot, Loaded
<1>3. CASE Readable(CalendarFolder)
  <2>1. view' = [view EXCEPT ![q].pc = "loaded", ![q].cal = f, ![q].calm = calm]
    BY <1>3 DEF LoadSessions
  <2> HIDE DEF f, calm
  <2>2. /\ view'[q].pc = "loaded" /\ view'[q].cal = f /\ view'[q].calm = calm
        /\ view'[q].eq = view[q].eq
        /\ \A p \in Reader \ {q} : view'[p] = view[p]
    BY <1>1, <2>1 DEF View
  <2>3. ASSUME calm, faults = 0
        PROVE  /\ f.by = view[q].eq.by
               /\ <<view[q].eq.rows, f.rows>> \notin HardGap
    <3> DEFINE v == LatestParquet(l1["equity_eod"])
    <3>1. /\ Idle /\ Existing(l1["equity_eod"]) # {}
          /\ view[q].eq = l1["equity_eod"][v]
      BY <1>1, <2>3 DEF CalmIInv, CalmEquity, calm
    <3>2. Existing(l1["equity_eod"]) \in SUBSET Version
      BY DEF Existing
    <3>3. v \in Existing(l1["equity_eod"])
      BY <3>1, <3>2, ReadersAssumption DEF LatestParquet
    <3>4. /\ Existing(l1["trading_calendar"]) = Existing(l1["equity_eod"])
          /\ l1["trading_calendar"][v].by = l1["equity_eod"][v].by
          /\ <<l1["equity_eod"][v].rows, l1["trading_calendar"][v].rows>> \notin HardGap
      BY <2>3, <3>1, <3>3, QuietPartition DEF CalmIInv
    <3>5. CalendarFolder = l1["trading_calendar"]
      BY <3>1, <3>4 DEF CalendarFolder
    <3>6. LatestParquet(l1["trading_calendar"]) = v
      BY <3>4 DEF LatestParquet
    <3> QED
      BY <3>1, <3>4, <3>5, <3>6 DEF f
  <2> QED
    BY <1>2, <2>2, <2>3
<1>4. CASE ~Readable(CalendarFolder)
  <2>1. view' = [view EXCEPT ![q].pc = "failed"]
    BY <1>4 DEF LoadSessions
  <2>2. view'[q].pc = "failed" /\ \A p \in Reader \ {q} : view'[p] = view[p]
    BY <1>1, <2>1 DEF View
  <2> QED
    BY <1>2, <2>2
<1> QED
  BY <1>3, <1>4

LEMMA FindEmptyFolderCalm ==
    ASSUME CalmIInv, NEW q \in Reader, FindEmptyFolder(q)
    PROVE  CalmEquity' /\ CalmLoadIsSnapshot'
<1>1. view \in [Reader -> View] /\ UNCHANGED vars
  BY DEF CalmIInv, ReadersIInv, ReadersTypeOK, FindEmptyFolder
<1>2. view' = [view EXCEPT ![q].pc = "failed"]
  BY DEF FindEmptyFolder
<1>3. view'[q].pc = "failed" /\ \A p \in Reader \ {q} : view'[p] = view[p]
  BY <1>1, <1>2 DEF View
<1>4. UNCHANGED <<l1, proc, faults>>
  BY <1>1 DEF vars, cleanVars, envVars
<1> QED
  BY <1>3, <1>4 DEF CalmIInv, CalmEquity, CalmLoadIsSnapshot, Loaded, Begun, Idle, Active

LEMMA InitCalm == ReadersInit => CalmIInv
<1> SUFFICES ASSUME ReadersInit PROVE CalmIInv
  OBVIOUS
<1>1. ReadersIInv /\ FilesIInv
  BY InitReaders, InitFilesIInv DEF ReadersInit
<1>2. \A q \in Reader : view[q].pc = "idle"
  BY DEF ReadersInit
<1>3. L1FromFrames
  BY DEF ReadersInit, Init, L1FromFrames, Written
<1> QED
  BY <1>1, <1>2, <1>3 DEF CalmIInv, CalmEquity, CalmLoadIsSnapshot, Loaded

\* The environment and idling disturb no file and no run.
LEMMA UndisturbedCalm ==
    ASSUME L1FromFrames, CalmEquity, UNCHANGED <<l1, proc, view>>
    PROVE  L1FromFrames' /\ CalmEquity'
BY DEF L1FromFrames, Written, CalmEquity, Begun, Idle, Active

LEMMA NextCalm ==
    ASSUME ~Overlap, CalmIInv, [ReadersNext]_<<vars, view>>
    PROVE  CalmIInv'
<1>1. [Next]_vars
  BY DEF ReadersNext, LoadEquity, LoadSessions, FindEmptyFolder
<1>2. ReadersIInv' /\ FilesIInv'
  BY <1>1, NextReaders, NextFilesIInv DEF CalmIInv
<1>3. TypeOK /\ IInv /\ TypeOK'
  BY <1>2 DEF CalmIInv, ReadersIInv, IInv
<1>4. CASE [Next]_vars /\ UNCHANGED view
  <2>1. faults' = 0 => faults = 0
    <3>1. CASE \E r \in Run : Fault(r)
      BY <1>3, <3>1, FaultsCount
    <3>2. CASE \E r \in Run : Step(r)
      BY <3>2, StepEnvironment DEF envVars
    <3> QED
      BY <1>4, <3>1, <3>2 DEF Next, Drop, vars, envVars
  <2>2. CalmLoadIsSnapshot'
    BY <1>4, <2>1 DEF CalmIInv, CalmLoadIsSnapshot, Loaded
  <2>3. CASE (\E d \in Dataset, c \in Content : Drop(d, c)) \/ UNCHANGED vars
    BY <1>2, <1>4, <2>2, <2>3, UndisturbedCalm DEF CalmIInv, Drop, vars, cleanVars
  <2>4. CASE \E r \in Run : Step(r) \/ Fault(r)
    BY <1>2, <1>3, <1>4, <2>2, <2>4, NextL1FromFrames, IngestKeepsCalm DEF CalmIInv
  <2> QED
    BY <1>4, <2>3, <2>4 DEF Next
<1>5. CASE \E q \in Reader : LoadEquity(q) \/ LoadSessions(q) \/ FindEmptyFolder(q)
  <2>1. UNCHANGED <<l1, proc>>
    BY <1>5 DEF LoadEquity, LoadSessions, FindEmptyFolder, vars, cleanVars
  <2>2. L1FromFrames'
    BY <2>1 DEF CalmIInv, L1FromFrames, Written
  <2> QED
    BY <1>2, <1>5, <2>2, LoadEquityCalm, LoadSessionsCalm, FindEmptyFolderCalm
    DEF CalmIInv
<1> QED
  BY <1>4, <1>5 DEF ReadersNext

\* With one ingest at a time and none cut short, a reader during whose load no ingest
\* ran gets the equity file and the calendar of one run, with no recent session
\* missing between them, although it takes no lock and reads no manifest.
THEOREM CalmLoadsAreSnapshots ==
    ASSUME ~Overlap
    PROVE  ReadersSpec => []CalmLoadIsSnapshot
<1>1. CalmIInv /\ [ReadersNext]_<<vars, view>> => CalmIInv'
  BY NextCalm
<1>2. CalmIInv => CalmLoadIsSnapshot
  BY DEF CalmIInv
<1> QED
  BY <1>1, <1>2, InitCalm, PTL DEF ReadersSpec

\* Readers do not disturb the ingest: whatever holds of the runs alone holds beside
\* any number of readers.
THEOREM ReadersOnlyRead == ReadersSpec => Spec
<1>1. ReadersInit => Init
  BY DEF ReadersInit
<1>2. [ReadersNext]_<<vars, view>> => [Next]_vars
  BY DEF ReadersNext, LoadEquity, LoadSessions, FindEmptyFolder
<1> QED
  BY <1>1, <1>2, PTL DEF ReadersSpec, Spec
===============================================================================
