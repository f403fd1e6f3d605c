-------------------------------- MODULE Ingest --------------------------------
(***************************************************************************)
(* One as_of_date partition of the ingest stage                            *)
(* (src/stock_engine/ingest/pipeline.py and the stores it calls).          *)
(*                                                                         *)
(* Every path an ingest run writes is keyed by the as_of_date, so the      *)
(* partitions of two dates do not share a file and one partition is the    *)
(* whole story.  A run is one execution of the stock-engine-ingest command *)
(* and is named by its run_id.  The environment replaces files in          *)
(* data/incoming/ while a run is in progress, makes one dataset of the L0  *)
(* loop raise, and kills a process between any two steps or in the middle  *)
(* of a file.                                                              *)
(*                                                                         *)
(* A file's bytes are a member of Content: equal contents have equal       *)
(* SHA-256 digests and different ones do not, so a digest is the content   *)
(* it is computed from.  JSON documents are small and are written in one   *)
(* step.  A copy into the raw store is Torn until it ends, and other runs  *)
(* see that; a Parquet file is Torn if its writer dies.                    *)
(***************************************************************************)
EXTENDS Naturals

CONSTANTS
    Run,        \* run_ids: the executions of the command
    Version,    \* dataset_versions, numbered in the order of their file names
    Content,    \* contents of CSV files
    Offered,    \* what the operator may drop into data/incoming/, by dataset
    DqOk,       \* contents that pass the data-quality report, by dataset
    HardGap,    \* <<equity, calendar>> with a missing recent session
    None,       \* no such file, no value
    Torn,       \* a file whose writer died or has not finished
    MaxDrops,   \* bound: replacements of incoming files
    MaxFaults,  \* bound: exceptions and kills
    Overlap     \* TRUE: two runs may be in progress at once

Dataset == {"corporate_actions", "equity_eod", "symbol_isin_map", "trading_calendar"}

RequiredForL0 == {"equity_eod", "corporate_actions"}

RequiredForL1 == {"equity_eod", "corporate_actions", "trading_calendar"}

\* sorted(by_name.items()): the order of the L0 loop.
Rank == [corporate_actions |-> 1, equity_eod |-> 2, symbol_isin_map |-> 3,
         trading_calendar |-> 4]

\* A Parquet file by what its rows were parsed from, the corporate actions they
\* were adjusted with, and its lineage columns raw_sha256 and run_id.
CleanFile == [rows : Content, adj : Content \cup {None}, sha : Content, by : Run]

Manifest == [sha : Content, ok : BOOLEAN, clean : BOOLEAN, by : Run]

ASSUME IngestAssumption ==
    /\ Version \subseteq Nat /\ Version # {}
    /\ Offered \in [Dataset -> SUBSET Content]
    /\ DqOk \in [Dataset -> SUBSET Content]
    /\ HardGap \subseteq Content \X Content
    /\ {None, Torn} \cap (Content \cup Run \cup CleanFile \cup Manifest) = {}
    /\ None # Torn
    /\ MaxDrops \in Nat /\ MaxFaults \in Nat /\ Overlap \in BOOLEAN

VARIABLES
    incoming,  \* data/incoming/: dataset -> content
    raw,       \* data/raw/: dataset -> digest in the file name -> bytes
    sidecar,   \* dataset -> digest -> the run its .sha256.json describes
    l0,        \* data/clean/l0/: dataset -> version -> file
    l1,        \* data/clean/l1/: dataset -> version -> file
    manifest,  \* data/metadata/manifests/: name -> version -> document
    meta,      \* data/metadata/published/: version -> the run that wrote it
    runMeta,   \* data/metadata/runs/: run_ids with a RunMetadata document
    pstate,    \* data/metadata/pipeline/: run_id -> status
    proc,      \* the local variables of each run
    drops, faults

cleanVars == <<l0, l1>>
rawVars == <<raw, sidecar>>
metaVars == <<manifest, meta, runMeta, pstate>>
envVars == <<incoming, drops, faults>>
vars == <<cleanVars, rawVars, metaVars, envVars, proc>>

ManifestName == Dataset \cup {"equity_eod_l1"}

L1Phase == {"l1_equity", "l1_actions", "l1_calendar", "l1_manifest", "l1_meta"}

Phase == {"idle", "meta", "loop", "copy", "copying", "sidecar", "clean", "record",
          "state", "done", "dead"} \cup L1Phase

Local == [pc : Phase, ver : Version, todo : SUBSET Dataset,
          pre : Content \cup {None},     \* equity_raw_df
          digest : Content \cup {None},  \* digest of the artifact being archived
          rows : Content \cup {None},    \* published_df of _ingest_l0_one
          ok : BOOLEAN,                  \* report.ok of _ingest_l0_one
          frame : [Dataset -> Content \cup {None}],  \* l0_frames
          sha : [Dataset -> Content \cup {None}],    \* sha256 of manifests
          allow : BOOLEAN,               \* allow_l0
          good : BOOLEAN,                \* errors is still empty
          pub : BOOLEAN]                 \* l1_published

TypeOK ==
    /\ incoming \in [Dataset -> Content \cup {None}]
    /\ raw \in [Dataset -> [Content -> Content \cup {None, Torn}]]
    /\ sidecar \in [Dataset -> [Content -> Run \cup {None}]]
    /\ l0 \in [Dataset -> [Version -> CleanFile \cup {None, Torn}]]
    /\ l1 \in [RequiredForL1 -> [Version -> CleanFile \cup {None, Torn}]]
    /\ manifest \in [ManifestName -> [Version -> Manifest \cup {None}]]
    /\ meta \in [Version -> Run \cup {None}]
    /\ runMeta \in SUBSET Run
    /\ pstate \in [Run -> {"none", "success", "failed"}]
    /\ proc \in [Run -> Local]
    /\ drops \in 0..MaxDrops
    /\ faults \in 0..MaxFaults

Init ==
    /\ incoming \in {f \in [Dataset -> Content \cup {None}] :
                        \A d \in Dataset : f[d] \in Offered[d] \cup {None}}
    /\ raw = [d \in Dataset |-> [c \in Content |-> None]]
    /\ sidecar = [d \in Dataset |-> [c \in Content |-> None]]
    /\ l0 = [d \in Dataset |-> [v \in Version |-> None]]
    /\ l1 = [d \in RequiredForL1 |-> [v \in Version |-> None]]
    /\ manifest = [m \in ManifestName |-> [v \in Version |-> None]]
    /\ meta = [v \in Version |-> None]
    /\ runMeta = {}
    /\ pstate = [r \in Run |-> "none"]
    /\ proc = [r \in Run |->
         [pc |-> "idle", ver |-> CHOOSE v \in Version : TRUE, todo |-> {},
          pre |-> None, digest |-> None, rows |-> None, ok |-> FALSE,
          frame |-> [d \in Dataset |-> None], sha |-> [d \in Dataset |-> None],
          allow |-> FALSE, good |-> TRUE, pub |-> FALSE]]
    /\ drops = 0 /\ faults = 0

Active(r) == proc[r].pc \notin {"idle", "done", "dead"}

MayStart(r) ==
    /\ proc[r].pc = "idle"
    /\ Overlap \/ \A q \in Run : ~Active(q)

Present == {d \in Dataset : incoming[d] # None}

\* The local variables of run r become l.
Becomes(r, l) == proc' = [proc EXCEPT ![r] = l]

-------------------------------------------------------------------------------
(* The environment. *)

\* The operator puts another file under an accepted name in data/incoming/.
Drop(d, c) ==
    /\ drops < MaxDrops
    /\ c \in Offered[d] \ {incoming[d]}
    /\ incoming' = [incoming EXCEPT ![d] = c]
    /\ drops' = drops + 1
    /\ UNCHANGED <<cleanVars, rawVars, metaVars, proc, faults>>

-------------------------------------------------------------------------------
(* Start of a run. *)

\* No equity_eod artifact: a failed pipeline state and nothing else.
StartWithoutEquity(r) ==
    /\ MayStart(r)
    /\ "equity_eod" \notin Present
    /\ pstate' = [pstate EXCEPT ![r] = "failed"]
    /\ Becomes(r, [proc[r] EXCEPT !.pc = "done"])
    /\ UNCHANGED <<cleanVars, rawVars, manifest, meta, runMeta, envVars>>

\* list_artifacts fixes the datasets of the run, and the equity CSV is read
\* from data/incoming/ before anything is archived.
Start(r, v) ==
    /\ MayStart(r)
    /\ "equity_eod" \in Present
    /\ Becomes(r, [proc[r] EXCEPT !.pc = "meta", !.ver = v, !.todo = Present,
                                  !.pre = incoming["equity_eod"],
                                  !.allow = RequiredForL0 \subseteq Present,
                                  !.good = RequiredForL0 \subseteq Present])
    /\ UNCHANGED <<cleanVars, rawVars, metaVars, envVars>>

WriteRunMetadata(r) ==
    /\ proc[r].pc = "meta"
    /\ runMeta' = runMeta \cup {r}
    /\ Becomes(r, [proc[r] EXCEPT !.pc = "loop"])
    /\ UNCHANGED <<cleanVars, rawVars, manifest, meta, pstate, envVars>>

-------------------------------------------------------------------------------
(* The L0 loop: _ingest_l0_one for each dataset listed, in order. *)

AtDataset(r, d) ==
    /\ d \in proc[r].todo
    /\ \A e \in proc[r].todo : Rank[d] <= Rank[e]

\* What "except Exception" leaves: an error, and the next dataset.
SkipDataset(r, d) ==
    Becomes(r, [proc[r] EXCEPT !.pc = "loop", !.good = FALSE, !.todo = @ \ {d}])

\* Mutant: archive_raw copies without looking for the path.
HashArtifactUnchecked(r, d) ==
    /\ proc[r].pc = "loop"
    /\ AtDataset(r, d)
    /\ Becomes(r, [proc[r] EXCEPT !.pc = "copy", !.digest = incoming[d]])
    /\ UNCHANGED <<rawVars, cleanVars, metaVars, envVars>>

\* archive_raw: hash the artifact and look for the path named after the digest.
HashArtifact(r, d) ==
    /\ proc[r].pc = "loop"
    /\ AtDataset(r, d)
    /\ LET c == incoming[d] IN
       \/ /\ raw[d][c] = None
          /\ Becomes(r, [proc[r] EXCEPT !.pc = "copy", !.digest = c])
       \/ /\ raw[d][c] = c  \* identical: reused
          /\ Becomes(r, [proc[r] EXCEPT !.pc = "sidecar", !.digest = c])
       \/ /\ raw[d][c] \notin {None, c}  \* FileExistsError
          /\ SkipDataset(r, d)
    /\ UNCHANGED <<rawVars, cleanVars, metaVars, envVars>>

\* archive_raw: shutil.copy2 creates the file, which has a part of its bytes until
\* the copy ends.
BeginCopy(r, d) ==
    /\ proc[r].pc = "copy"
    /\ AtDataset(r, d)
    /\ raw' = [raw EXCEPT ![d][proc[r].digest] = Torn]
    /\ Becomes(r, [proc[r] EXCEPT !.pc = "copying"])
    /\ UNCHANGED <<sidecar, cleanVars, metaVars, envVars>>

\* The end of the copy: the file has the bytes of the artifact as it is now.
EndCopy(r, d) ==
    /\ proc[r].pc = "copying"
    /\ AtDataset(r, d)
    /\ raw' = [raw EXCEPT ![d][proc[r].digest] = incoming[d]]
    /\ Becomes(r, [proc[r] EXCEPT !.pc = "sidecar"])
    /\ UNCHANGED <<sidecar, cleanVars, metaVars, envVars>>

\* archive_raw: the sidecar, of a new raw object or of one that is reused.
WriteSidecar(r, d) ==
    /\ proc[r].pc = "sidecar"
    /\ AtDataset(r, d)
    /\ sidecar' = [sidecar EXCEPT ![d][proc[r].digest] = r]
    /\ Becomes(r, [proc[r] EXCEPT !.pc = "clean"])
    /\ UNCHANGED <<raw, cleanVars, metaVars, envVars>>

\* Mutant: verify_checksum is not called.
ChecksumUnverified(r, d) == TRUE

ChecksumOk(r, d) == raw[d][proc[r].digest] = proc[r].digest

\* The frame is the preloaded one for equity_eod, the raw file's for the others.
Parsed(r, d) == IF d = "equity_eod" THEN proc[r].pre ELSE raw[d][proc[r].digest]

\* Mutant: the data-quality report is not looked at.
ReportIgnored(r, d) == ChecksumOk(r, d)

ReportOk(r, d) == ChecksumOk(r, d) /\ Parsed(r, d) \in DqOk[d]

L0File(r, d) ==
    [rows |-> Parsed(r, d), adj |-> None, sha |-> proc[r].digest, by |-> r]

\* verify_checksum, normalize and validate, then the L0 Parquet file if the
\* report is clean and publishing is allowed.
WriteL0(r, d) ==
    /\ proc[r].pc = "clean"
    /\ AtDataset(r, d)
    /\ IF ReportOk(r, d) /\ proc[r].allow
       THEN /\ l0' = [l0 EXCEPT ![d][proc[r].ver] = L0File(r, d)]
            /\ Becomes(r, [proc[r] EXCEPT !.pc = "record", !.ok = TRUE,
                                          !.rows = Parsed(r, d)])
       ELSE /\ Becomes(r, [proc[r] EXCEPT !.pc = "record", !.ok = ReportOk(r, d),
                                          !.rows = None])
            /\ UNCHANGED l0
    /\ UNCHANGED <<l1, rawVars, metaVars, envVars>>

\* Mutant: the manifest names a clean file whenever the report is good, also when
\* publishing was not allowed.
RecordManifestByReport(r, d) ==
    /\ proc[r].pc = "record"
    /\ AtDataset(r, d)
    /\ manifest' = [manifest EXCEPT ![d][proc[r].ver] =
                        [sha |-> proc[r].digest, ok |-> proc[r].ok,
                         clean |-> proc[r].ok, by |-> r]]
    /\ Becomes(r, [proc[r] EXCEPT !.pc = "loop", !.todo = @ \ {d},
                                  !.frame[d] = proc[r].rows,
                                  !.sha[d] = proc[r].digest,
                                  !.good = @ /\ proc[r].ok])
    /\ UNCHANGED <<cleanVars, rawVars, meta, runMeta, pstate, envVars>>

\* write_dataset_manifest, and the caller's bookkeeping of the result.
RecordManifest(r, d) ==
    /\ proc[r].pc = "record"
    /\ AtDataset(r, d)
    /\ manifest' = [manifest EXCEPT ![d][proc[r].ver] =
                        [sha |-> proc[r].digest, ok |-> proc[r].ok,
                         clean |-> proc[r].rows # None, by |-> r]]
    /\ Becomes(r, [proc[r] EXCEPT !.pc = "loop", !.todo = @ \ {d},
                                  !.frame[d] = proc[r].rows,
                                  !.sha[d] = proc[r].digest,
                                  !.good = @ /\ proc[r].ok])
    /\ UNCHANGED <<cleanVars, rawVars, meta, runMeta, pstate, envVars>>

-------------------------------------------------------------------------------
(* The L1 gate and the L1 publish, outside any try block. *)

\* Mutant: the calendar is not among the datasets required for L1.
HasL1FramesButCalendar(r) ==
    proc[r].allow /\ \A d \in RequiredForL0 : proc[r].frame[d] # None

HasL1Frames(r) ==
    proc[r].allow /\ \A d \in RequiredForL1 : proc[r].frame[d] # None

SessionGap(r) ==
    <<proc[r].frame["equity_eod"], proc[r].frame["trading_calendar"]>> \in HardGap

\* detect_missing_sessions; any reason not to build L1 is an error.
GateL1(r) ==
    /\ proc[r].pc = "loop"
    /\ proc[r].todo = {}
    /\ Becomes(r, IF HasL1Frames(r) /\ ~SessionGap(r)
                  THEN [proc[r] EXCEPT !.pc = "l1_equity"]
                  ELSE [proc[r] EXCEPT !.pc = "state", !.good = FALSE])
    /\ UNCHANGED <<cleanVars, rawVars, metaVars, envVars>>

L1File(r, d) ==
    [rows |-> proc[r].frame[d], sha |-> proc[r].sha[d], by |-> r,
     adj |-> IF d = "equity_eod" THEN proc[r].frame["corporate_actions"] ELSE None]

WriteL1(r, d, from, to) ==
    /\ proc[r].pc = from
    /\ l1' = [l1 EXCEPT ![d][proc[r].ver] = L1File(r, d)]
    /\ Becomes(r, [proc[r] EXCEPT !.pc = to])
    /\ UNCHANGED <<l0, rawVars, metaVars, envVars>>

WriteL1Equity(r) == WriteL1(r, "equity_eod", "l1_equity", "l1_actions")

WriteL1Actions(r) == WriteL1(r, "corporate_actions", "l1_actions", "l1_calendar")

\* Mutant: a calendar that is there is kept.
WriteL1CalendarOnce(r) ==
    /\ proc[r].pc = "l1_calendar"
    /\ l1' = IF l1["trading_calendar"][proc[r].ver] # None THEN l1
             ELSE [l1 EXCEPT !["trading_calendar"][proc[r].ver] =
                      L1File(r, "trading_calendar")]
    /\ Becomes(r, [proc[r] EXCEPT !.pc = "l1_manifest"])
    /\ UNCHANGED <<l0, rawVars, metaVars, envVars>>

WriteL1Calendar(r) == WriteL1(r, "trading_calendar", "l1_calendar", "l1_manifest")

WriteL1Manifest(r) ==
    /\ proc[r].pc = "l1_manifest"
    /\ manifest' = [manifest EXCEPT !["equity_eod_l1"][proc[r].ver] =
                        [sha |-> proc[r].sha["equity_eod"], ok |-> TRUE,
                         clean |-> TRUE, by |-> r]]
    /\ Becomes(r, [proc[r] EXCEPT !.pc = "l1_meta"])
    /\ UNCHANGED <<cleanVars, rawVars, meta, runMeta, pstate, envVars>>

WritePublishedMeta(r) ==
    /\ proc[r].pc = "l1_meta"
    /\ meta' = [meta EXCEPT ![proc[r].ver] = r]
    /\ Becomes(r, [proc[r] EXCEPT !.pc = "state", !.pub = TRUE])
    /\ UNCHANGED <<cleanVars, rawVars, manifest, runMeta, pstate, envVars>>

\* Mutant: what was published decides the status, whatever the errors.
WritePipelineStateByPublish(r) ==
    /\ proc[r].pc = "state"
    /\ pstate' = [pstate EXCEPT ![r] = IF proc[r].pub THEN "success" ELSE "failed"]
    /\ Becomes(r, [proc[r] EXCEPT !.pc = "done"])
    /\ UNCHANGED <<cleanVars, rawVars, manifest, meta, runMeta, envVars>>

\* An ingest that published nothing has an error, whatever happened.
WritePipelineState(r) ==
    /\ proc[r].pc = "state"
    /\ pstate' = [pstate EXCEPT ![r] =
                    IF proc[r].good /\ proc[r].pub THEN "success" ELSE "failed"]
    /\ Becomes(r, [proc[r] EXCEPT !.pc = "done"])
    /\ UNCHANGED <<cleanVars, rawVars, manifest, meta, runMeta, envVars>>

-------------------------------------------------------------------------------
(* Faults. *)

\* The Parquet file a run is about to write may be left half written; a copy that
\* does not end leaves the part that is there.
TearTarget(r) ==
    \/ UNCHANGED <<l0, l1>>
    \/ \E d \in Dataset :
         /\ proc[r].pc = "clean" /\ AtDataset(r, d)
         /\ ReportOk(r, d) /\ proc[r].allow
         /\ l0' = [l0 EXCEPT ![d][proc[r].ver] = Torn]
         /\ UNCHANGED l1
    \/ \E d \in RequiredForL1 :
         /\ <<proc[r].pc, d>> \in {<<"l1_equity", "equity_eod">>,
                                   <<"l1_actions", "corporate_actions">>,
                                   <<"l1_calendar", "trading_calendar">>}
         /\ l1' = [l1 EXCEPT ![d][proc[r].ver] = Torn]
         /\ UNCHANGED l0

\* An exception inside the loop (unreadable CSV, full disk) is caught there.
DatasetRaises(r, d) ==
    /\ faults < MaxFaults
    /\ proc[r].pc \in {"loop", "copy", "copying", "sidecar", "clean", "record"}
    /\ AtDataset(r, d)
    /\ TearTarget(r)
    /\ SkipDataset(r, d)
    /\ faults' = faults + 1
    /\ UNCHANGED <<rawVars, metaVars, incoming, drops>>

\* The process is killed, or an exception escapes run_ingest.
Die(r) ==
    /\ faults < MaxFaults
    /\ Active(r)
    /\ TearTarget(r)
    /\ Becomes(r, [proc[r] EXCEPT !.pc = "dead"])
    /\ faults' = faults + 1
    /\ UNCHANGED <<rawVars, metaVars, incoming, drops>>

-------------------------------------------------------------------------------

L0Step(r, d) ==
    \/ HashArtifact(r, d) \/ BeginCopy(r, d) \/ EndCopy(r, d) \/ WriteSidecar(r, d)
    \/ WriteL0(r, d) \/ RecordManifest(r, d)

Step(r) ==
    \/ StartWithoutEquity(r)
    \/ \E v \in Version : Start(r, v)
    \/ WriteRunMetadata(r)
    \/ \E d \in Dataset : L0Step(r, d)
    \/ GateL1(r)
    \/ WriteL1Equity(r) \/ WriteL1Actions(r) \/ WriteL1Calendar(r)
    \/ WriteL1Manifest(r) \/ WritePublishedMeta(r) \/ WritePipelineState(r)

Fault(r) == Die(r) \/ \E d \in Dataset : DatasetRaises(r, d)

Next ==
    \/ \E d \in Dataset, c \in Content : Drop(d, c)
    \/ \E r \in Run : Step(r) \/ Fault(r)

Spec == Init /\ [][Next]_vars

-------------------------------------------------------------------------------
(* Properties. *)

Written(f) == f \notin {None, Torn}

\* Fail closed (ADR 03 section 7, ADR 04): an L1 equity file was built by a run
\* whose equity, corporate actions and calendar all passed their reports and
\* whose calendar shows no missing recent session, whatever was dropped, raised,
\* torn or killed, and whichever runs overlapped.
L1FailClosed ==
    \A v \in Version : LET f == l1["equity_eod"][v] IN
        Written(f) =>
            LET frame == proc[f.by].frame IN
            /\ f.rows = frame["equity_eod"] /\ f.adj = frame["corporate_actions"]
            /\ \A d \in RequiredForL1 : frame[d] \in DqOk[d]
            /\ <<f.rows, frame["trading_calendar"]>> \notin HardGap

FromRaw(d, f) ==
    /\ f.sha = f.rows /\ raw[d][f.sha] = f.rows
    /\ sidecar[d][f.sha] # None /\ f.by \in runMeta

\* ADR 03 section 5, "clean layer is rebuildable from raw": raw_sha256 is the
\* digest of the bytes the rows were parsed from, the raw object it names holds those
\* bytes and has a sidecar, and the run_id leads to a RunMetadata document.  This is
\* the property for the datasets that are parsed from the raw copy.
RebuildableFromRaw ==
    \A v \in Version : \A d \in Dataset \ {"equity_eod"} :
        /\ Written(l0[d][v]) => FromRaw(d, l0[d][v])
        /\ (d \in RequiredForL1 /\ Written(l1[d][v])) => FromRaw(d, l1[d][v])

\* The same for equity_eod, which is parsed from data/incoming/ instead.
EquityRebuildableFromRaw ==
    \A v \in Version :
        Written(l0["equity_eod"][v]) => FromRaw("equity_eod", l0["equity_eod"][v])

\* ADR 03 section 5, "raw files are immutable forever (never overwrite)": what is
\* under a raw path changes only at the end of the copy that created it.
RawImmutable ==
    [][\A d \in Dataset, c \in Content :
          raw[d][c] \notin {None, raw'[d][c]} =>
              /\ raw[d][c] = Torn
              /\ \E r \in Run : /\ proc[r].pc = "copying"
                                /\ AtDataset(r, d) /\ proc[r].digest = c]_raw

\* As long as no run was cut short, the metadata found between two runs
\* describes exactly the files on disk: same writer, for every manifest that
\* claims a clean file and for the published L1 version.
MetadataDescribesFiles ==
    (faults = 0 /\ \A r \in Run : ~Active(r)) =>
        \A v \in Version :
            /\ \A d \in Dataset : LET m == manifest[d][v] IN
                 (m # None /\ m.clean) =>
                    Written(l0[d][v]) /\ l0[d][v].by = m.by /\ l0[d][v].sha = m.sha
            /\ meta[v] # None =>
                 /\ manifest["equity_eod_l1"][v].by = meta[v]
                 /\ \A d \in RequiredForL1 :
                      Written(l1[d][v]) /\ l1[d][v].by = meta[v]

\* A run that reports success leaves its own three L1 files, their manifest and
\* their published metadata behind, whatever happened to earlier runs.
SuccessMeansPublished ==
    [][\A r \in Run : (pstate[r] # "success" /\ pstate'[r] = "success") =>
          LET v == proc[r].ver IN
          /\ \A d \in RequiredForL1 : Written(l1[d][v]) /\ l1[d][v].by = r
          /\ \A m \in RequiredForL1 \cup {"equity_eod_l1"} :
               manifest[m][v] # None /\ manifest[m][v].by = r /\ manifest[m][v].ok
          /\ meta[v] = r]_pstate

L1Inputs ==
    /\ RequiredForL1 \subseteq Present
    /\ \A d \in RequiredForL1 : incoming[d] \in DqOk[d]
    /\ <<incoming["equity_eod"], incoming["trading_calendar"]>> \notin HardGap

\* With incoming files that stay put, no fault and one run at a time, the four CSV
\* files alone decide what every run does: L1 is published exactly when the three
\* required files pass, and success needs the optional symbol map to pass as well.
\* (A run that finds another's copy half written refuses the dataset.)
InputsDecideOutcome ==
    (drops = 0 /\ faults = 0) =>
        \A r \in Run : proc[r].pc = "done" =>
            /\ proc[r].pub <=> L1Inputs
            /\ pstate[r] = "success" <=>
                 /\ L1Inputs
                 /\ incoming["symbol_isin_map"] \in DqOk["symbol_isin_map"] \cup {None}
===============================================================================
