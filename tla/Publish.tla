------------------------------- MODULE Publish -------------------------------
(***************************************************************************)
(* The publishers downstream of ingest: stock-engine-compute-features,     *)
(* stock-engine-publish-labels and stock-engine-infer, on the partitions   *)
(* of one as_of_date.  Each loads its inputs, computes and validates a     *)
(* frame, writes one Parquet file and then describes it in a JSON          *)
(* manifest; inference adds a signals sidecar.  Labels and ranks refuse    *)
(* to replace a file without --overwrite, features never refuse.           *)
(*                                                                         *)
(* The commands are separate processes over one directory and take no      *)
(* lock.  A file is known by the run that wrote it and by the L1 rebuild   *)
(* its rows were computed from.                                            *)
(***************************************************************************)
EXTENDS Naturals

CONSTANTS
    Run,          \* executions of the three commands
    Target,       \* the partition each run publishes
    Refused,      \* <<partition, rebuild>> whose frame does not validate
    None, Torn,   \* no such file; a file whose writer died
    MaxRebuilds,  \* bound: publishes of L1 by ingest
    MaxFaults,    \* bound: exceptions and kills
    Overlap       \* TRUE: runs of one command may be in progress at once

Partition == {"features", "labels", "ranks"}

Rebuild == 0..MaxRebuilds

File == [by : Run, from : Rebuild]

ASSUME PublishAssumption ==
    /\ Target \in [Run -> Partition]
    /\ Refused \subseteq Partition \X Rebuild
    /\ {None, Torn} \cap (Run \cup File) = {} /\ None # Torn
    /\ MaxRebuilds \in Nat /\ MaxFaults \in Nat /\ Overlap \in BOOLEAN

VARIABLES
    l1,        \* rebuilds of L1 so far; 0: nothing is published yet
    data,      \* partition -> features.parquet, labels.parquet, ranks.parquet
    manifest,  \* partition -> the run the published manifest describes
    signals,   \* the run that wrote signals.json beside ranks.parquet
    proc,      \* the local variables of each run
    faults

fileVars == <<data, manifest, signals>>
pubVars == <<l1, fileVars, proc, faults>>

Local == [pc : {"idle", "load", "check", "data", "manifest", "signals",
                "success", "failed", "dead"},
          over : BOOLEAN,   \* --overwrite
          from : Rebuild]   \* rebuild the frame was computed from

PublishTypeOK ==
    /\ l1 \in Rebuild
    /\ data \in [Partition -> File \cup {None, Torn}]
    /\ manifest \in [Partition -> Run \cup {None}]
    /\ signals \in Run \cup {None}
    /\ proc \in [Run -> Local]
    /\ faults \in 0..MaxFaults

PublishInit ==
    /\ l1 = 0
    /\ data = [p \in Partition |-> None]
    /\ manifest = [p \in Partition |-> None]
    /\ signals = None
    /\ proc = [r \in Run |-> [pc |-> "idle", over |-> FALSE, from |-> 0]]
    /\ faults = 0

Ended == {"success", "failed", "dead"}

Active(r) == proc[r].pc \notin {"idle"} \cup Ended

\* Commands with an --overwrite flag, and a store that looks before it writes.
Guarded == {"labels", "ranks"}

Goto(r, label) == proc' = [proc EXCEPT ![r].pc = label]

-------------------------------------------------------------------------------

\* Ingest publishes L1 anew, at any time.
RebuildL1 ==
    /\ l1 < MaxRebuilds
    /\ l1' = l1 + 1
    /\ UNCHANGED <<fileVars, proc, faults>>

\* The command starts; an unsupported horizon, a broken registry or an unknown
\* feature ends it before it has read anything.
Begin(r, over) ==
    /\ proc[r].pc = "idle"
    /\ Overlap \/ \A q \in Run : Target[q] = Target[r] => ~Active(q)
    /\ over => Target[r] \in Guarded
    /\ \E label \in {"load", "failed"} :
         proc' = [proc EXCEPT ![r].pc = label, ![r].over = over]
    /\ UNCHANGED <<l1, fileVars, faults>>

\* Features and labels read L1; inference reads the published features, whatever
\* rebuild they are of.  A missing or broken input fails the run.
InputOf(r) ==
    IF Target[r] = "ranks"
    THEN IF data["features"] \in {None, Torn} THEN None ELSE data["features"].from
    ELSE IF l1 = 0 THEN None ELSE l1

\* Load, compute and validate; a frame that does not validate is not written.
LoadAndCompute(r) ==
    /\ proc[r].pc = "load"
    /\ IF InputOf(r) = None \/ <<Target[r], InputOf(r)>> \in Refused
       THEN Goto(r, "failed")
       ELSE proc' = [proc EXCEPT ![r].pc = "check", ![r].from = InputOf(r)]
    /\ UNCHANGED <<l1, fileVars, faults>>

\* Mutant: the store looks for the manifest.
CheckStoreByManifest(r) ==
    /\ proc[r].pc = "check"
    /\ Goto(r, IF Target[r] \in Guarded /\ manifest[Target[r]] # None /\ ~proc[r].over
               THEN "failed" ELSE "data")
    /\ UNCHANGED <<l1, fileVars, faults>>

\* store.write looks whether the file exists.
CheckStore(r) ==
    /\ proc[r].pc = "check"
    /\ Goto(r, IF Target[r] \in Guarded /\ data[Target[r]] # None /\ ~proc[r].over
               THEN "failed" ELSE "data")
    /\ UNCHANGED <<l1, fileVars, faults>>

WriteData(r) ==
    /\ proc[r].pc = "data"
    /\ data' = [data EXCEPT ![Target[r]] = [by |-> r, from |-> proc[r].from]]
    /\ Goto(r, "manifest")
    /\ UNCHANGED <<l1, manifest, signals, faults>>

\* Mutants: a manifest that is there is kept; the signals sidecar is not written.
WriteManifestOnce(r) ==
    /\ proc[r].pc = "manifest"
    /\ manifest' = IF manifest[Target[r]] # None THEN manifest
                   ELSE [manifest EXCEPT ![Target[r]] = r]
    /\ Goto(r, IF Target[r] = "ranks" THEN "signals" ELSE "success")
    /\ UNCHANGED <<l1, data, signals, faults>>

WriteManifestLast(r) ==
    /\ proc[r].pc = "manifest"
    /\ manifest' = [manifest EXCEPT ![Target[r]] = r]
    /\ Goto(r, "success")
    /\ UNCHANGED <<l1, data, signals, faults>>

WriteManifest(r) ==
    /\ proc[r].pc = "manifest"
    /\ manifest' = [manifest EXCEPT ![Target[r]] = r]
    /\ Goto(r, IF Target[r] = "ranks" THEN "signals" ELSE "success")
    /\ UNCHANGED <<l1, data, signals, faults>>

WriteSignals(r) ==
    /\ proc[r].pc = "signals"
    /\ signals' = r
    /\ Goto(r, "success")
    /\ UNCHANGED <<l1, data, manifest, faults>>

\* The process is killed, or an OSError is caught and reported as a failure; a
\* Parquet file being written is left torn, or not.
Fault(r) ==
    /\ faults < MaxFaults
    /\ Active(r)
    /\ \E label \in {"failed", "dead"} : Goto(r, label)
    /\ \/ UNCHANGED data
       \/ /\ proc[r].pc = "data"
          /\ data' = [data EXCEPT ![Target[r]] = Torn]
    /\ faults' = faults + 1
    /\ UNCHANGED <<l1, manifest, signals>>

PublishStep(r) ==
    \/ \E over \in BOOLEAN : Begin(r, over)
    \/ LoadAndCompute(r) \/ CheckStore(r)
    \/ WriteData(r) \/ WriteManifest(r) \/ WriteSignals(r)

PublishNext == RebuildL1 \/ \E r \in Run : PublishStep(r) \/ Fault(r)

PublishSpec == PublishInit /\ [][PublishNext]_pubVars

-------------------------------------------------------------------------------
(* Properties. *)

Owner(p) == IF data[p] \in {None, Torn} THEN data[p] ELSE data[p].by

Permitted(p) == {r \in Run : Target[r] = p /\ proc[r].over}

Labels == INSTANCE VersionedPartition
    WITH owner <- Owner("labels"), permitted <- Permitted("labels")

Ranks == INSTANCE VersionedPartition
    WITH owner <- Owner("ranks"), permitted <- Permitted("ranks")

\* ADR 06 and ADR 09: the label and the rank partition are versioned partitions,
\* whatever other commands run, fail and die meanwhile.
LabelsAreVersioned == Labels!PartitionSpec

RanksAreVersioned == Ranks!PartitionSpec

PublishedAreVersioned == LabelsAreVersioned /\ RanksAreVersioned

\* A run that reports success leaves a complete set: its own file, described by
\* its own manifest, and for ranks its own signals.  What earlier runs left when
\* they failed or died does not show through.
SuccessIsComplete ==
    [][\A r \in Run : (proc[r].pc # "success" /\ proc'[r].pc = "success") =>
          LET p == Target[r] IN
          /\ data'[p] = [by |-> r, from |-> proc[r].from]
          /\ manifest'[p] = r
          /\ p = "ranks" => signals' = r]_proc

\* With no fault so far, whenever no run is writing a partition its manifest
\* describes the file that is there, and signals.json belongs to ranks.parquet.
ManifestDescribesData ==
    faults = 0 =>
        \A p \in Partition :
            (\A r \in Run : Target[r] = p => ~Active(r)) =>
                /\ manifest[p] = Owner(p)
                /\ p = "ranks" => signals = Owner(p)
===============================================================================
