---------------------------- MODULE PublishProofs ----------------------------
(***************************************************************************)
(* The label and the rank partition are versioned partitions as long as    *)
(* the runs of one command come one after another, for any number of runs, *)
(* rebuilds, exceptions and kills, and any timing against the other        *)
(* commands.  Under the same condition a run that succeeds leaves a        *)
(* complete set of files, and manifests describe the files beside them.    *)
(***************************************************************************)
EXTENDS Publish, TLAPS

THEOREM TypeCorrect == PublishSpec => []PublishTypeOK
<1>1. PublishInit => PublishTypeOK
  BY PublishAssumption DEF PublishInit, PublishTypeOK, Local, Rebuild, Partition
<1>2. PublishTypeOK /\ [PublishNext]_pubVars => PublishTypeOK'
  <2> SUFFICES ASSUME PublishTypeOK, [PublishNext]_pubVars PROVE PublishTypeOK'
    OBVIOUS
  <2>1. CASE UNCHANGED pubVars
    BY <2>1 DEF pubVars, fileVars, PublishTypeOK
  <2>2. CASE RebuildL1
    BY <2>2, PublishAssumption DEF RebuildL1, fileVars, PublishTypeOK, Rebuild
  <2>3. ASSUME NEW r \in Run, NEW over \in BOOLEAN, Begin(r, over) PROVE PublishTypeOK'
    <3>1. PICK label \in {"load", "failed"} :
            proc' = [proc EXCEPT ![r].pc = label, ![r].over = over]
      BY <2>3 DEF Begin
    <3>2. proc \in [Run -> Local]
      BY DEF PublishTypeOK
    <3>3. [proc[r] EXCEPT !.pc = label, !.over = over] \in Local
      BY <3>2 DEF Local
    <3>4. proc' \in [Run -> Local]
      BY <3>1, <3>2, <3>3
    <3> QED
      BY <2>3, <3>4 DEF Begin, fileVars, PublishTypeOK
  <2>4. ASSUME NEW r \in Run, LoadAndCompute(r) PROVE PublishTypeOK'
    <3>1. InputOf(r) # None => InputOf(r) \in Rebuild
      <4>1. data["features"] \in File \cup {None, Torn} /\ l1 \in Rebuild
        BY DEF PublishTypeOK, Partition
      <4> QED
        BY <4>1 DEF InputOf, File
    <3>2. proc' \in [Run -> Local]
      <4>1. proc \in [Run -> Local]
        BY DEF PublishTypeOK
      <4> QED
        BY <2>4, <3>1, <4>1 DEF LoadAndCompute, Goto, Local
    <3> QED
      BY <2>4, <3>2 DEF LoadAndCompute, fileVars, PublishTypeOK
  <2>5. ASSUME NEW r \in Run, CheckStore(r) PROVE PublishTypeOK'
    BY <2>5 DEF CheckStore, Goto, fileVars, PublishTypeOK, Local
  <2>6. ASSUME NEW r \in Run, WriteData(r) PROVE PublishTypeOK'
    <3>1. [by |-> r, from |-> proc[r].from] \in File
      BY DEF PublishTypeOK, Local, File
    <3> QED
      BY <2>6, <3>1 DEF WriteData, Goto, PublishTypeOK, Local
  <2>7. ASSUME NEW r \in Run, WriteManifest(r) PROVE PublishTypeOK'
    BY <2>7 DEF WriteManifest, Goto, PublishTypeOK, Local
  <2>8. ASSUME NEW r \in Run, WriteSignals(r) PROVE PublishTypeOK'
    BY <2>8 DEF WriteSignals, Goto, PublishTypeOK, Local
  <2>9. ASSUME NEW r \in Run, Fault(r) PROVE PublishTypeOK'
    BY <2>9, PublishAssumption DEF Fault, Goto, PublishTypeOK, Local
  <2> QED
    BY <2>1, <2>2, <2>3, <2>4, <2>5, <2>6, <2>7, <2>8, <2>9 DEF PublishNext, PublishStep
<1> QED
  BY <1>1, <1>2, PTL DEF PublishSpec

-------------------------------------------------------------------------------

\* The runs of one command come one after another.
OneAtATime ==
    \A q, r \in Run : (Target[q] = Target[r] /\ Active(q) /\ Active(r)) => q = r

\* What the look at the store found still holds when the file is written.
CheckStillHolds ==
    \A r \in Run :
        (proc[r].pc = "data" /\ Target[r] \in Guarded /\ ~proc[r].over) =>
            data[Target[r]] = None

\* No run has its --overwrite before it has started.
FlagsFromStart == \A r \in Run : proc[r].pc = "idle" => ~proc[r].over

VersionInv == PublishTypeOK /\ OneAtATime /\ CheckStillHolds /\ FlagsFromStart

LEMMA VersionInvInit == PublishInit => VersionInv
BY PublishAssumption
   DEF PublishInit, VersionInv, PublishTypeOK, Local, Rebuild, Partition, OneAtATime,
       CheckStillHolds, FlagsFromStart, Active, Ended

\* Where the program counter of run r may go.
LEMMA GotoMoves ==
    ASSUME proc \in [Run -> Local], NEW r \in Run, NEW label, Goto(r, label)
    PROVE  /\ \A q \in Run \ {r} : proc'[q] = proc[q]
           /\ proc'[r].over = proc[r].over /\ proc'[r].pc = label
BY DEF Goto, Local

LEMMA LoadMoves ==
    ASSUME proc \in [Run -> Local], NEW r \in Run, LoadAndCompute(r)
    PROVE  /\ \A q \in Run \ {r} : proc'[q] = proc[q]
           /\ proc'[r].over = proc[r].over /\ proc'[r].pc \in {"failed", "check"}
<1>1. CASE Goto(r, "failed")
  BY <1>1, GotoMoves
<1>2. CASE proc' = [proc EXCEPT ![r].pc = "check", ![r].from = InputOf(r)]
  BY <1>2 DEF Local
<1> QED
  BY <1>1, <1>2 DEF LoadAndCompute

\* What a step of run r may do to the locals of the runs.
LEMMA OneRunMoves ==
    ASSUME PublishTypeOK, NEW r \in Run, PublishStep(r) \/ Fault(r)
    PROVE  /\ \A q \in Run \ {r} : proc'[q] = proc[q]
           /\ proc[r].pc # "idle" => proc'[r].over = proc[r].over
           /\ proc'[r].pc # "idle"
           /\ UNCHANGED l1
<1>1. proc \in [Run -> Local]
  BY DEF PublishTypeOK
<1>2. ASSUME NEW over \in BOOLEAN, Begin(r, over)
      PROVE  /\ \A q \in Run \ {r} : proc'[q] = proc[q]
             /\ proc'[r].pc # "idle" /\ proc[r].pc = "idle" /\ UNCHANGED l1
  BY <1>1, <1>2 DEF Begin
<1>3. CASE LoadAndCompute(r)
  BY <1>1, <1>3, LoadMoves DEF LoadAndCompute
<1>4. CASE CheckStore(r) \/ WriteData(r) \/ WriteManifest(r) \/ WriteSignals(r)
  BY <1>1, <1>4, GotoMoves DEF CheckStore, WriteData, WriteManifest, WriteSignals
<1>5. CASE Fault(r)
  BY <1>1, <1>5, GotoMoves DEF Fault
<1> QED
  BY <1>2, <1>3, <1>4, <1>5 DEF PublishStep

\* A run only becomes active when no other run of its command is.
LEMMA OneAtATimeNext ==
    ASSUME Overlap = FALSE, VersionInv, NEW r \in Run, PublishStep(r) \/ Fault(r)
    PROVE  OneAtATime'
<1>1. \A q \in Run \ {r} : Active(q)' <=> Active(q)
  BY OneRunMoves DEF VersionInv, Active, Ended
<1>2. CASE Active(r)
  BY <1>1, <1>2 DEF VersionInv, OneAtATime
<1>3. CASE ~Active(r)
  <2>1. CASE \E over \in BOOLEAN : Begin(r, over)
    <3>1. \A q \in Run : Target[q] = Target[r] => ~Active(q)
      BY <2>1 DEF Begin
    <3> QED
      BY <1>1, <3>1 DEF VersionInv, OneAtATime
  <2>2. CASE ~\E over \in BOOLEAN : Begin(r, over)
    BY <1>3, <2>2 DEF PublishStep, Fault, LoadAndCompute, CheckStore, WriteData,
                      WriteManifest, WriteSignals, Active, Ended
  <2> QED
    BY <2>1, <2>2
<1> QED
  BY <1>2, <1>3

\* No step but that of an active run of the same command writes a partition.
LEMMA OnlyOwnPartition ==
    ASSUME PublishTypeOK, NEW r \in Run, PublishStep(r) \/ Fault(r),
           NEW p \in Partition, data'[p] # data[p]
    PROVE  /\ p = Target[r] /\ proc[r].pc = "data" /\ proc'[r].pc # "data"
           /\ Owner(p)' \in {r, Torn}
<1>1. data \in [Partition -> File \cup {None, Torn}] /\ proc \in [Run -> Local]
  BY DEF PublishTypeOK
<1>2. CASE WriteData(r)
  <2>1. data' = [data EXCEPT ![Target[r]] = [by |-> r, from |-> proc[r].from]]
    BY <1>2 DEF WriteData
  <2>2. p = Target[r] /\ data'[p] = [by |-> r, from |-> proc[r].from]
    BY <1>1, <2>1
  <2>3. Owner(p)' \in {r, None, Torn} /\ data'[p] \notin {None, Torn}
    <3>1. [by |-> r, from |-> proc[r].from] \in File
      BY <1>1 DEF Local, File
    <3> QED
      BY <2>2, <3>1, PublishAssumption DEF Owner
  <2>4. Owner(p)' = r
    BY <2>2, <2>3 DEF Owner
  <2> QED
    BY <1>1, <1>2, <2>2, <2>4 DEF WriteData, Goto
<1>3. CASE Fault(r)
  <2>1. proc[r].pc = "data" /\ data' = [data EXCEPT ![Target[r]] = Torn]
    BY <1>3 DEF Fault
  <2>2. p = Target[r] /\ data'[p] = Torn
    BY <1>1, <2>1
  <2>3. proc'[r].pc # "data"
    BY <1>1, <1>3 DEF Fault, Goto
  <2> QED
    BY <2>1, <2>2, <2>3 DEF Owner
<1>4. CASE ~WriteData(r) /\ ~Fault(r)
  BY <1>4 DEF PublishStep, Begin, LoadAndCompute, CheckStore, WriteManifest, WriteSignals,
              fileVars
<1> QED
  BY <1>2, <1>3, <1>4

LEMMA CheckStillHoldsNext ==
    ASSUME Overlap = FALSE, VersionInv, NEW r \in Run, PublishStep(r) \/ Fault(r)
    PROVE  CheckStillHolds'
<1> SUFFICES ASSUME NEW q \in Run, proc'[q].pc = "data", Target[q] \in Guarded,
                    ~proc'[q].over
             PROVE  data'[Target[q]] = None
  BY DEF CheckStillHolds
<1>1. proc \in [Run -> Local] /\ PublishTypeOK /\ Target[q] \in Partition
  BY PublishAssumption DEF VersionInv, PublishTypeOK
<1>2. CASE q = r
  <2>1. data' = data /\ CheckStore(r)
    <3>1. ~\E over \in BOOLEAN : Begin(r, over)
      <4> SUFFICES ASSUME NEW over \in BOOLEAN, Begin(r, over) PROVE FALSE
        OBVIOUS
      <4>1. PICK label \in {"load", "failed"} :
              proc' = [proc EXCEPT ![r].pc = label, ![r].over = over]
        BY DEF Begin
      <4>2. proc'[r].pc = label
        BY <1>1, <4>1 DEF Local
      <4> QED
        BY <1>2, <4>2
    <3>2. ~LoadAndCompute(r)
      BY <1>1, <1>2, LoadMoves
    <3>3. ~(WriteData(r) \/ WriteManifest(r) \/ WriteSignals(r) \/ Fault(r))
      BY <1>1, <1>2, GotoMoves DEF WriteData, WriteManifest, WriteSignals, Fault
    <3>4. CheckStore(r)
      BY <3>1, <3>2, <3>3 DEF PublishStep
    <3> QED
      BY <3>4 DEF CheckStore, fileVars
  <2>2. proc'[r].over = proc[r].over
    BY <1>1, <2>1, GotoMoves DEF CheckStore
  <2>3. ~(Target[r] \in Guarded /\ data[Target[r]] # None /\ ~proc[r].over)
    BY <1>1, <1>2, <2>1, GotoMoves DEF CheckStore
  <2> QED
    BY <1>2, <2>1, <2>2, <2>3
<1>3. CASE q # r
  <2>1. proc'[q] = proc[q]
    BY <1>1, <1>3, OneRunMoves
  <2>2. data[Target[q]] = None
    BY <2>1 DEF VersionInv, CheckStillHolds
  <2>3. CASE data'[Target[q]] # data[Target[q]]
    <3>1. Target[q] = Target[r] /\ proc[r].pc = "data"
      BY <1>1, <2>3, OnlyOwnPartition
    <3>2. Active(q) /\ Active(r)
      BY <2>1, <3>1 DEF Active, Ended
    <3> QED
      BY <1>3, <3>1, <3>2 DEF VersionInv, OneAtATime
  <2> QED
    BY <2>2, <2>3
<1> QED
  BY <1>2, <1>3

LEMMA VersionInvNext ==
    ASSUME Overlap = FALSE, VersionInv, [PublishNext]_pubVars
    PROVE  OneAtATime' /\ CheckStillHolds' /\ FlagsFromStart'
<1>1. CASE UNCHANGED <<proc, data>>
  BY <1>1 DEF VersionInv, OneAtATime, CheckStillHolds, FlagsFromStart, Active, Ended
<1>2. ASSUME NEW r \in Run, PublishStep(r) \/ Fault(r)
      PROVE  OneAtATime' /\ CheckStillHolds' /\ FlagsFromStart'
  BY <1>2, OneAtATimeNext, CheckStillHoldsNext, OneRunMoves DEF VersionInv, FlagsFromStart
<1>3. CASE RebuildL1 \/ UNCHANGED pubVars
  BY <1>1, <1>3 DEF RebuildL1, pubVars, fileVars
<1> QED
  BY <1>2, <1>3 DEF PublishNext

-------------------------------------------------------------------------------

\* What a step does to a guarded partition, as its abstraction sees it.
PartitionStep(p) ==
    \/ Owner(p)' = Owner(p) /\ Permitted(p)' = Permitted(p)
    \/ \E r \in Run : /\ Owner(p)' = Owner(p)
                      /\ Permitted(p)' = Permitted(p) \cup {r}
    \/ \E r \in Run : /\ Owner(p) = None \/ r \in Permitted(p)
                      /\ Owner(p)' \in {r, Torn}
                      /\ Permitted(p)' = Permitted(p)

LEMMA StepsArePartitionSteps ==
    ASSUME VersionInv, [PublishNext]_pubVars, NEW p \in Guarded
    PROVE  PartitionStep(p)
<1>1. CASE UNCHANGED <<proc, data>>
  BY <1>1 DEF PartitionStep, Owner, Permitted
<1>2. ASSUME NEW r \in Run, PublishStep(r) \/ Fault(r) PROVE PartitionStep(p)
  <2>1. PublishTypeOK /\ p \in Partition
    BY DEF VersionInv, Guarded, Partition
  <2>2. \A q \in Run \ {r} : proc'[q] = proc[q]
    BY <1>2, <2>1, OneRunMoves
  <2>3. CASE data'[p] # data[p]
    <3>1. p = Target[r] /\ proc[r].pc = "data" /\ Owner(p)' \in {r, Torn}
      BY <1>2, <2>1, <2>3, OnlyOwnPartition
    <3>2. proc'[r].over = proc[r].over
      BY <1>2, <2>1, <3>1, OneRunMoves
    <3>3. Permitted(p)' = Permitted(p)
      BY <2>2, <3>2 DEF Permitted
    <3>4. Owner(p) = None \/ r \in Permitted(p)
      BY <3>1 DEF VersionInv, CheckStillHolds, Owner, Permitted
    <3> QED
      BY <3>1, <3>3, <3>4 DEF PartitionStep
  <2>4. CASE data'[p] = data[p]
    <3>1. Owner(p)' = Owner(p)
      BY <2>4 DEF Owner
    <3>2. CASE proc'[r].over = proc[r].over
      <4>1. Permitted(p)' = Permitted(p)
        BY <2>2, <3>2 DEF Permitted
      <4> QED
        BY <3>1, <4>1 DEF PartitionStep
    <3>3. CASE proc'[r].over # proc[r].over
      <4>1. ~proc[r].over
        BY <1>2, <2>1, <3>3, OneRunMoves DEF VersionInv, FlagsFromStart
      <4>2. Permitted(p)' = Permitted(p) \/ Permitted(p)' = Permitted(p) \cup {r}
        BY <2>2, <4>1 DEF Permitted
      <4> QED
        BY <3>1, <4>2 DEF PartitionStep
    <3> QED
      BY <3>2, <3>3
  <2> QED
    BY <2>3, <2>4
<1>3. CASE RebuildL1 \/ UNCHANGED pubVars
  BY <1>1, <1>3 DEF RebuildL1, pubVars, fileVars
<1> QED
  BY <1>2, <1>3 DEF PublishNext

LEMMA InitIsPartitionInit ==
    ASSUME PublishInit, NEW p \in Guarded
    PROVE  Owner(p) = None /\ Permitted(p) = {}
BY DEF PublishInit, Owner, Permitted, Guarded, Partition

LEMMA Versioned ==
    ASSUME Overlap = FALSE
    PROVE  PublishSpec => []VersionInv
<1>1. PublishInit => VersionInv
  BY VersionInvInit
<1>2. VersionInv /\ PublishTypeOK' /\ [PublishNext]_pubVars => VersionInv'
  BY VersionInvNext DEF VersionInv
<1> QED
  BY <1>1, <1>2, TypeCorrect, PTL DEF PublishSpec

\* The label store keeps the promise of ADR 06 when label runs do not overlap.
THEOREM LabelsRefine ==
    ASSUME Overlap = FALSE
    PROVE  PublishSpec => LabelsAreVersioned
<1>1. "labels" \in Guarded
  BY DEF Guarded
<1>2. PublishInit => Labels!PartitionInit
  BY <1>1, InitIsPartitionInit DEF Labels!PartitionInit
<1>3. VersionInv /\ [PublishNext]_pubVars =>
        [Labels!PartitionNext]_<<Owner("labels"), Permitted("labels")>>
  BY <1>1, StepsArePartitionSteps
     DEF PartitionStep, Labels!PartitionNext, Labels!Permit, Labels!Put
<1> QED
  BY <1>2, <1>3, Versioned, PTL DEF PublishSpec, LabelsAreVersioned, Labels!PartitionSpec

\* The rank store keeps the promise of ADR 09 when inference runs do not overlap.
THEOREM RanksRefine ==
    ASSUME Overlap = FALSE
    PROVE  PublishSpec => RanksAreVersioned
<1>1. "ranks" \in Guarded
  BY DEF Guarded
<1>2. PublishInit => Ranks!PartitionInit
  BY <1>1, InitIsPartitionInit DEF Ranks!PartitionInit
<1>3. VersionInv /\ [PublishNext]_pubVars =>
        [Ranks!PartitionNext]_<<Owner("ranks"), Permitted("ranks")>>
  BY <1>1, StepsArePartitionSteps
     DEF PartitionStep, Ranks!PartitionNext, Ranks!Permit, Ranks!Put
<1> QED
  BY <1>2, <1>3, Versioned, PTL DEF PublishSpec, RanksAreVersioned, Ranks!PartitionSpec

\* Both stores keep their promise when the runs of one command do not overlap.
THEOREM PublishedRefine ==
    ASSUME Overlap = FALSE
    PROVE  PublishSpec => PublishedAreVersioned
BY LabelsRefine, RanksRefine DEF PublishedAreVersioned

-------------------------------------------------------------------------------
(* Files and what describes them. *)

\* The file of run r is written, what describes it is not yet.
Describing(r) == proc[r].pc \in {"manifest", "signals"}

\* Nobody else writes between the file of a run and the last file that describes it.
FileStands ==
    \A r \in Run : Describing(r) =>
        /\ data[Target[r]] = [by |-> r, from |-> proc[r].from]
        /\ proc[r].pc = "signals" => Target[r] = "ranks" /\ manifest["ranks"] = r

\* Without faults a partition that no run is describing is described.
Described ==
    faults = 0 =>
        \A p \in Partition :
            (\A r \in Run : Target[r] = p => ~Describing(r)) =>
                /\ manifest[p] = Owner(p)
                /\ p = "ranks" => signals = Owner(p)

DescriptionInv == FileStands /\ Described

LEMMA GotoKeepsFrom ==
    ASSUME proc \in [Run -> Local], NEW r \in Run, NEW label, Goto(r, label)
    PROVE  proc'[r].from = proc[r].from
BY DEF Goto, Local

\* Only a run that is describing its own file changes a manifest or the signals.
LEMMA OnlyOwnDescription ==
    ASSUME PublishTypeOK, FileStands, NEW r \in Run, PublishStep(r) \/ Fault(r)
    PROVE  /\ \A p \in Partition : manifest'[p] # manifest[p] =>
                p = Target[r] /\ proc[r].pc = "manifest"
           /\ signals' # signals => Target[r] = "ranks" /\ proc[r].pc = "signals"
<1>1. CASE WriteManifest(r)
  BY <1>1 DEF WriteManifest, PublishTypeOK
<1>2. CASE WriteSignals(r)
  BY <1>2 DEF WriteSignals, FileStands, Describing
<1>3. CASE ~WriteManifest(r) /\ ~WriteSignals(r)
  <2>1. UNCHANGED <<manifest, signals>>
    BY <1>3 DEF PublishStep, Begin, LoadAndCompute, CheckStore, WriteData, Fault, fileVars
  <2> QED
    BY <2>1
<1> QED
  BY <1>1, <1>2, <1>3

LEMMA OwnerOfFile ==
    ASSUME NEW p \in Partition, NEW r \in Run, NEW n \in Rebuild,
           data[p] = [by |-> r, from |-> n]
    PROVE  Owner(p) = r
<1>1. data[p] \in File
  BY DEF File
<1> QED
  BY <1>1, PublishAssumption DEF Owner

\* The step of run r that begins, ends or goes on describing its file.
LEMMA FileStandsNext ==
    ASSUME VersionInv, FileStands, NEW r \in Run, PublishStep(r) \/ Fault(r)
    PROVE  FileStands'
<1>1. /\ PublishTypeOK /\ proc \in [Run -> Local]
      /\ data \in [Partition -> File \cup {None, Torn}]
      /\ manifest \in [Partition -> Run \cup {None}]
      /\ \A q \in Run : Target[q] \in Partition
  BY PublishAssumption DEF VersionInv, PublishTypeOK
<1> SUFFICES ASSUME NEW q \in Run, Describing(q)'
             PROVE  /\ data'[Target[q]] = [by |-> q, from |-> proc'[q].from]
                    /\ proc'[q].pc = "signals" => Target[q] = "ranks" /\ manifest'["ranks"] = q
  BY DEF FileStands
<1>2. CASE q # r
  <2>1. proc'[q] = proc[q]
    BY <1>1, <1>2, OneRunMoves
  <2>2. Describing(q)
    BY <2>1 DEF Describing
  <2>3. ASSUME Active(r), Target[r] = Target[q] PROVE FALSE
    <3>1. Active(q)
      BY <2>2 DEF Describing, Active, Ended
    <3> QED
      BY <1>2, <2>3, <3>1 DEF VersionInv, OneAtATime
  <2>4. data'[Target[q]] = data[Target[q]]
    <3> SUFFICES ASSUME data'[Target[q]] # data[Target[q]] PROVE FALSE
      OBVIOUS
    <3>1. Target[q] = Target[r] /\ proc[r].pc = "data"
      BY <1>1, OnlyOwnPartition
    <3> QED
      BY <2>3, <3>1 DEF Active, Ended
  <2>5. manifest'[Target[q]] = manifest[Target[q]]
    <3> SUFFICES ASSUME manifest'[Target[q]] # manifest[Target[q]] PROVE FALSE
      OBVIOUS
    <3>1. Target[q] = Target[r] /\ proc[r].pc = "manifest"
      BY <1>1, OnlyOwnDescription
    <3> QED
      BY <2>3, <3>1 DEF Active, Ended
  <2> QED
    BY <2>1, <2>2, <2>4, <2>5 DEF FileStands
<1>3. CASE q = r
  <2>1. CASE WriteData(r)
    <3>1. data'[Target[r]] = [by |-> r, from |-> proc[r].from]
      BY <1>1, <2>1 DEF WriteData
    <3>2. proc'[r].from = proc[r].from /\ proc'[r].pc = "manifest"
      BY <1>1, <2>1, GotoKeepsFrom, GotoMoves DEF WriteData
    <3> QED
      BY <1>3, <3>1, <3>2
  <2>2. CASE WriteManifest(r)
    <3>1. data' = data /\ data[Target[r]] = [by |-> r, from |-> proc[r].from]
      BY <2>2 DEF WriteManifest, FileStands, Describing
    <3>2. manifest'[Target[r]] = r
      BY <1>1, <2>2 DEF WriteManifest
    <3>3. /\ proc'[r].from = proc[r].from
          /\ proc'[r].pc = IF Target[r] = "ranks" THEN "signals" ELSE "success"
      BY <1>1, <2>2, GotoKeepsFrom, GotoMoves DEF WriteManifest
    <3> QED
      BY <1>3, <3>1, <3>2, <3>3
  <2>3. CASE ~WriteData(r) /\ ~WriteManifest(r)
    <3>1. proc'[r].pc \notin {"manifest", "signals"}
      <4>1. CASE \E over \in BOOLEAN : Begin(r, over)
        <5>1. PICK over \in BOOLEAN, label \in {"load", "failed"} :
                proc' = [proc EXCEPT ![r].pc = label, ![r].over = over]
          BY <4>1 DEF Begin
        <5>2. proc'[r].pc = label
          BY <1>1, <5>1 DEF Local
        <5> QED
          BY <5>2
      <4>2. CASE LoadAndCompute(r)
        BY <1>1, <4>2, LoadMoves
      <4>3. CASE CheckStore(r) \/ WriteSignals(r) \/ Fault(r)
        BY <1>1, <4>3, GotoMoves DEF CheckStore, WriteSignals, Fault
      <4> QED
        BY <2>3, <4>1, <4>2, <4>3 DEF PublishStep
    <3> QED
      BY <1>3, <3>1 DEF Describing
  <2> QED
    BY <2>1, <2>2, <2>3
<1> QED
  BY <1>2, <1>3

LEMMA DescribedNext ==
    ASSUME VersionInv, DescriptionInv, NEW r \in Run, PublishStep(r) \/ Fault(r)
    PROVE  Described'
<1>1. /\ PublishTypeOK /\ proc \in [Run -> Local] /\ faults \in Nat
      /\ manifest \in [Partition -> Run \cup {None}]
      /\ \A q \in Run : Target[q] \in Partition
  BY PublishAssumption DEF VersionInv, PublishTypeOK
<1> SUFFICES ASSUME faults' = 0, NEW p \in Partition,
                    \A q \in Run : Target[q] = p => ~Describing(q)'
             PROVE  manifest'[p] = Owner(p)' /\ (p = "ranks" => signals' = Owner(p)')
  BY DEF Described
<1>2. faults = 0 /\ ~Fault(r)
  BY <1>1 DEF Fault, PublishStep, Begin, LoadAndCompute, CheckStore, WriteData,
     WriteManifest, WriteSignals
<1>3. \A q \in Run \ {r} : Describing(q)' <=> Describing(q)
  BY <1>1, OneRunMoves DEF Describing
<1>4. CASE Target[r] = p /\ Describing(r)
  <2>1. data[p] = [by |-> r, from |-> proc[r].from] /\ proc[r].from \in Rebuild
    BY <1>1, <1>4 DEF DescriptionInv, FileStands, Local
  <2>2. Owner(p) = r
    BY <2>1, OwnerOfFile
  <2>3. WriteManifest(r) \/ WriteSignals(r)
    BY <1>2, <1>4 DEF Describing, PublishStep, Begin, LoadAndCompute, CheckStore, WriteData
  <2>4. data' = data /\ Owner(p)' = r
    BY <2>2, <2>3 DEF WriteManifest, WriteSignals, Owner
  <2>5. CASE WriteManifest(r)
    <3>1. manifest'[p] = r
      BY <1>1, <1>4, <2>5 DEF WriteManifest
    <3>2. p # "ranks"
      <4>1. proc'[r].pc # "signals"
        BY <1>4 DEF Describing
      <4> QED
        BY <1>1, <1>4, <2>5, <4>1, GotoMoves DEF WriteManifest
    <3> QED
      BY <2>4, <3>1, <3>2
  <2>6. CASE WriteSignals(r)
    <3>1. manifest' = manifest /\ signals' = r /\ manifest[p] = r
      BY <1>4, <2>6 DEF WriteSignals, DescriptionInv, FileStands, Describing
    <3> QED
      BY <2>4, <3>1
  <2> QED
    BY <2>3, <2>5, <2>6
<1>5. CASE ~(Target[r] = p /\ Describing(r))
  <2>1. manifest[p] = Owner(p) /\ (p = "ranks" => signals = Owner(p))
    BY <1>2, <1>3, <1>5 DEF DescriptionInv, Described
  <2>2. data'[p] = data[p]
    <3> SUFFICES ASSUME data'[p] # data[p] PROVE FALSE
      OBVIOUS
    <3>1. p = Target[r] /\ proc[r].pc = "data"
      BY <1>1, OnlyOwnPartition
    <3>2. WriteData(r)
      BY <1>2, <3>1 DEF PublishStep, Begin, LoadAndCompute, CheckStore, WriteManifest,
         WriteSignals, fileVars
    <3>3. Describing(r)'
      BY <1>1, <3>2, GotoMoves DEF WriteData, Describing
    <3> QED
      BY <3>1, <3>3
  <2>3. Owner(p)' = Owner(p)
    BY <2>2 DEF Owner
  <2>4. manifest'[p] = manifest[p]
    BY <1>1, <1>5, OnlyOwnDescription DEF Describing, DescriptionInv
  <2>5. p = "ranks" => signals' = signals
    BY <1>1, <1>5, OnlyOwnDescription DEF Describing, DescriptionInv
  <2> QED
    BY <2>1, <2>3, <2>4, <2>5
<1> QED
  BY <1>4, <1>5

LEMMA DescriptionInvHolds ==
    ASSUME Overlap = FALSE
    PROVE  PublishSpec => []DescriptionInv
<1>1. PublishInit => DescriptionInv
  BY DEF PublishInit, DescriptionInv, FileStands, Described, Describing, Owner
<1>2. VersionInv /\ DescriptionInv /\ [PublishNext]_pubVars => DescriptionInv'
  <2> SUFFICES ASSUME VersionInv, DescriptionInv, [PublishNext]_pubVars PROVE DescriptionInv'
    OBVIOUS
  <2>1. ASSUME NEW r \in Run, PublishStep(r) \/ Fault(r) PROVE DescriptionInv'
    BY <2>1, FileStandsNext, DescribedNext DEF DescriptionInv
  <2>2. CASE RebuildL1 \/ UNCHANGED pubVars
    BY <2>2 DEF RebuildL1, pubVars, fileVars, DescriptionInv, FileStands, Described,
       Describing, Owner
  <2> QED
    BY <2>1, <2>2 DEF PublishNext
<1> QED
  BY <1>1, <1>2, Versioned, PTL DEF PublishSpec

\* With no fault so far, a partition that no run is writing is described by its own
\* manifest, and the ranks by their own signals, when runs of one command do not
\* overlap (the stores and manifest writers of features, labels and infer).
THEOREM ManifestsDescribe ==
    ASSUME Overlap = FALSE
    PROVE  PublishSpec => []ManifestDescribesData
<1>1. DescriptionInv => ManifestDescribesData
  BY DEF DescriptionInv, Described, Describing, ManifestDescribesData, Active, Ended
<1> QED
  BY <1>1, DescriptionInvHolds, PTL

\* A run that reports success leaves its own file, manifest and, for ranks, signals,
\* whatever earlier runs left when they failed or died.
THEOREM SuccessComplete ==
    ASSUME Overlap = FALSE
    PROVE  PublishSpec => SuccessIsComplete
<1> DEFINE Complete ==
             \A r \in Run : (proc[r].pc # "success" /\ proc'[r].pc = "success") =>
                 LET p == Target[r] IN
                 /\ data'[p] = [by |-> r, from |-> proc[r].from]
                 /\ manifest'[p] = r
                 /\ p = "ranks" => signals' = r
<1>1. VersionInv /\ DescriptionInv /\ [PublishNext]_pubVars => Complete
  <2> SUFFICES ASSUME VersionInv, DescriptionInv, [PublishNext]_pubVars,
                      NEW r \in Run, proc[r].pc # "success", proc'[r].pc = "success"
               PROVE  /\ data'[Target[r]] = [by |-> r, from |-> proc[r].from]
                      /\ manifest'[Target[r]] = r
                      /\ Target[r] = "ranks" => signals' = r
    OBVIOUS
  <2>1. /\ PublishTypeOK /\ proc \in [Run -> Local] /\ Target[r] \in Partition
        /\ manifest \in [Partition -> Run \cup {None}]
    BY PublishAssumption DEF VersionInv, PublishTypeOK
  <2>2. PublishStep(r) \/ Fault(r)
    <3>1. ASSUME NEW q \in Run, PublishStep(q) \/ Fault(q) PROVE q = r
      BY <2>1, <3>1, OneRunMoves
    <3>2. proc' # proc
      OBVIOUS
    <3> QED
      BY <3>1, <3>2 DEF PublishNext, RebuildL1, pubVars
  <2>3. WriteManifest(r) \/ WriteSignals(r)
    <3>1. ~\E over \in BOOLEAN : Begin(r, over)
      <4> SUFFICES ASSUME NEW over \in BOOLEAN, Begin(r, over) PROVE FALSE
        OBVIOUS
      <4>1. PICK label \in {"load", "failed"} :
              proc' = [proc EXCEPT ![r].pc = label, ![r].over = over]
        BY DEF Begin
      <4>2. proc'[r].pc = label
        BY <2>1, <4>1 DEF Local
      <4> QED
        BY <4>2
    <3>2. ~LoadAndCompute(r)
      BY <2>1, LoadMoves
    <3>3. ~(CheckStore(r) \/ WriteData(r) \/ Fault(r))
      BY <2>1, GotoMoves DEF CheckStore, WriteData, Fault
    <3> QED
      BY <2>2, <3>1, <3>2, <3>3 DEF PublishStep
  <2>4. data' = data /\ data[Target[r]] = [by |-> r, from |-> proc[r].from]
    BY <2>3 DEF WriteManifest, WriteSignals, DescriptionInv, FileStands, Describing
  <2>5. CASE WriteManifest(r)
    <3>1. manifest'[Target[r]] = r
      BY <2>1, <2>5 DEF WriteManifest
    <3>2. Target[r] # "ranks"
      BY <2>1, <2>5, GotoMoves DEF WriteManifest
    <3> QED
      BY <2>4, <3>1, <3>2
  <2>6. CASE WriteSignals(r)
    BY <2>4, <2>6 DEF WriteSignals, DescriptionInv, FileStands, Describing
  <2> QED
    BY <2>3, <2>5, <2>6
<1>2. VersionInv /\ DescriptionInv /\ [PublishNext]_pubVars => [Complete]_proc
  BY <1>1
<1> QED
  BY <1>2, Versioned, DescriptionInvHolds, PTL DEF PublishSpec, SuccessIsComplete
===============================================================================
