------------------------------ MODULE L1Readers ------------------------------
(***************************************************************************)
(* Ingest together with the processes that read its L1 partition: the      *)
(* feature and label publishers load the equity file and then the trading  *)
(* calendar of the as_of_date from data/clean/ (features/inputs.py), with  *)
(* no lock and without looking at any manifest.                            *)
(***************************************************************************)
EXTENDS Ingest

CONSTANT Reader   \* executions of stock-engine-compute-features / publish-labels

\* Any files there are have a last one in file name order.
ASSUME ReadersAssumption ==
    \A S \in SUBSET Version : S # {} => \E v \in S : \A w \in S : w <= v

VARIABLE view   \* what each reader has loaded

View == [pc : {"idle", "equity", "loaded", "failed"},
         eq : CleanFile \cup {None}, cal : CleanFile \cup {None},
         begun : SUBSET Run,          \* history: runs begun when it was read
         calm : BOOLEAN]              \* history: no ingest ran during the load

ReadersTypeOK ==
    /\ TypeOK
    /\ view \in [Reader -> View]

ReadersInit ==
    /\ Init
    /\ view = [q \in Reader |-> [pc |-> "idle", eq |-> None, cal |-> None,
                                 begun |-> {}, calm |-> FALSE]]

Begun == {r \in Run : proc[r].pc # "idle"}

Idle == \A r \in Run : ~Active(r)

Existing(folder) == {v \in Version : folder[v] # None}

\* sorted(folder.glob("*.parquet"))[-1]: the last file name, not the newest file.
LatestParquet(folder) ==
    CHOOSE v \in Existing(folder) : \A w \in Existing(folder) : w <= v

Readable(folder) ==
    Existing(folder) # {} /\ folder[LatestParquet(folder)] # Torn

LoadEquity(q) ==
    /\ view[q].pc = "idle"
    /\ LET folder == l1["equity_eod"]
           v == LatestParquet(folder)
       IN view' = IF Readable(folder)
                  THEN [view EXCEPT ![q].pc = "equity", ![q].eq = folder[v],
                                    ![q].begun = Begun, ![q].calm = Idle]
                  ELSE [view EXCEPT ![q].pc = "failed"]
    /\ UNCHANGED vars

\* Mutant: the calendar is always taken from L0.
CalendarFolderOfL0 == l0["trading_calendar"]

\* The L1 calendar folder if there is one with a file, the L0 one otherwise.
CalendarFolder ==
    IF Existing(l1["trading_calendar"]) # {}
    THEN l1["trading_calendar"] ELSE l0["trading_calendar"]

LoadSessions(q) ==
    /\ view[q].pc = "equity"
    /\ view' = IF Readable(CalendarFolder)
               THEN [view EXCEPT ![q].pc = "loaded",
                                 ![q].cal = CalendarFolder[LatestParquet(CalendarFolder)],
                                 ![q].calm = @ /\ Idle /\ Begun = view[q].begun]
               ELSE [view EXCEPT ![q].pc = "failed"]
    /\ UNCHANGED vars

\* The folder of the L1 calendar is made before its first file.  While it is empty,
\* its writer at work or dead, there is nothing to read and no way back to L0.
FindEmptyFolder(q) ==
    /\ view[q].pc = "equity"
    /\ Existing(l1["trading_calendar"]) = {}
    /\ \E r \in Run : proc[r].pc \in {"l1_calendar", "dead"}
    /\ view' = [view EXCEPT ![q].pc = "failed"]
    /\ UNCHANGED vars

ReadersNext ==
    \/ Next /\ UNCHANGED view
    \/ \E q \in Reader : LoadEquity(q) \/ LoadSessions(q) \/ FindEmptyFolder(q)

ReadersSpec == ReadersInit /\ [][ReadersNext]_<<vars, view>>

-------------------------------------------------------------------------------
(* Properties. *)

Loaded(q) == view[q].pc = "loaded"

\* Whatever a reader loads, at any moment of any number of overlapping, failing
\* or dying ingest runs, was parsed from contents that passed their reports; the
\* fallback to the L0 calendar does not open a hole.
LoadedPassedDQ ==
    \A q \in Reader : Loaded(q) =>
        /\ view[q].eq.rows \in DqOk["equity_eod"]
        /\ view[q].eq.adj \in DqOk["corporate_actions"]
        /\ view[q].cal.rows \in DqOk["trading_calendar"]

\* A load during which no ingest ran, with no ingest ever cut short, sees one
\* snapshot: equity and calendar of the same run, with no missing recent session
\* between the two.
CalmLoadIsSnapshot ==
    \A q \in Reader : (Loaded(q) /\ view[q].calm /\ faults = 0) =>
        /\ view[q].cal.by = view[q].eq.by
        /\ <<view[q].eq.rows, view[q].cal.rows>> \notin HardGap
===============================================================================
