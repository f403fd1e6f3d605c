---------------------------- MODULE DataToRanks ----------------------------
(***************************************************************************)
(* From the CSV files of one as_of date to its published ranks: ingest,    *)
(* features and inference in a row, over what the files say.  The commands *)
(* are processes of their own; ingest and features are one step each here  *)
(* (Ingest and Publish split them into their reads and writes), inference  *)
(* is two, because it reads the L1 symbols once to name the rows it scores *)
(* and once more to find their ISINs again, and the operator may ingest a  *)
(* corrected file in between, under the same dataset version or another:   *)
(* the features and the symbols need not come from the same one.           *)
(***************************************************************************)
EXTENDS Ranking

CONSTANTS Version,          \* the dataset versions, in the order of their file names
          V1,               \* the one called "v1"
          Inputs,           \* what the operator may put in data/incoming, and the models
          None,             \* not there
          Corrections,      \* the equity files that it may be corrected to
          MaxCorrections    \* bound: how often

\* Cells that pandas reads as numbers or dates, and may find unreadable.
Number == Int \cup {Null, Bad}
Date == Session \cup {Null, Bad}

EquityRow == [isin : Isin \cup {Null}, symbol : Spelling \cup {Null}, session : Date,
              high : Number, low : Number, close : Number, volume : Number, value : Number,
              line : Nat]
CalendarRow == [session : Date, isOpen : STRING \cup {Null}, line : Nat]
ActionRow == [isin : Isin \cup {Null}, exDate : Date, type : STRING \cup {Null},
              factor : Number, num : Number, den : Number, line : Nat]

\* The probabilities a frozen model gives, and the levels of volatility and liquidity.
Model == [heads : [Isin -> [bullish : 0..Unit, bearish : 0..Unit]],
          level : [Isin -> [vol : Int, liq : Int]]]

Incoming == [equity : SUBSET EquityRow, calendar : SUBSET CalendarRow,
             actions : SUBSET ActionRow, asOf : Session \cup {None}, version : Version,
             model : Model]

ASSUME DataToRanksAssumption ==
    /\ Version \subseteq Nat /\ IsFiniteSet(Version)
    /\ Inputs \subseteq Incoming /\ \A in \in Inputs : IsFiniteSet(in.equity)
    /\ \A file \in Corrections : file \subseteq EquityRow /\ IsFiniteSet(file)

VARIABLES inputs,       \* the incoming files, --dataset-version and the frozen model
          ingested,     \* the present files have been ingested
          l1,           \* the L1 partition of the date, for each dataset version
          features,     \* the published feature frame and the L1 it was computed from
          refused,      \* the last feature run over this L1 published nothing
          scoring,      \* the inference run, between scoring and publishing
          ranks,        \* the published ranks
          corrections

vars == <<inputs, ingested, l1, features, refused, scoring, ranks, corrections>>

Init == /\ inputs \in Inputs
        /\ ingested = FALSE
        /\ l1 = [v \in Version |-> None] /\ features = None /\ refused = FALSE
        /\ scoring = None /\ ranks = None
        /\ corrections = 0

-----------------------------------------------------------------------------
(* Ingest                                                                  *)

\* The session_date cells that pandas can read.
Dates(file) == {Coerced(r.session) : r \in file} \ {Null}

\* as_of_date or parse_as_of_from_equity, which raises when there is no date.
AsOf(in) == IF in.asOf # None THEN in.asOf
            ELSE CHOOSE d \in Dates(in.equity) : \A e \in Dates(in.equity) : e <= d

HasAsOf(in) == in.asOf # None \/ Dates(in.equity) # {}

\* The frames of L0 that L1 is built from.
Frames(in) == [equity |-> NormalizeEquity(in.equity), actions |-> NormalizeActions(in.actions),
               calendar |-> NormalizeCalendar(in.calendar), asOf |-> AsOf(in)]

\* No dataset raises, every report is ok and no recent session is missing.
PassesGates(in) ==
    /\ HasAsOf(in)
    /\ ~CalendarRaises(in.calendar)
    /\ LET f == Frames(in)
       IN  /\ ValidateEquity(f.equity) = {}
           /\ ValidateActions(f.actions) = {}
           /\ ValidateCalendar(f.calendar) = {}
           /\ NoMissingSessions(f.equity, f.calendar, f.asOf)

\* A run that passes publishes L1 under its version; one that does not leaves it as it was.
RunIngest ==
    /\ ~ingested
    /\ ingested' = TRUE
    /\ IF PassesGates(inputs)
       THEN LET f == Frames(inputs)
            IN  l1' = [l1 EXCEPT ![inputs.version] =
                         [equity |-> f.equity, calendar |-> f.calendar, asOf |-> f.asOf,
                          actions |-> f.actions, events |-> PriceEvents(f.actions)]]
       ELSE UNCHANGED l1
    /\ refused' = FALSE
    /\ UNCHANGED <<inputs, features, scoring, ranks, corrections>>

\* The operator corrects one line of the equity file, or adds or takes one
\* away, for the same date, and names the version to ingest it under.
Correct ==
    /\ ingested /\ corrections < MaxCorrections
    /\ corrections' = corrections + 1
    /\ \E file \in Corrections, v \in Version :
          /\ Cardinality(file \ inputs.equity) <= 1 /\ Cardinality(inputs.equity \ file) <= 1
          /\ file # inputs.equity
          /\ inputs' = [inputs EXCEPT !.equity = file, !.version = v]
    /\ HasAsOf(inputs') /\ AsOf(inputs') = AsOf(inputs)
    /\ ingested' = FALSE
    /\ UNCHANGED <<l1, features, refused, scoring, ranks>>

-----------------------------------------------------------------------------
(* Features                                                                *)

\* The versions that L1 has.
Published == {v \in Version : l1[v] # None}

\* _latest_parquet: the last file of the sorted folder.
Latest == l1[CHOOSE v \in Published : \A w \in Published : w <= v]

RunFeatures ==
    /\ Published # {}
    /\ IF FeaturesRefused(Latest)
       THEN refused' = TRUE /\ UNCHANGED features
       ELSE features' = [rows |-> MergedFrame(Latest), l1 |-> Latest] /\ UNCHANGED refused
    /\ UNCHANGED <<inputs, ingested, l1, scoring, ranks, corrections>>

-----------------------------------------------------------------------------
(* Inference                                                               *)

\* load_symbol_map_from_l1 takes the file of "v1", or else whichever one the
\* unsorted glob lists first.
SymbolFiles == IF V1 \in Published THEN {V1} ELSE Published

\* score_published_features, for the session asked for or asOf.
ScorePanel(session) ==
    /\ scoring = None /\ features # None
    /\ \E r \in features.rows : r.session = session
    /\ \E v \in SymbolFiles :
          scoring' = [rows |-> RankRows(features.rows, session, inputs.model,
                                        SymbolMap(l1[v].equity)),
                      session |-> session, l1 |-> l1[v], features |-> features]
    /\ UNCHANGED <<inputs, ingested, l1, features, refused, ranks, corrections>>

\* The rest of run_inference_publish: symbols back to ISINs, validation, and the
\* rank file (with --overwrite; Publish has the store).
PublishRanks ==
    /\ scoring # None
    /\ \E v \in SymbolFiles :
          LET frame == RankFrame(scoring.rows, SymbolMap(l1[v].equity))
          IN  IF ValidRankFrame(frame)
              THEN ranks' = [frame |-> frame, session |-> scoring.session,
                             features |-> scoring.features,
                             calm |-> {l1[v], scoring.l1} = {scoring.features.l1}]
              ELSE UNCHANGED ranks
    /\ scoring' = None
    /\ UNCHANGED <<inputs, ingested, l1, features, refused, corrections>>

Next == \/ RunIngest
        \/ Correct
        \/ RunFeatures
        \/ \E session \in Session : ScorePanel(session)
        \/ PublishRanks

Spec == Init /\ [][Next]_vars

-----------------------------------------------------------------------------
(* Properties                                                              *)

\* The frame of the published features for the date itself.
AsOfRows == {r \in features.rows : r.session = features.l1.asOf}

\* A return over fewer sessions than the gate looks back on spans exactly as many
\* open sessions of the calendar as its name says, though the code counts rows of
\* the name and not sessions (features/compute/common.py:76): the gap gate has
\* refused every file in which the two differ.
ReturnsSpanTheirSessions ==
    features # None /\ Period < Lookback =>
        \A r \in AsOfRows : r.base # Null =>
            Cardinality({d \in OpenSessions(features.l1.calendar) :
                            r.base < d /\ d <= r.session}) = Period

\* What passed the gates is fit for the features: a run over published L1 is
\* refused only for a volume or traded value that is missing or zero, which no gate
\* asks for, or because no row lies on an open session.
GatesSpareFeatures ==
    refused =>
        \/ \E r \in PitRows(Latest) : \E cell \in {r.volume, r.value} : cell = Null \/ cell <= 0
        \/ PitRows(Latest) = {}
        \/ \A r \in PitRows(Latest) : r.session \notin OpenSessions(Latest.calendar)

\* validate.py and adjust.py resolve factors with a function each: no action that
\* passed the one is left out by the other.
ActionsAreApplied ==
    \A v \in Published : {r \in l1[v].actions : r.type \in AdjustingTypes} = l1[v].events

\* The ranks published were for the date itself, an open session and the last one of
\* the equity file, and both times the symbols were those of the L1 partition that the
\* features are of: it had not been ingested over meanwhile, and models/io.py did not
\* take another dataset version's file.
CalmDailyRanks ==
    /\ ranks # None /\ ranks.calm
    /\ ranks.session = ranks.features.l1.asOf
    /\ ranks.session \in OpenSessions(ranks.features.l1.calendar)
    /\ \A r \in ranks.features.l1.equity : r.session <= ranks.session

\* A rank row published on the daily path carries the ISIN whose features were
\* scored, although it goes through a symbol that two names may share
\* (inference/pipeline.py:128): then both are in the panel, by the gap gate, and the
\* frame is refused.  By the symbols of another version, or of an earlier session or
\* a closed one, the ranks of the one name may be published as those of the other.
DailyRanksKeepTheirIsin ==
    CalmDailyRanks => \A r \in ranks.frame : r.isin = r.scored

\* The daily ranks, by the symbols of the features' own L1, leave no name out that was
\* ever in the file: a name without a row on the date has stopped L1.
EveryNameIsRanked ==
    CalmDailyRanks => {r.isin : r \in ranks.frame} = {r.isin : r \in ranks.features.l1.equity}

\* Risk leaves the scores of a row their sign.
ScoreLeft(r) == RiskWeight * r.risk < WeightUnit * FullRisk

\* Of two names with the same risk and the same bearish probability, the more bullish
\* is the better long, although the margin between its probabilities, and with it the
\* confidence that multiplies its score, shrinks as a bullish probability approaches
\* the bearish one: the strength that risk_confidence.py:49-52 blends in makes up for
\* it.  The same of shorts.
MoreBullishRanksBetter ==
    ranks # None => \A r, s \in ranks.frame :
        r.risk = s.risk /\ ScoreLeft(r) =>
            /\ r.bearish = s.bearish /\ r.bullish > s.bullish => r.rankLong < s.rankLong
            /\ r.bullish = s.bullish /\ r.bearish > s.bearish => r.rankShort < s.rankShort

=============================================================================
