-------------------------- MODULE DataToRanksProofs --------------------------
(***************************************************************************)
(* Proofs about DataToRanks, for every set of files that the operator may  *)
(* put in and every correction of them, any number of names, sessions,     *)
(* symbols, spellings and dataset versions, every lookback, period and set *)
(* of windows.                                                             *)
(*                                                                         *)
(* One invariant (ChainInv) carries what the gates have let through from   *)
(* L1 to the features and on to the ranks; what each theorem adds is about *)
(* files: counts of sessions for the gap gate and returns, a symbol that   *)
(* two names share, products of probabilities for the ranks.               *)
(***************************************************************************)
EXTENDS DataToRanks, FiniteSetTheorems, TLAPS

(***************************************************************************)
(* Finite sets of naturals.                                                *)
(***************************************************************************)

LEMMA SmallestNat ==
    ASSUME NEW T, T \subseteq Nat, T # {}
    PROVE  \E n \in T : \A m \in T : n <= m
<1>1. IsWellFoundedOn({p \in Nat \X Nat : p[1] < p[2]}, Nat)
  BY NatLessThanWellFounded DEF OpToRel
<1>2. \E n \in T : \A m \in T : ~ (<<m, n>> \in {p \in Nat \X Nat : p[1] < p[2]})
  BY <1>1, WFMin
<1>3. PICK n \in T : \A m \in T : ~ (<<m, n>> \in {p \in Nat \X Nat : p[1] < p[2]})
  BY <1>2
<1>4. ASSUME NEW m \in T PROVE n <= m
  <2>1. m \in Nat /\ n \in Nat
    OBVIOUS
  <2>2. ~ (<<m, n>> \in {p \in Nat \X Nat : p[1] < p[2]})
    BY <1>3
  <2>3. ~(m < n)
    BY <2>1, <2>2
  <2> QED  BY <2>1, <2>3
<1> QED  BY <1>4

\* The fewer elements are greater, the greater the element.
LEMMA LargestOf ==
    ASSUME NEW S, S \subseteq Nat, IsFiniteSet(S), S # {}
    PROVE  \E m \in S : \A n \in S : n <= m
<1> DEFINE After(d) == {e \in S : e > d}
           Counts == {Cardinality(After(d)) : d \in S}
<1>1. \A d \in S : IsFiniteSet(After(d)) /\ Cardinality(After(d)) \in Nat
  <2>1. \A d \in S : After(d) \subseteq S
    OBVIOUS
  <2> HIDE DEF After
  <2> QED  BY <2>1, FS_Subset, FS_CardinalityType
<1>2. PICK c \in Counts : \A k \in Counts : c <= k
  <2>1. Counts \subseteq Nat /\ Counts # {}
    BY <1>1
  <2> HIDE DEF Counts
  <2> QED  BY <2>1, SmallestNat
<1>3. PICK m \in S : c = Cardinality(After(m))
  OBVIOUS
<1>4. ASSUME NEW n \in S, m < n PROVE FALSE
  <2>1. After(n) \subseteq After(m) /\ n \in After(m) /\ n \notin After(n)
    <3>1. m \in Nat /\ n \in Nat /\ \A e \in S : e \in Nat
      OBVIOUS
    <3>2. \A e \in S : e > n => e > m
      BY <1>4, <3>1
    <3>3. n > m /\ ~(n > n)
      BY <1>4, <3>1
    <3> QED  BY <3>2, <3>3
  <2>2. After(n) # After(m)
    BY <2>1
  <2>3. c <= Cardinality(After(n))
    BY <1>2
  <2> HIDE DEF After, Counts
  <2>4. /\ Cardinality(After(n)) <= Cardinality(After(m))
        /\ Cardinality(After(n)) # Cardinality(After(m))
    BY <1>1, <2>1, <2>2, FS_Subset
  <2>5. PICK a \in Nat, b \in Nat : a = Cardinality(After(n)) /\ b = Cardinality(After(m))
    BY <1>1
  <2>6. b <= a /\ a <= b /\ a # b
    BY <1>3, <2>3, <2>4, <2>5
  <2> QED  BY <2>6
<1>5. \A n \in S : n <= m
  BY <1>4
<1> QED  BY <1>5

-------------------------------------------------------------------------------
(***************************************************************************)
(* What the gates leave of a file.                                         *)
(***************************************************************************)

LEMMA EquityPassed ==
    ASSUME NEW rows, ValidateEquity(rows) = {}
    PROVE  /\ \A r \in rows : r.isin # Null /\ r.close # Null /\ ~(r.close <= 0) /\ r.session # Null
           /\ ~Twice([r \in rows |-> EquityKey(r)])
BY DEF ValidateEquity, NonPositiveClose, Fail

LEMMA ActionsPassed ==
    ASSUME NEW rows, ValidateActions(rows) = {}
    PROVE  \A r \in rows : r.type \in AdjustingTypes => ~LacksFactor(r)
BY DEF ValidateActions, Fail

\* The files of an L1 partition, normalised.
CleanEquityRow ==
    [isin : Isin \cup {Null}, symbol : Spelling \cup {Null}, session : Session \cup {Null},
     high : Int \cup {Null}, low : Int \cup {Null}, close : Int \cup {Null},
     volume : Int \cup {Null}, value : Int \cup {Null}, line : Nat]

CleanActionRow ==
    [isin : Isin \cup {Null}, exDate : Session \cup {Null}, type : STRING \cup {Null},
     factor : Int \cup {Null}, num : Int \cup {Null}, den : Int \cup {Null}, line : Nat]

LEMMA CellsCoerced ==
    /\ \A cell \in Number : Coerced(cell) \in Int \cup {Null}
    /\ \A cell \in Date : Coerced(cell) \in Session \cup {Null}
    /\ \A text \in Spelling \cup {Null} : Upper(text) \in Spelling \cup {Null}
BY DataQualityAssumption DEF Coerced, Upper, Number, Date

LEMMA EquityNormalized ==
    ASSUME NEW file, file \subseteq EquityRow, IsFiniteSet(file)
    PROVE  NormalizeEquity(file) \subseteq CleanEquityRow /\ IsFiniteSet(NormalizeEquity(file))
<1> DEFINE Row(r) == [r EXCEPT !.symbol = Upper(@), !.session = Coerced(@), !.high = Coerced(@),
                               !.low = Coerced(@), !.close = Coerced(@), !.volume = Coerced(@),
                               !.value = Coerced(@)]
<1>1. ASSUME NEW r \in EquityRow PROVE Row(r) \in CleanEquityRow
  <2>1. /\ Upper(r.symbol) \in Spelling \cup {Null} /\ Coerced(r.session) \in Session \cup {Null}
        /\ Coerced(r.high) \in Int \cup {Null} /\ Coerced(r.low) \in Int \cup {Null}
        /\ Coerced(r.close) \in Int \cup {Null} /\ Coerced(r.volume) \in Int \cup {Null}
        /\ Coerced(r.value) \in Int \cup {Null}
    BY CellsCoerced DEF EquityRow
  <2> QED  BY <2>1 DEF EquityRow, CleanEquityRow
<1>2. NormalizeEquity(file) = {Row(r) : r \in file}
  BY DEF NormalizeEquity
<1> HIDE DEF Row
<1>3. IsFiniteSet({Row(r) : r \in file})
  <2>1. [r \in file |-> Row(r)] \in Surjection(file, {Row(r) : r \in file})
    BY DEF Surjection
  <2> QED  BY <2>1, FS_Surjection
<1> QED  BY <1>1, <1>2, <1>3

LEMMA ActionsNormalized ==
    ASSUME NEW file, file \subseteq ActionRow
    PROVE  NormalizeActions(file) \subseteq CleanActionRow
<1>1. ASSUME NEW r \in ActionRow
      PROVE  [r EXCEPT !.exDate = Coerced(@), !.factor = Coerced(@), !.num = Coerced(@),
                       !.den = Coerced(@)] \in CleanActionRow
  <2>1. /\ Coerced(r.exDate) \in Session \cup {Null} /\ Coerced(r.factor) \in Int \cup {Null}
        /\ Coerced(r.num) \in Int \cup {Null} /\ Coerced(r.den) \in Int \cup {Null}
    BY CellsCoerced DEF ActionRow
  <2> QED  BY <2>1 DEF ActionRow, CleanActionRow
<1> QED  BY <1>1 DEF NormalizeActions

LEMMA CalendarNormalized ==
    ASSUME NEW file, file \subseteq CalendarRow
    PROVE  \A r \in NormalizeCalendar(file) : r.session \in Session \cup {Null}
<1>1. ASSUME NEW r \in CalendarRow
      PROVE  [r EXCEPT !.session = Coerced(@)].session \in Session \cup {Null}
  BY CellsCoerced DEF CalendarRow
<1> QED  BY <1>1 DEF NormalizeCalendar

\* The as_of date of a file with a date is one of its dates.
LEMMA AsOfIsSession ==
    ASSUME NEW in, in.asOf \in Session \cup {None}, in.equity \subseteq EquityRow, HasAsOf(in)
    PROVE  AsOf(in) \in Session
<1>1. CASE in.asOf # None
  BY <1>1 DEF AsOf
<1>2. CASE in.asOf = None
  <2>1. Dates(in.equity) # {} /\ Dates(in.equity) \subseteq Session
    <3>1. \A r \in in.equity : Coerced(r.session) \in Session \cup {Null}
      BY CellsCoerced DEF EquityRow
    <3> QED  BY <1>2, <3>1 DEF HasAsOf, Dates
  <2>2. IsFiniteSet(Dates(in.equity)) /\ Dates(in.equity) \subseteq Nat
    BY <2>1, DataQualityAssumption, FS_Subset
  <2>3. \E d \in Dates(in.equity) : \A e \in Dates(in.equity) : e <= d
    BY <2>1, <2>2, LargestOf
  <2>4. AsOf(in) \in Dates(in.equity)
    BY <1>2, <2>3 DEF AsOf
  <2> QED  BY <2>1, <2>4
<1> QED  BY <1>1, <1>2

\* An L1 partition that the gates have let through.
Passed(p) ==
    /\ p.equity \subseteq CleanEquityRow /\ IsFiniteSet(p.equity)
    /\ p.actions \subseteq CleanActionRow
    /\ \A r \in p.calendar : r.session \in Session \cup {Null}
    /\ p.asOf \in Session
    /\ p.events = PriceEvents(p.actions)
    /\ ValidateEquity(p.equity) = {}
    /\ ValidateActions(p.actions) = {}
    /\ ValidateCalendar(p.calendar) = {}
    /\ NoMissingSessions(p.equity, p.calendar, p.asOf)

LEMMA GatesPassed ==
    ASSUME NEW in \in Incoming, IsFiniteSet(in.equity), PassesGates(in)
    PROVE  Passed([equity |-> Frames(in).equity, calendar |-> Frames(in).calendar,
                   asOf |-> Frames(in).asOf, actions |-> Frames(in).actions,
                   events |-> PriceEvents(Frames(in).actions)])
<1>1. /\ in.equity \subseteq EquityRow /\ in.calendar \subseteq CalendarRow
      /\ in.actions \subseteq ActionRow /\ in.asOf \in Session \cup {None}
  BY DEF Incoming
<1> DEFINE f == Frames(in)
<1>2. /\ f.equity = NormalizeEquity(in.equity) /\ f.actions = NormalizeActions(in.actions)
      /\ f.calendar = NormalizeCalendar(in.calendar) /\ f.asOf = AsOf(in)
  BY DEF Frames
<1>3. /\ HasAsOf(in)
      /\ ValidateEquity(f.equity) = {} /\ ValidateActions(f.actions) = {}
      /\ ValidateCalendar(f.calendar) = {}
      /\ NoMissingSessions(f.equity, f.calendar, f.asOf)
  BY DEF PassesGates
<1>4. /\ f.equity \subseteq CleanEquityRow /\ IsFiniteSet(f.equity)
      /\ f.actions \subseteq CleanActionRow
      /\ \A r \in f.calendar : r.session \in Session \cup {Null}
      /\ f.asOf \in Session
  BY <1>1, <1>2, <1>3, EquityNormalized, ActionsNormalized, CalendarNormalized, AsOfIsSession
<1> HIDE DEF f
<1> QED  BY <1>3, <1>4 DEF Passed, f

-------------------------------------------------------------------------------
(***************************************************************************)
(* The chain.  Whatever the operator corrects meanwhile, the features are  *)
(* those of an L1 partition that passed, and the ranks those of such       *)
(* features, by the symbols of two reads of L1, of some version each, that *)
(* on a calm path are those of the features' partition.                    *)
(***************************************************************************)

Computed(f) ==
    Passed(f.l1) /\ ~FeaturesRefused(f.l1) /\ f.rows = MergedFrame(f.l1)

\* The rank rows that a run scored for the session, with the symbols of L1 p.
Scored(rows, f, session, p) ==
    \E model \in Model : rows = RankRows(f.rows, session, model, SymbolMap(p.equity))

InputsInv == inputs \in Incoming /\ IsFiniteSet(inputs.equity)

StoresInv ==
    /\ l1 = [v \in Version |-> l1[v]]
    /\ \A v \in Published : Passed(l1[v])
    /\ refused => Published # {} /\ FeaturesRefused(Latest)
    /\ features # None => Computed(features)

RunInv ==
    scoring # None =>
        /\ Computed(scoring.features)
        /\ Scored(scoring.rows, scoring.features, scoring.session, scoring.l1)

RanksInv ==
    ranks # None =>
        /\ Computed(ranks.features)
        /\ ValidRankFrame(ranks.frame)
        /\ \E p, q, rows :
              /\ Scored(rows, ranks.features, ranks.session, p)
              /\ ranks.frame = RankFrame(rows, SymbolMap(q.equity))
              /\ ranks.calm => p = ranks.features.l1 /\ q = ranks.features.l1

ChainInv == InputsInv /\ StoresInv /\ RunInv /\ RanksInv

LEMMA LatestPassed ==
    ASSUME ChainInv, Published # {}
    PROVE  Passed(Latest)
<1>1. Published \subseteq Nat /\ IsFiniteSet(Published)
  <2>1. Published \subseteq Version
    BY DEF Published
  <2> QED  BY <2>1, DataToRanksAssumption, FS_Subset
<1>2. \E v \in Published : \A w \in Published : w <= v
  BY <1>1, LargestOf
<1>3. PICK v \in Published : Latest = l1[v]
  BY <1>2 DEF Latest
<1> QED  BY <1>3 DEF ChainInv, StoresInv

LEMMA ChainInvInit == Init => ChainInv
<1> SUFFICES ASSUME Init PROVE ChainInv
  OBVIOUS
<1>1. Published = {} /\ l1 = [v \in Version |-> l1[v]]
  BY DEF Init, Published
<1> QED
  BY <1>1, DataToRanksAssumption DEF Init, ChainInv, InputsInv, StoresInv, RunInv, RanksInv

LEMMA IngestKeepsChain ==
    ASSUME ChainInv, RunIngest
    PROVE  ChainInv'
<1>1. UNCHANGED <<inputs, features, scoring, ranks>> /\ refused' = FALSE
  BY DEF RunIngest
<1>2. l1 = [v \in Version |-> l1[v]] /\ \A v \in Published : Passed(l1[v])
  BY DEF ChainInv, StoresInv
<1>3. /\ l1' = [v \in Version |-> l1'[v]]
      /\ \A v \in Version : l1'[v] # None => Passed(l1'[v])
  <2>1. CASE PassesGates(inputs)
    <3> DEFINE f == Frames(inputs)
    <3>1. PICK p : p = [equity |-> f.equity, calendar |-> f.calendar, asOf |-> f.asOf,
                        actions |-> f.actions, events |-> PriceEvents(f.actions)]
      OBVIOUS
    <3>2. l1' = [l1 EXCEPT ![inputs.version] = p]
      BY <2>1, <3>1 DEF RunIngest
    <3>3. inputs \in Incoming /\ IsFiniteSet(inputs.equity)
      BY DEF ChainInv, InputsInv
    <3>4. Passed(p)
      BY <2>1, <3>1, <3>3, GatesPassed
    <3> HIDE DEF f
    <3>5. \A v \in Version : l1'[v] = IF v = inputs.version THEN p ELSE l1[v]
      BY <1>2, <3>2
    <3>6. l1' = [v \in Version |-> l1'[v]]
      BY <1>2, <3>2
    <3> QED  BY <1>2, <3>4, <3>5, <3>6 DEF Published
  <2>2. CASE ~PassesGates(inputs)
    BY <1>2, <2>2 DEF RunIngest, Published
  <2> QED  BY <2>1, <2>2
<1>4. \A v \in Published' : Passed(l1'[v])
  BY <1>3 DEF Published
<1> QED  BY <1>1, <1>3, <1>4 DEF ChainInv, InputsInv, StoresInv, RunInv, RanksInv

LEMMA CorrectKeepsChain ==
    ASSUME ChainInv, Correct
    PROVE  ChainInv'
<1>1. UNCHANGED <<l1, features, refused, scoring, ranks>>
  BY DEF Correct
<1>2. PICK file \in Corrections, v \in Version :
        inputs' = [inputs EXCEPT !.equity = file, !.version = v]
  BY DEF Correct
<1>3. file \subseteq EquityRow /\ IsFiniteSet(file)
  BY DataToRanksAssumption
<1>4. InputsInv'
  BY <1>2, <1>3 DEF ChainInv, InputsInv, Incoming
<1>5. Published' = Published /\ Latest' = Latest
  BY <1>1 DEF Published, Latest
<1> QED  BY <1>1, <1>4, <1>5 DEF ChainInv, StoresInv, RunInv, RanksInv

LEMMA FeaturesKeepChain ==
    ASSUME ChainInv, RunFeatures
    PROVE  ChainInv'
<1>1. UNCHANGED <<inputs, l1, scoring, ranks>> /\ Published # {}
  BY DEF RunFeatures
<1>2. Published' = Published /\ Latest' = Latest
  BY <1>1 DEF Published, Latest
<1>3. StoresInv'
  <2>1. CASE FeaturesRefused(Latest)
    BY <1>1, <1>2, <2>1 DEF RunFeatures, ChainInv, StoresInv
  <2>2. CASE ~FeaturesRefused(Latest)
    <3>1. features' = [rows |-> MergedFrame(Latest), l1 |-> Latest] /\ UNCHANGED refused
      BY <2>2 DEF RunFeatures
    <3>2. Passed(Latest)
      BY <1>1, LatestPassed
    <3>3. Computed(features')
      BY <2>2, <3>1, <3>2 DEF Computed
    <3> QED  BY <1>1, <1>2, <3>1, <3>3 DEF ChainInv, StoresInv
  <2> QED  BY <2>1, <2>2
<1> QED  BY <1>1, <1>3 DEF ChainInv, InputsInv, RunInv, RanksInv

LEMMA ScoreKeepsChain ==
    ASSUME ChainInv, NEW session \in Session, ScorePanel(session)
    PROVE  ChainInv'
<1>1. UNCHANGED <<inputs, l1, features, refused, ranks>> /\ features # None
  BY DEF ScorePanel
<1>2. PICK v \in SymbolFiles :
        scoring' = [rows |-> RankRows(features.rows, session, inputs.model,
                                      SymbolMap(l1[v].equity)),
                    session |-> session, l1 |-> l1[v], features |-> features]
  BY DEF ScorePanel
<1>3. Computed(features) /\ inputs.model \in Model
  BY <1>1 DEF ChainInv, StoresInv, InputsInv, Incoming
<1>4. Scored(scoring'.rows, features, session, l1[v])
  BY <1>2, <1>3 DEF Scored
<1>5. RunInv'
  BY <1>2, <1>3, <1>4 DEF RunInv
<1>6. Published' = Published /\ Latest' = Latest
  BY <1>1 DEF Published, Latest
<1> QED  BY <1>1, <1>5, <1>6 DEF ChainInv, InputsInv, StoresInv, RanksInv

LEMMA PublishKeepsChain ==
    ASSUME ChainInv, PublishRanks
    PROVE  ChainInv'
<1>1. UNCHANGED <<inputs, l1, features, refused>> /\ scoring # None /\ scoring' = None
  BY DEF PublishRanks
<1>2. PICK p : /\ p \in {l1[v] : v \in SymbolFiles}
               /\ LET frame == RankFrame(scoring.rows, SymbolMap(p.equity))
                  IN  IF ValidRankFrame(frame)
                      THEN ranks' = [frame |-> frame, session |-> scoring.session,
                                     features |-> scoring.features,
                                     calm |-> {p, scoring.l1} = {scoring.features.l1}]
                      ELSE UNCHANGED ranks
  BY DEF PublishRanks
<1> DEFINE frame == RankFrame(scoring.rows, SymbolMap(p.equity))
<1>3. RanksInv'
  <2>1. CASE ValidRankFrame(frame)
    <3>1. ranks' = [frame |-> frame, session |-> scoring.session, features |-> scoring.features,
                    calm |-> {p, scoring.l1} = {scoring.features.l1}]
      BY <1>2, <2>1
    <3>2. /\ ranks'.frame = frame /\ ranks'.session = scoring.session
          /\ ranks'.features = scoring.features
          /\ ranks'.calm = ({p, scoring.l1} = {scoring.features.l1})
      BY <3>1
    <3>3. /\ Computed(scoring.features)
          /\ Scored(scoring.rows, scoring.features, scoring.session, scoring.l1)
      BY <1>1 DEF ChainInv, RunInv
    <3>4. ranks'.calm => scoring.l1 = scoring.features.l1 /\ p = scoring.features.l1
      BY <3>2
    <3>5. \E o, q, rows :
            /\ Scored(rows, ranks'.features, ranks'.session, o)
            /\ ranks'.frame = RankFrame(rows, SymbolMap(q.equity))
            /\ ranks'.calm => o = ranks'.features.l1 /\ q = ranks'.features.l1
      BY <3>2, <3>3, <3>4
    <3> HIDE DEF frame
    <3> QED  BY <2>1, <3>2, <3>3, <3>5 DEF RanksInv
  <2>2. CASE ~ValidRankFrame(frame)
    BY <1>2, <2>2 DEF ChainInv, RanksInv
  <2> QED  BY <2>1, <2>2
<1>4. RunInv'
  BY <1>1 DEF RunInv
<1>5. Published' = Published /\ Latest' = Latest
  BY <1>1 DEF Published, Latest
<1> QED  BY <1>1, <1>3, <1>4, <1>5 DEF ChainInv, InputsInv, StoresInv

LEMMA ChainInvHolds == Spec => []ChainInv
<1>1. ChainInv /\ [Next]_vars => ChainInv'
  <2> SUFFICES ASSUME ChainInv, [Next]_vars PROVE ChainInv'
    OBVIOUS
  <2>1. CASE UNCHANGED vars
    <3>1. Published' = Published /\ Latest' = Latest
      BY <2>1 DEF vars, Published, Latest
    <3> QED  BY <2>1, <3>1 DEF vars, ChainInv, InputsInv, StoresInv, RunInv, RanksInv
  <2> QED
    BY <2>1, IngestKeepsChain, CorrectKeepsChain, FeaturesKeepChain, ScoreKeepsChain,
       PublishKeepsChain
    DEF Next
<1> QED  BY <1>1, ChainInvInit, PTL DEF Spec

\* The two functions that resolve a factor agree on every file that passed: no action
\* that adjusts is left out of the adjustment.
THEOREM NoActionDropped == Spec => []ActionsAreApplied
<1>1. ChainInv => ActionsAreApplied
  <2> SUFFICES ASSUME ChainInv, NEW v \in Published
               PROVE  {r \in l1[v].actions : r.type \in AdjustingTypes} = l1[v].events
    BY DEF ActionsAreApplied
  <2> DEFINE p == l1[v]
  <2>1. /\ p.actions \subseteq CleanActionRow /\ ValidateActions(p.actions) = {}
        /\ p.events = PriceEvents(p.actions)
    BY DEF ChainInv, StoresInv, Passed
  <2> HIDE DEF p
  <2>2. ASSUME NEW r \in p.actions, ~LacksFactor(r)
        PROVE  ResolvePriceFactor(r) # Null
    <3>1. r.factor \in Int \cup {Null} /\ r.num \in Int \cup {Null} /\ r.den \in Int \cup {Null}
      BY <2>1 DEF CleanActionRow
    <3>2. ResolveFactor(r) # Null
      BY <2>2 DEF LacksFactor
    <3>3. ~(ResolveFactor(r)[1] * ResolveFactor(r)[2] <= 0)
      BY <2>2 DEF LacksFactor
    <3>4. CASE r.factor # Null
      <4>1. ResolveFactor(r) = <<r.factor, 1>> /\ r.factor \in Int
        BY <3>1, <3>4 DEF ResolveFactor
      <4>2. r.factor > 0
        BY <3>3, <4>1
      <4>3. ResolvePriceFactor(r) = <<r.factor, 1>>
        BY <3>4, <4>2 DEF ResolvePriceFactor
      <4> QED  BY <3>2, <4>1, <4>3
    <3>5. CASE r.factor = Null
      <4>1. /\ r.num # Null /\ r.den # Null /\ r.den # 0
            /\ ResolveFactor(r) = <<r.num, r.den>> /\ r.num \in Int /\ r.den \in Int
        BY <3>1, <3>2, <3>5 DEF ResolveFactor
      <4>2. r.num * r.den > 0
        BY <3>3, <4>1
      <4>3. ResolvePriceFactor(r) = <<r.num, r.den>>
        BY <3>5, <4>1, <4>2 DEF ResolvePriceFactor
      <4> QED  BY <3>2, <4>1, <4>3
    <3> QED  BY <3>4, <3>5
  <2>3. \A r \in p.actions : r.type \in AdjustingTypes => ~LacksFactor(r)
    BY <2>1, ActionsPassed
  <2> QED  BY <2>1, <2>2, <2>3 DEF PriceEvents, p
<1> QED  BY <1>1, ChainInvHolds, PTL

\* A feature run over published L1 is refused only for a volume or traded value that
\* no gate asks for, or because no row lies on an open session.
THEOREM GatesSpare == Spec => []GatesSpareFeatures
<1>1. ChainInv => GatesSpareFeatures
  <2> SUFFICES ASSUME ChainInv, refused
               PROVE  \/ \E r \in PitRows(Latest) : \E cell \in {r.volume, r.value} :
                            cell = Null \/ cell <= 0
                      \/ PitRows(Latest) = {}
                      \/ \A r \in PitRows(Latest) : r.session \notin OpenSessions(Latest.calendar)
    BY DEF GatesSpareFeatures
  <2>1. Passed(Latest) /\ FeaturesRefused(Latest)
    BY LatestPassed DEF ChainInv, StoresInv
  <2>2. PitRows(Latest) \subseteq Latest.equity
    BY DEF PitRows
  <2>3. CASE NotProjectable(Latest)
    <3>1. PICK r \in PitRows(Latest) : \E cell \in {r.close, r.volume, r.value} :
                                      cell = Null \/ cell <= 0
      BY <2>3 DEF NotProjectable
    <3>2. r.close # Null /\ ~(r.close <= 0)
      BY <2>1, <2>2, EquityPassed DEF Passed
    <3> QED  BY <3>1, <3>2
  <2>4. CASE Twice([r \in PitRows(Latest) |-> EquityKey(r)])
    <3>1. Twice([r \in Latest.equity |-> EquityKey(r)])
      BY <2>2, <2>4 DEF Twice
    <3> QED  BY <2>1, <3>1, EquityPassed DEF Passed
  <2>5. CASE \A r \in PitRows(Latest) : r.session \notin FeatureSessions(Latest)
    BY <2>5 DEF PitRows, FeatureSessions
  <2> QED  BY <2>1, <2>3, <2>4, <2>5 DEF FeaturesRefused
<1> QED  BY <1>1, ChainInvHolds, PTL

-------------------------------------------------------------------------------
(***************************************************************************)
(* Names.  On a calm daily path every name of the file has a row on the    *)
(* date, by the gap gate, so a symbol that two names share gives the       *)
(* frame one ISIN twice, and it is refused.                                *)
(***************************************************************************)

LEMMA OpenSessionsType ==
    ASSUME NEW p, Passed(p)
    PROVE  OpenSessions(p.calendar) \subseteq Session
<1>1. \A r \in p.calendar : r.session # Null
  BY DEF Passed, ValidateCalendar, Fail
<1> QED  BY <1>1 DEF Passed, OpenSessions

LEMMA EquityType ==
    ASSUME NEW p, Passed(p), NEW r \in p.equity
    PROVE  /\ r.isin \in Isin /\ r.isin \in Nat /\ r.session \in Session /\ r.session \in Nat
           /\ p.asOf \in Nat
BY EquityPassed, DataQualityAssumption DEF Passed, CleanEquityRow

\* A name that was seen before a recent open session has a row on it.
LEMMA RecentAreObserved ==
    ASSUME NEW p, Passed(p), NEW r \in p.equity, NEW d \in Session, r.session <= d,
           d \in LastOf({e \in OpenSessions(p.calendar) : e <= p.asOf}, Lookback)
    PROVE  \E q \in p.equity : q.isin = r.isin /\ q.session = d
<1> DEFINE gap == <<r.isin, d>>
           recent == LastOf({e \in OpenSessions(p.calendar) : e <= p.asOf}, Lookback)
<1>1. HardGaps(p.equity, p.calendar, p.asOf) = {}
  BY DEF Passed, NoMissingSessions
<1>2. gap \in {x.isin : x \in p.equity} \X recent /\ gap[1] = r.isin /\ gap[2] = d
  OBVIOUS
<1>3. r.session \in Observed(p.equity, r.isin)
  BY DEF Observed
<1>4. d \in Observed(p.equity, r.isin)
  <2> HIDE DEF gap, recent
  <2>1. ~(/\ gap[2] \notin Observed(p.equity, gap[1])
          /\ \E first \in Observed(p.equity, gap[1]) : first <= gap[2])
    BY <1>1, <1>2 DEF HardGaps, recent
  <2> QED  BY <1>2, <1>3, <2>1
<1> QED  BY <1>4 DEF Observed

Names(p) == {r.isin : r \in p.equity}

\* The names of the panel of the date are those of the file.
LEMMA PanelNames ==
    ASSUME Lookback > 0, NEW f, Computed(f), f.l1.asOf \in OpenSessions(f.l1.calendar),
           \A r \in f.l1.equity : r.session <= f.l1.asOf
    PROVE  {x.isin : x \in {y \in f.rows : y.session = f.l1.asOf}} = Names(f.l1)
<1> DEFINE p == f.l1
           open == {e \in OpenSessions(p.calendar) : e <= p.asOf}
<1>1. Passed(p) /\ f.rows = MergedFrame(p)
  BY DEF Computed
<1>2. p.asOf \in Session /\ p.asOf \in Nat
  BY <1>1, DataQualityAssumption DEF Passed
<1>3. p.asOf \in LastOf(open, Lookback)
  <2>1. {e \in open : e > p.asOf} = {}
    <3>1. open \subseteq Nat
      BY <1>1, OpenSessionsType, DataQualityAssumption
    <3> QED  BY <1>2, <3>1
  <2>2. p.asOf \in open
    BY <1>2
  <2> HIDE DEF open
  <2>3. Cardinality({e \in open : e > p.asOf}) = 0
    BY <2>1, FS_EmptySet
  <2> QED  BY <2>2, <2>3 DEF LastOf
<1>4. \A r \in p.equity : \E q \in p.equity : q.isin = r.isin /\ q.session = p.asOf
  <2> HIDE DEF p
  <2> QED  BY <1>1, <1>2, <1>3, RecentAreObserved DEF p
<1>5. \A r : FeatureRow(p, r).isin = r.isin /\ FeatureRow(p, r).session = r.session
  BY DEF FeatureRow
<1>6. PitRows(p) \subseteq p.equity /\ \A r \in p.equity : r.session = p.asOf => r \in PitRows(p)
  BY <1>2 DEF PitRows
<1> HIDE DEF p
<1>7. \A i : (\E x \in f.rows : x.session = p.asOf /\ x.isin = i)
               <=> (\E r \in p.equity : r.session = p.asOf /\ r.isin = i)
  <2>1. ASSUME NEW i, NEW x \in f.rows, x.session = p.asOf, x.isin = i
        PROVE  \E r \in p.equity : r.session = p.asOf /\ r.isin = i
    <3>1. PICK r \in PitRows(p) : x = FeatureRow(p, r)
      BY <1>1 DEF MergedFrame
    <3> QED  BY <1>5, <1>6, <2>1, <3>1
  <2>2. ASSUME NEW i, NEW r \in p.equity, r.session = p.asOf, r.isin = i
        PROVE  \E x \in f.rows : x.session = p.asOf /\ x.isin = i
    <3>1. FeatureRow(p, r) \in f.rows
      BY <1>1, <1>6, <2>2 DEF MergedFrame
    <3> QED  BY <1>5, <2>2, <3>1
  <2> QED  BY <2>1, <2>2
<1>8. {x.isin : x \in {y \in f.rows : y.session = p.asOf}} = Names(p)
  <2>1. \A i : i \in {x.isin : x \in {y \in f.rows : y.session = p.asOf}}
                 <=> \E x \in f.rows : x.session = p.asOf /\ x.isin = i
    OBVIOUS
  <2>2. \A i : i \in Names(p) <=> \E r \in p.equity : r.session = p.asOf /\ r.isin = i
    BY <1>4 DEF Names
  <2> QED  BY <1>7, <2>1, <2>2
<1> QED  BY <1>8 DEF p

LEMMA MappedNames ==
    ASSUME NEW equity
    PROVE  DOMAIN SymbolMap(equity) \subseteq {r.isin : r \in equity}
BY DEF SymbolMap

\* The symbol of a rank row.
Shown(symbols, i) == IF i \in DOMAIN symbols THEN symbols[i] ELSE i

LEMMA RankRowsOf ==
    ASSUME NEW rows, NEW session, NEW model, NEW symbols
    PROVE  /\ \A t \in RankRows(rows, session, model, symbols) :
                \E x \in rows : /\ x.session = session /\ t.scored = x.isin
                                /\ t.symbol = Shown(symbols, x.isin)
           /\ \A x \in rows : x.session = session =>
                \E t \in RankRows(rows, session, model, symbols) :
                    t.scored = x.isin /\ t.symbol = Shown(symbols, x.isin)
<1> DEFINE panel == {r \in rows : r.session = session}
           scores == {ScoreRow(panel, r, model) : r \in panel}
           Row(s) == [symbol |-> IF s.isin \in DOMAIN symbols THEN symbols[s.isin] ELSE s.isin,
                      scored |-> s.isin,
                      bullish |-> s.bullish, bearish |-> s.bearish, risk |-> s.risk,
                      rankLong |-> RankBy([x \in scores |-> x.long], s),
                      rankShort |-> RankBy([x \in scores |-> x.short], s)]
<1>1. RankRows(rows, session, model, symbols) = {Row(s) : s \in scores}
  BY DEF RankRows
<1>2. \A x : ScoreRow(panel, x, model).isin = x.isin
  BY DEF ScoreRow
<1>3. \A s : Row(s).scored = s.isin /\ Row(s).symbol = Shown(symbols, s.isin)
  BY DEF Shown
<1>4. \A x \in rows : x.session = session <=> x \in panel
  OBVIOUS
<1>5. panel \subseteq rows
  OBVIOUS
<1> HIDE DEF Row, panel
<1>6. ASSUME NEW t \in RankRows(rows, session, model, symbols)
      PROVE  \E x \in rows : /\ x.session = session /\ t.scored = x.isin
                              /\ t.symbol = Shown(symbols, x.isin)
  <2>1. PICK x \in panel : t = Row(ScoreRow(panel, x, model))
    BY <1>1
  <2> QED  BY <1>2, <1>3, <1>4, <1>5, <2>1
<1>7. ASSUME NEW x \in rows, x.session = session
      PROVE  \E t \in RankRows(rows, session, model, symbols) :
                t.scored = x.isin /\ t.symbol = Shown(symbols, x.isin)
  <2>1. Row(ScoreRow(panel, x, model)) \in RankRows(rows, session, model, symbols)
    BY <1>1, <1>4, <1>7
  <2> QED  BY <1>2, <1>3, <2>1
<1> QED  BY <1>6, <1>7

LEMMA RankFrameOf ==
    ASSUME NEW rows, NEW symbols
    PROVE  /\ \A r \in RankFrame(rows, symbols) :
                \E t \in rows : r.isin = IsinOf(symbols, t.symbol) /\ r.scored = t.scored
           /\ \A t \in rows : \E r \in RankFrame(rows, symbols) :
                r.isin = IsinOf(symbols, t.symbol) /\ r.scored = t.scored
<1> DEFINE Row(t) == [isin |-> IsinOf(symbols, t.symbol), symbol |-> t.symbol,
                      scored |-> t.scored, bullish |-> t.bullish, bearish |-> t.bearish,
                      risk |-> t.risk, rankLong |-> t.rankLong, rankShort |-> t.rankShort]
<1>1. RankFrame(rows, symbols) = {Row(t) : t \in rows}
  BY DEF RankFrame
<1>2. \A t : Row(t).isin = IsinOf(symbols, t.symbol) /\ Row(t).scored = t.scored
  OBVIOUS
<1> HIDE DEF Row
<1> QED  BY <1>1, <1>2

\* When every name with a symbol is in the panel, a frame that is valid names each row
\* by its own ISIN.
LEMMA FrameKeepsIsin ==
    ASSUME NEW rows, NEW session, NEW model, NEW symbols,
           DOMAIN symbols \subseteq Nat, IsFiniteSet(DOMAIN symbols),
           DOMAIN symbols \subseteq {x.isin : x \in {y \in rows : y.session = session}},
           NEW frame,
           frame = RankFrame(RankRows(rows, session, model, symbols), symbols),
           ValidRankFrame(frame)
    PROVE  \A r \in frame : r.isin = r.scored
<1> DEFINE ranked == RankRows(rows, session, model, symbols)
<1>1. SUFFICES ASSUME NEW r \in frame PROVE r.isin = r.scored
  OBVIOUS
<1>2. PICK t \in ranked : r.isin = IsinOf(symbols, t.symbol) /\ r.scored = t.scored
  BY RankFrameOf
<1>3. PICK x \in rows : /\ x.session = session /\ t.scored = x.isin
                        /\ t.symbol = Shown(symbols, x.isin)
  BY <1>2, RankRowsOf
<1> DEFINE sharing == {i \in DOMAIN symbols : symbols[i] = t.symbol}
<1>4. CASE sharing = {}
  <2>1. x.isin \notin DOMAIN symbols
    BY <1>3, <1>4 DEF Shown
  <2>2. t.symbol = x.isin
    BY <1>3, <2>1 DEF Shown
  <2>3. IsinOf(symbols, t.symbol) = t.symbol
    BY <1>4 DEF IsinOf
  <2> QED  BY <1>2, <1>3, <2>2, <2>3
<1>5. CASE sharing # {}
  <2>1. \E i \in sharing : \A j \in sharing : j <= i
    <3>1. sharing \subseteq Nat /\ IsFiniteSet(sharing)
      BY FS_Subset
    <3> HIDE DEF sharing
    <3> QED  BY <1>5, <3>1, LargestOf
  <2>2. PICK k \in sharing : k = IsinOf(symbols, t.symbol)
    BY <1>5, <2>1 DEF IsinOf
  <2>3. PICK y \in rows : y.session = session /\ y.isin = k
    BY <2>2
  <2>4. PICK u \in ranked : u.scored = y.isin /\ u.symbol = Shown(symbols, y.isin)
    BY <2>3, RankRowsOf
  <2>5. u.symbol = t.symbol /\ u.scored = k
    BY <2>2, <2>3, <2>4 DEF Shown
  <2>6. PICK q \in frame : q.isin = IsinOf(symbols, u.symbol) /\ q.scored = u.scored
    BY <2>4, RankFrameOf
  <2>7. q.isin = k /\ q.scored = k /\ r.isin = k
    BY <1>2, <2>2, <2>5, <2>6
  <2>8. ~Twice([z \in frame |-> RankKey(z)])
    BY DEF ValidRankFrame
  <2>9. q = r
    BY <2>7, <2>8 DEF Twice, RankKey
  <2> QED  BY <2>7, <2>9
<1> QED  BY <1>4, <1>5

LEMMA CalmFrame ==
    ASSUME Lookback > 0, ChainInv, CalmDailyRanks
    PROVE  /\ \A r \in ranks.frame : r.isin = r.scored
           /\ {r.scored : r \in ranks.frame} = Names(ranks.features.l1)
<1> DEFINE f == ranks.features
           p == f.l1
           symbols == SymbolMap(p.equity)
<1>1. /\ ranks # None /\ ranks.calm /\ ranks.session = p.asOf
      /\ p.asOf \in OpenSessions(p.calendar) /\ \A r \in p.equity : r.session <= p.asOf
  BY DEF CalmDailyRanks
<1>2. Computed(f) /\ Passed(p) /\ ValidRankFrame(ranks.frame)
  BY <1>1 DEF ChainInv, RanksInv, Computed
<1>3. PICK rows : /\ Scored(rows, f, ranks.session, p)
                  /\ ranks.frame = RankFrame(rows, symbols)
  BY <1>1 DEF ChainInv, RanksInv
<1>4. PICK model \in Model : rows = RankRows(f.rows, ranks.session, model, symbols)
  BY <1>3 DEF Scored
<1>5. {x.isin : x \in {y \in f.rows : y.session = ranks.session}} = Names(p)
  BY <1>1, <1>2, PanelNames
<1>6. /\ DOMAIN symbols \subseteq Names(p) /\ Names(p) \subseteq Isin
      /\ IsFiniteSet(DOMAIN symbols) /\ DOMAIN symbols \subseteq Nat
  <2>1. DOMAIN symbols \subseteq Names(p)
    BY MappedNames DEF Names
  <2>2. Names(p) \subseteq Isin
    BY <1>2, EquityType DEF Names
  <2> HIDE DEF symbols
  <2> QED  BY <2>1, <2>2, DataQualityAssumption, FS_Subset
<1> HIDE DEF f, p, symbols
<1>7. \A r \in ranks.frame : r.isin = r.scored
  BY <1>2, <1>3, <1>4, <1>5, <1>6, FrameKeepsIsin
<1>8. \A i : (\E r \in ranks.frame : r.scored = i)
               <=> (\E x \in f.rows : x.session = ranks.session /\ x.isin = i)
  <2>1. ASSUME NEW r \in ranks.frame
        PROVE  \E x \in f.rows : x.session = ranks.session /\ x.isin = r.scored
    <3>1. PICK t \in rows : r.scored = t.scored
      BY <1>3, RankFrameOf
    <3> QED  BY <1>4, <3>1, RankRowsOf
  <2>2. ASSUME NEW x \in f.rows, x.session = ranks.session
        PROVE  \E r \in ranks.frame : r.scored = x.isin
    <3>1. PICK t \in rows : t.scored = x.isin
      BY <1>4, <2>2, RankRowsOf
    <3> QED  BY <1>3, <3>1, RankFrameOf
  <2> QED  BY <2>1, <2>2
<1>9. {r.scored : r \in ranks.frame} = Names(p)
  BY <1>5, <1>8
<1> QED  BY <1>7, <1>9 DEF f, p

\* A rank row published on the daily path carries the ISIN whose features were
\* scored, whatever names share a symbol.
THEOREM IsinKept ==
    ASSUME Lookback > 0
    PROVE  Spec => []DailyRanksKeepTheirIsin
<1>1. ChainInv => DailyRanksKeepTheirIsin
  BY CalmFrame DEF DailyRanksKeepTheirIsin
<1> QED  BY <1>1, ChainInvHolds, PTL

\* The daily ranks leave no name out that was ever in the file.
THEOREM NamesRanked ==
    ASSUME Lookback > 0
    PROVE  Spec => []EveryNameIsRanked
<1>1. ChainInv => EveryNameIsRanked
  <2> SUFFICES ASSUME ChainInv, CalmDailyRanks
               PROVE  {r.isin : r \in ranks.frame} = {r.isin : r \in ranks.features.l1.equity}
    BY DEF EveryNameIsRanked
  <2>1. /\ \A r \in ranks.frame : r.isin = r.scored
        /\ {r.scored : r \in ranks.frame} = Names(ranks.features.l1)
    BY CalmFrame
  <2> QED  BY <2>1 DEF Names
<1> QED  BY <1>1, ChainInvHolds, PTL

-------------------------------------------------------------------------------
(***************************************************************************)
(* Returns.  If a name had missed an open session since the base of its    *)
(* return, the last one it missed would have no more than Period open      *)
(* sessions after it, all of which it was seen on; so it would be one of   *)
(* the last Lookback, and the gap gate would have refused the file.        *)
(***************************************************************************)

LEMMA UpstreamType ==
    ASSUME NEW p, Passed(p), NEW i
    PROVE  /\ UpstreamRows(p, i) \subseteq {d \in OpenSessions(p.calendar) : d <= p.asOf}
           /\ \A d \in UpstreamRows(p, i) : \E q \in p.equity : q.isin = i /\ q.session = d
           /\ \A q \in p.equity :
                q.isin = i /\ q.session \in OpenSessions(p.calendar) /\ q.session <= p.asOf
                    => q.session \in UpstreamRows(p, i)
BY DEF UpstreamRows, PitRows, FeatureSessions

LEMMA NothingMissed ==
    ASSUME Period < Lookback, NEW p, Passed(p), NEW i, NEW base \in UpstreamRows(p, i),
           Cardinality({v \in UpstreamRows(p, i) : base < v /\ v <= p.asOf}) = Period
    PROVE  {d \in OpenSessions(p.calendar) : base < d /\ d <= p.asOf}
             = {v \in UpstreamRows(p, i) : base < v /\ v <= p.asOf}
<1> DEFINE open == {d \in OpenSessions(p.calendar) : d <= p.asOf}
           since == {v \in UpstreamRows(p, i) : base < v /\ v <= p.asOf}
           missed == {d \in open : base < d /\ d \notin UpstreamRows(p, i)}
<1>1. /\ open \subseteq Session /\ open \subseteq Nat /\ IsFiniteSet(open)
      /\ UpstreamRows(p, i) \subseteq open /\ base \in Nat /\ p.asOf \in Nat
  <2>1. open \subseteq Session
    BY OpenSessionsType
  <2>2. UpstreamRows(p, i) \subseteq open
    BY UpstreamType
  <2>3. p.asOf \in Nat
    BY DataQualityAssumption DEF Passed
  <2> HIDE DEF open
  <2> QED  BY <2>1, <2>2, <2>3, DataQualityAssumption, FS_Subset
<1>2. missed = {}
  <2>1. SUFFICES ASSUME missed # {} PROVE FALSE
    OBVIOUS
  <2>2. PICK m \in missed : \A n \in missed : n <= m
    <3>1. missed \subseteq Nat /\ IsFiniteSet(missed)
      <4>1. missed \subseteq open
        OBVIOUS
      <4> HIDE DEF missed, open
      <4> QED  BY <1>1, <4>1, FS_Subset
    <3> HIDE DEF missed
    <3> QED  BY <2>1, <3>1, LargestOf
  <2>3. m \in open /\ m \in Session /\ m \in Nat /\ base < m /\ m \notin UpstreamRows(p, i)
    BY <1>1
  <2>4. {e \in open : e > m} \subseteq since
    <3> SUFFICES ASSUME NEW e \in open, e > m PROVE e \in since
      OBVIOUS
    <3>1. e \in Nat /\ base < e /\ e <= p.asOf
      BY <1>1, <2>3
    <3>2. e \notin missed
      BY <2>2, <2>3, <3>1
    <3> QED  BY <3>1, <3>2
  <2>5. IsFiniteSet(since)
    <3>1. since \subseteq open
      BY <1>1
    <3> HIDE DEF since, open
    <3> QED  BY <1>1, <3>1, FS_Subset
  <2>6. Cardinality({e \in open : e > m}) < Lookback
    <3> DEFINE after == {e \in open : e > m}
    <3>1. Cardinality(since) = Period
      OBVIOUS
    <3>2. after \subseteq since
      BY <2>4
    <3> HIDE DEF after, since
    <3>3. Cardinality(after) <= Cardinality(since) /\ Cardinality(after) \in Nat
      BY <2>5, <3>2, FS_Subset, FS_CardinalityType
    <3>4. Cardinality(after) < Lookback
      BY <3>1, <3>3, DataQualityAssumption, FeatureFrameAssumption
    <3> QED  BY <3>4 DEF after
  <2>7. m \in LastOf(open, Lookback)
    BY <2>3, <2>6 DEF LastOf
  <2>8. PICK r \in p.equity : r.isin = i /\ r.session = base
    BY UpstreamType
  <2>9. r.session <= m
    BY <1>1, <2>3, <2>8
  <2>10. PICK q \in p.equity : q.isin = i /\ q.session = m
    BY <2>3, <2>7, <2>8, <2>9, RecentAreObserved
  <2>11. m \in UpstreamRows(p, i)
    BY <2>3, <2>10, UpstreamType
  <2> QED  BY <2>3, <2>11
<1>3. since \subseteq {d \in OpenSessions(p.calendar) : base < d /\ d <= p.asOf}
  BY <1>1
<1>4. {d \in OpenSessions(p.calendar) : base < d /\ d <= p.asOf} \subseteq since
  BY <1>2
<1> QED  BY <1>3, <1>4

\* A return over fewer sessions than the gate looks back on spans exactly as many
\* open sessions as its name says, though rows are counted.
THEOREM ReturnsSpan == Spec => []ReturnsSpanTheirSessions
<1>1. ChainInv => ReturnsSpanTheirSessions
  <2> SUFFICES ASSUME ChainInv, features # None, Period < Lookback,
                      NEW r \in AsOfRows, r.base # Null
               PROVE  Cardinality({d \in OpenSessions(features.l1.calendar) :
                                      r.base < d /\ d <= r.session}) = Period
    BY DEF ReturnsSpanTheirSessions
  <2>1. Passed(features.l1) /\ features.rows = MergedFrame(features.l1)
    BY DEF ChainInv, StoresInv, Computed
  <2>2. PICK p : p = features.l1
    OBVIOUS
  <2>3. PICK x \in PitRows(p) : r = FeatureRow(p, x)
    BY <2>1, <2>2 DEF AsOfRows, MergedFrame
  <2>4. PICK i : i = x.isin
    OBVIOUS
  <2>5. r.session = p.asOf /\ x.session = p.asOf
    BY <2>2, <2>3 DEF AsOfRows, FeatureRow
  <2> DEFINE Spans(u) ==
               Cardinality({v \in UpstreamRows(p, i) : u < v /\ v <= p.asOf}) = Period
  <2>6. r.base = RowsBack(UpstreamRows(p, i), p.asOf, Period)
    BY <2>3, <2>4, <2>5 DEF FeatureRow
  <2>7. r.base \in UpstreamRows(p, i) /\ Spans(r.base)
    <3>1. \E u \in UpstreamRows(p, i) : Spans(u)
      BY <2>6 DEF RowsBack
    <3>2. r.base = CHOOSE u \in UpstreamRows(p, i) : Spans(u)
      BY <2>6, <3>1 DEF RowsBack
    <3> HIDE DEF Spans
    <3> QED  BY <3>1, <3>2
  <2>8. PICK b \in UpstreamRows(p, i) : b = r.base /\ Spans(b)
    BY <2>7
  <2>9. {d \in OpenSessions(p.calendar) : b < d /\ d <= p.asOf}
           = {v \in UpstreamRows(p, i) : b < v /\ v <= p.asOf}
    BY <2>1, <2>2, <2>8, NothingMissed
  <2> QED  BY <2>2, <2>5, <2>8, <2>9
<1> QED  BY <1>1, ChainInvHolds, PTL

-------------------------------------------------------------------------------
(***************************************************************************)
(* Scores.  Of two rows with the same risk the same factor is taken off    *)
(* both scores, and a probability times its confidence grows with the      *)
(* probability, although the confidence may fall.                          *)
(***************************************************************************)

LEMMA RiskParts ==
    ASSUME NEW model \in Model, NEW x, x.isin \in Isin, NEW n
    PROVE  /\ VolPart({x}, n, model.level, x) = IF n \in x.vol THEN 12 ELSE 6
           /\ LiqPart({x}, n, model.level, x) = IF n \in x.liq THEN 0 ELSE 6
<1>1. model.level[x.isin].vol \in Int /\ model.level[x.isin].liq \in Int
  BY DEF Model
<1>2. ASSUME NEW column, DOMAIN column = {x}, column[x] \in Int
      PROVE  PctRank(column, x) = 12
  <2>1. {s \in {x} : column[s] < column[x]} = {} /\ {s \in {x} : column[s] = column[x]} = {x}
    BY <1>2
  <2>2. Cardinality({}) = 0 /\ Cardinality({x}) = 1
    BY FS_EmptySet, FS_Singleton
  <2>3. ((2 * 0 + 1 + 1) * 12) \div (2 * 1) = 12
    OBVIOUS
  <2> QED  BY <1>2, <2>1, <2>2, <2>3 DEF PctRank, Whole
<1>3. ASSUME NEW column, DOMAIN column = {}
      PROVE  PctRank(column, x) = 6
  <2>1. 12 \div 2 = 6
    OBVIOUS
  <2> QED  BY <1>3, <2>1 DEF PctRank, Whole
<1>4. VolPart({x}, n, model.level, x) = IF n \in x.vol THEN 12 ELSE 6
  <2> DEFINE column == [s \in {f \in {x} : n \in f.vol} |-> model.level[s.isin].vol]
  <2>1. VolPart({x}, n, model.level, x) = PctRank(column, x)
    BY DEF VolPart
  <2>2. CASE n \in x.vol
    <3>1. DOMAIN column = {x} /\ column[x] \in Int
      BY <1>1, <2>2
    <3> HIDE DEF column
    <3> QED  BY <1>2, <2>1, <2>2, <3>1
  <2>3. CASE n \notin x.vol
    <3>1. DOMAIN column = {}
      BY <2>3
    <3> HIDE DEF column
    <3> QED  BY <1>3, <2>1, <2>3, <3>1
  <2> QED  BY <2>2, <2>3
<1>5. LiqPart({x}, n, model.level, x) = IF n \in x.liq THEN 0 ELSE 6
  <2> DEFINE column == [s \in {f \in {x} : n \in f.liq} |-> model.level[s.isin].liq]
  <2>1. LiqPart({x}, n, model.level, x) = 12 - PctRank(column, x)
    BY DEF LiqPart, Whole
  <2>2. CASE n \in x.liq
    <3>1. DOMAIN column = {x} /\ column[x] \in Int
      BY <1>1, <2>2
    <3> HIDE DEF column
    <3> QED  BY <1>2, <2>1, <2>2, <3>1
  <2>3. CASE n \notin x.liq
    <3>1. DOMAIN column = {}
      BY <2>3
    <3> HIDE DEF column
    <3> QED  BY <1>3, <2>1, <2>3, <3>1
  <2> QED  BY <2>2, <2>3
<1> QED  BY <1>4, <1>5

\* A risk is a number of parts.
LEMMA RiskIsNat ==
    ASSUME NEW model \in Model, NEW x, x.isin \in Isin
    PROVE  HeuristicRisk({x}, model.level, x) \in Nat
<1> DEFINE Parts(n) == (IF n \in x.vol THEN 12 ELSE 6) + (IF n \in x.liq THEN 0 ELSE 6)
           counted == UNION {{n} \X (1 .. Parts(n)) : n \in Windows}
<1>1. HeuristicRisk({x}, model.level, x) = Cardinality(counted)
  <2>1. \A n : VolPart({x}, n, model.level, x) + LiqPart({x}, n, model.level, x) = Parts(n)
    BY RiskParts
  <2> HIDE DEF Parts
  <2> QED  BY <2>1 DEF HeuristicRisk
<1>2. counted \subseteq Windows \X (1 .. 18)
  <2> SUFFICES ASSUME NEW n \in Windows, NEW k \in 1 .. Parts(n)
               PROVE  <<n, k>> \in Windows \X (1 .. 18)
    OBVIOUS
  <2>1. Parts(n) = 6 \/ Parts(n) = 12 \/ Parts(n) = 18
    OBVIOUS
  <2> HIDE DEF Parts
  <2>2. k \in 1 .. 18
    BY <2>1
  <2> QED  BY <2>2
<1>3. IsFiniteSet(1 .. 18)
  <2>1. 1 \in Int /\ 18 \in Int
    OBVIOUS
  <2> QED  BY <2>1, FS_Interval
<1>4. IsFiniteSet(Windows \X (1 .. 18))
  BY <1>3, FS_Product, FeatureFrameAssumption
<1> HIDE DEF counted
<1> QED  BY <1>1, <1>2, <1>4, FS_Subset, FS_CardinalityType

\* A probability times its confidence, against the same other probability.
LEMMA ProductGrows ==
    ASSUME NEW a \in Nat, NEW b \in Nat, NEW c \in Nat, b < c
    PROVE  /\ HeuristicConfidence(b, a) \in Nat /\ HeuristicConfidence(c, a) \in Nat
           /\ HeuristicConfidence(a, b) = HeuristicConfidence(b, a)
           /\ b * HeuristicConfidence(b, a) < c * HeuristicConfidence(c, a)
<1>1. \A x \in Nat : HeuristicConfidence(x, a) = IF x < a THEN (a - x) + a ELSE (x - a) + x
  BY DEF HeuristicConfidence, AbsDiff
<1>2. \A x \in Nat : HeuristicConfidence(x, a) \in Nat
  BY <1>1
<1>3. HeuristicConfidence(a, b) = HeuristicConfidence(b, a)
  BY DEF HeuristicConfidence, AbsDiff
<1>4. ASSUME c < a
      PROVE  b * HeuristicConfidence(b, a) < c * HeuristicConfidence(c, a)
  <2>1. PICK d \in Nat \ {0} : c = b + d
    BY c - b \in Nat \ {0}
  <2>2. PICK e \in Nat \ {0} : a = c + e
    BY <1>4, a - c \in Nat \ {0}
  <2>3. HeuristicConfidence(b, a) = b + 2 * d + 2 * e /\ HeuristicConfidence(c, a) = b + d + 2 * e
    BY <1>1, <1>4, <2>1, <2>2
  <2>4. (b + d) * (b + d + 2 * e) = b * (b + 2 * d + 2 * e) + d * d + 2 * (d * e)
    BY <2>1, <2>2
  <2>5. PICK u \in Nat \ {0}, v \in Nat, w \in Nat :
          u = d * d /\ v = d * e /\ w = b * (b + 2 * d + 2 * e)
    BY <2>1, <2>2
  <2>6. b * HeuristicConfidence(b, a) = w /\ c * HeuristicConfidence(c, a) = w + u + 2 * v
    BY <2>1, <2>3, <2>4, <2>5
  <2>7. w < w + u + 2 * v
    BY <2>5
  <2> QED  BY <2>6, <2>7
<1>5. ASSUME b < a /\ a <= c
      PROVE  b * HeuristicConfidence(b, a) < c * HeuristicConfidence(c, a)
  <2>1. PICK d \in Nat \ {0} : a = b + d
    BY <1>5, a - b \in Nat \ {0}
  <2>2. PICK e \in Nat : c = a + e
    BY <1>5, c - a \in Nat
  <2>3. HeuristicConfidence(b, a) = b + 2 * d /\ HeuristicConfidence(c, a) = b + d + 2 * e
    BY <1>1, <1>5, <2>1, <2>2
  <2>4. (b + d + e) * (b + d + 2 * e)
           = b * (b + 2 * d) + d * d + 3 * (b * e) + 3 * (d * e) + 2 * (e * e)
    BY <2>1, <2>2
  <2>5. PICK u \in Nat \ {0}, v \in Nat, y \in Nat, z \in Nat, w \in Nat :
          u = d * d /\ v = b * e /\ y = d * e /\ z = e * e /\ w = b * (b + 2 * d)
    BY <2>1, <2>2
  <2>6. /\ b * HeuristicConfidence(b, a) = w
        /\ c * HeuristicConfidence(c, a) = w + u + 3 * v + 3 * y + 2 * z
    BY <2>1, <2>2, <2>3, <2>4, <2>5
  <2>7. w < w + u + 3 * v + 3 * y + 2 * z
    BY <2>5
  <2> QED  BY <2>6, <2>7
<1>6. ASSUME a <= b
      PROVE  b * HeuristicConfidence(b, a) < c * HeuristicConfidence(c, a)
  <2>1. PICK d \in Nat \ {0} : c = b + d
    BY c - b \in Nat \ {0}
  <2>2. PICK e \in Nat : b = a + e
    BY <1>6, b - a \in Nat
  <2>3. HeuristicConfidence(b, a) = b + e /\ HeuristicConfidence(c, a) = b + e + 2 * d
    BY <1>1, <1>6, <2>1, <2>2
  <2>4. (b + d) * (b + e + 2 * d) = b * (b + e) + 3 * (b * d) + d * e + 2 * (d * d)
    BY <2>1, <2>2
  <2>5. PICK u \in Nat \ {0}, v \in Nat, y \in Nat, w \in Nat :
          u = d * d /\ v = b * d /\ y = d * e /\ w = b * (b + e)
    BY <2>1, <2>2
  <2>6. /\ b * HeuristicConfidence(b, a) = w
        /\ c * HeuristicConfidence(c, a) = w + 3 * v + y + 2 * u
    BY <2>1, <2>3, <2>4, <2>5
  <2>7. w < w + 3 * v + y + 2 * u
    BY <2>5
  <2> QED  BY <2>6, <2>7
<1>7. c < a \/ (b < a /\ a <= c) \/ a <= b
  OBVIOUS
<1> QED  BY <1>2, <1>3, <1>4, <1>5, <1>6, <1>7

\* The higher score is ranked before the lower.
LEMMA HigherRanksBefore ==
    ASSUME NEW S, IsFiniteSet(S), NEW score, DOMAIN score = S, \A s \in S : score[s] \in Int,
           \A s \in S : s.isin \in Int,
           NEW r \in S, NEW s \in S, score[r] > score[s]
    PROVE  RankBy(score, r) < RankBy(score, s)
<1> DEFINE Before(x) == {t \in S : \/ score[t] > score[x]
                                   \/ score[t] = score[x] /\ t.isin < x.isin}
<1>1. Before(r) \subseteq Before(s) /\ r \in Before(s) /\ r \notin Before(r)
  <2>1. \A t \in S : score[t] > score[r] \/ score[t] = score[r] => score[t] > score[s]
    OBVIOUS
  <2>2. ~(score[r] > score[r]) /\ ~(r.isin < r.isin)
    OBVIOUS
  <2> QED  BY <2>1, <2>2
<1>2. IsFiniteSet(Before(r)) /\ IsFiniteSet(Before(s))
  <2>1. Before(r) \subseteq S /\ Before(s) \subseteq S
    OBVIOUS
  <2> HIDE DEF Before
  <2> QED  BY <2>1, FS_Subset
<1>3. Before(r) # Before(s)
  BY <1>1
<1>4. RankBy(score, r) = 1 + Cardinality(Before(r)) /\ RankBy(score, s) = 1 + Cardinality(Before(s))
  BY DEF RankBy
<1> HIDE DEF Before
<1>5. /\ Cardinality(Before(r)) <= Cardinality(Before(s))
      /\ Cardinality(Before(r)) # Cardinality(Before(s))
  BY <1>1, <1>2, <1>3, FS_Subset
<1>6. PICK m \in Nat, n \in Nat : m = Cardinality(Before(r)) /\ n = Cardinality(Before(s))
  BY <1>2, FS_CardinalityType
<1>7. 1 + m < 1 + n
  BY <1>5, <1>6
<1> QED  BY <1>4, <1>6, <1>7

\* A common positive factor keeps the order.
LEMMA ScaledOrder ==
    ASSUME NEW u \in Nat, NEW v \in Nat, u < v, NEW k \in Nat \ {0}
    PROVE  u * k < v * k
<1>1. PICK d \in Nat \ {0} : v = u + d
  BY v - u \in Nat \ {0}
<1>2. (u + d) * k = u * k + d * k
  BY <1>1
<1>3. PICK e \in Nat \ {0}, w \in Nat : e = d * k /\ w = u * k
  BY <1>1
<1>4. w < w + e
  BY <1>3
<1> QED  BY <1>1, <1>2, <1>3, <1>4

\* What is left of the scale after the risk of a row has been taken off.
Left(s) == WeightUnit * FullRisk - RiskWeight * s.risk

\* What a probability is multiplied by before that.
Sure(s) == HeuristicConfidence(s.bullish, s.bearish)

LEMMA ScoreRowIs ==
    ASSUME NEW panel, NEW model \in Model, NEW x, x.isin \in Isin,
           NEW s, s = ScoreRow(panel, x, model)
    PROVE  /\ s.isin = x.isin /\ s.bullish \in Nat /\ s.bearish \in Nat
           /\ WeightUnit * FullRisk \in Nat /\ RiskWeight * s.risk \in Nat
           /\ s.long = s.bullish * Sure(s) * Left(s) /\ s.short = s.bearish * Sure(s) * Left(s)
           /\ s.long \in Int /\ s.short \in Int
<1>1. /\ s.isin = x.isin /\ s.risk = HeuristicRisk({x}, model.level, x)
      /\ s.bullish = model.heads[x.isin].bullish /\ s.bearish = model.heads[x.isin].bearish
      /\ s.long = s.bullish * Sure(s) * Left(s) /\ s.short = s.bearish * Sure(s) * Left(s)
  BY DEF ScoreRow, RiskFrame, Score, Sure, Left
<1>2. model.heads[x.isin].bullish \in 0..Unit /\ model.heads[x.isin].bearish \in 0..Unit
  BY DEF Model
<1>3. s.bullish \in Nat /\ s.bearish \in Nat
  BY <1>1, <1>2
<1>4. WeightUnit * FullRisk \in Nat
  <2>1. PICK c \in Nat, unit \in Nat : c = Cardinality(Windows) /\ unit = WeightUnit
    BY FS_CardinalityType, FeatureFrameAssumption, RankingAssumption
  <2>2. FullRisk = 2 * c * 12
    BY <2>1 DEF FullRisk, Whole
  <2>3. PICK full \in Nat : full = FullRisk
    BY <2>1, <2>2
  <2> QED  BY <2>1, <2>3
<1>5. RiskWeight * s.risk \in Nat
  <2>1. PICK weight \in Nat, risk \in Nat : weight = RiskWeight /\ risk = s.risk
    BY <1>1, RiskIsNat, RankingAssumption
  <2> QED  BY <2>1
<1>6. PICK left \in Int : left = Left(s)
  BY <1>4, <1>5 DEF Left
<1>7. PICK sure \in Nat : sure = Sure(s)
  BY <1>3 DEF Sure, HeuristicConfidence, AbsDiff
<1>8. s.bullish * sure * left \in Int /\ s.bearish * sure * left \in Int
  BY <1>3
<1> QED  BY <1>1, <1>3, <1>4, <1>5, <1>6, <1>7, <1>8

\* Two rows with the same risk: the probability decides.
LEMMA ProbabilityDecides ==
    ASSUME NEW panel, NEW model \in Model, NEW x, x.isin \in Isin, NEW y, y.isin \in Isin,
           NEW s, s = ScoreRow(panel, x, model), NEW t, t = ScoreRow(panel, y, model),
           s.risk = t.risk, ScoreLeft(s)
    PROVE  /\ s.bearish = t.bearish /\ s.bullish > t.bullish => s.long > t.long
           /\ s.bullish = t.bullish /\ s.bearish > t.bearish => s.short > t.short
<1>1. Left(s) = Left(t)
  BY DEF Left
<1>2. PICK k \in Nat \ {0} : k = Left(s)
  <2>1. PICK m \in Nat, n \in Nat : m = WeightUnit * FullRisk /\ n = RiskWeight * s.risk
    BY ScoreRowIs
  <2>2. n < m /\ Left(s) = m - n
    BY <2>1 DEF ScoreLeft, Left
  <2>3. m - n \in Nat \ {0}
    BY <2>2
  <2> QED  BY <2>2, <2>3
<1>3. /\ s.long = s.bullish * HeuristicConfidence(s.bullish, s.bearish) * Left(s)
      /\ s.short = s.bearish * HeuristicConfidence(s.bullish, s.bearish) * Left(s)
      /\ s.bullish \in Nat /\ s.bearish \in Nat
  BY ScoreRowIs DEF Sure
<1>4. /\ t.long = t.bullish * HeuristicConfidence(t.bullish, t.bearish) * Left(t)
      /\ t.short = t.bearish * HeuristicConfidence(t.bullish, t.bearish) * Left(t)
      /\ t.bullish \in Nat /\ t.bearish \in Nat
  BY ScoreRowIs DEF Sure
<1>5. PICK a \in Nat, b \in Nat, c \in Nat, d \in Nat :
        a = s.bullish /\ b = s.bearish /\ c = t.bullish /\ d = t.bearish
  BY <1>3, <1>4
<1>6. ASSUME b = d, c < a
      PROVE  t.long < s.long
  <2>1. /\ HeuristicConfidence(c, b) \in Nat /\ HeuristicConfidence(a, b) \in Nat
        /\ c * HeuristicConfidence(c, b) < a * HeuristicConfidence(a, b)
    BY <1>6, ProductGrows
  <2>2. PICK u \in Nat, v \in Nat : /\ u = c * HeuristicConfidence(c, b)
                                    /\ v = a * HeuristicConfidence(a, b)
    BY <2>1
  <2>3. u * k < v * k
    BY <2>1, <2>2, ScaledOrder
  <2>4. t.long = u * k /\ s.long = v * k
    BY <1>1, <1>2, <1>3, <1>4, <1>5, <1>6, <2>2
  <2> QED  BY <2>3, <2>4
<1>7. ASSUME a = c, d < b
      PROVE  t.short < s.short
  <2>1. /\ HeuristicConfidence(d, a) \in Nat /\ HeuristicConfidence(b, a) \in Nat
        /\ d * HeuristicConfidence(d, a) < b * HeuristicConfidence(b, a)
    BY <1>7, ProductGrows
  <2>5. /\ HeuristicConfidence(a, d) = HeuristicConfidence(d, a)
        /\ HeuristicConfidence(a, b) = HeuristicConfidence(b, a)
    BY DEF HeuristicConfidence, AbsDiff
  <2>2. PICK u \in Nat, v \in Nat : /\ u = d * HeuristicConfidence(a, d)
                                    /\ v = b * HeuristicConfidence(a, b)
    BY <2>1, <2>5
  <2>3. u * k < v * k
    BY <2>1, <2>2, <2>5, ScaledOrder
  <2>4. t.short = u * k /\ s.short = v * k
    BY <1>1, <1>2, <1>3, <1>4, <1>5, <1>7, <2>2
  <2> QED  BY <2>3, <2>4
<1>8. /\ b = d /\ a > c => s.long > t.long
      /\ a = c /\ b > d => s.short > t.short
  <2>1. ASSUME b = d, a > c PROVE s.long > t.long
    BY <1>6, <2>1
  <2>2. ASSUME a = c, b > d PROVE s.short > t.short
    BY <1>7, <2>2
  <2> QED  BY <2>1, <2>2
<1>9. /\ s.bearish = t.bearish /\ s.bullish > t.bullish => s.long > t.long
      /\ s.bullish = t.bullish /\ s.bearish > t.bearish => s.short > t.short
  BY <1>5, <1>8
<1> QED  BY <1>9

Panel(rows, session) == {x \in rows : x.session = session}
Scores(panel, model) == {ScoreRow(panel, x, model) : x \in panel}
Longs(scores) == [t \in scores |-> t.long]
Shorts(scores) == [t \in scores |-> t.short]

\* What a row of the frame takes from the score of a row of the panel.
TakenFrom(r, s, scores) ==
    /\ r.scored = s.isin /\ r.risk = s.risk
    /\ r.bullish = s.bullish /\ r.bearish = s.bearish
    /\ r.rankLong = RankBy(Longs(scores), s)
    /\ r.rankShort = RankBy(Shorts(scores), s)

LEMMA FrameRowIs ==
    ASSUME NEW rows, NEW session, NEW model, NEW symbols, NEW others,
           NEW r \in RankFrame(RankRows(rows, session, model, symbols), others)
    PROVE  \E s \in Scores(Panel(rows, session), model) :
              TakenFrom(r, s, Scores(Panel(rows, session), model))
<1> DEFINE scores == Scores(Panel(rows, session), model)
           Row(s) == [symbol |-> IF s.isin \in DOMAIN symbols THEN symbols[s.isin] ELSE s.isin,
                      scored |-> s.isin,
                      bullish |-> s.bullish, bearish |-> s.bearish, risk |-> s.risk,
                      rankLong |-> RankBy(Longs(scores), s),
                      rankShort |-> RankBy(Shorts(scores), s)]
<1>1. RankRows(rows, session, model, symbols) = {Row(s) : s \in scores}
  BY DEF RankRows, Panel, Scores, Longs, Shorts
<1>2. \A s : TakenFrom(Row(s), s, scores)
  BY DEF TakenFrom
<1>3. PICK t \in RankRows(rows, session, model, symbols) :
        /\ r.scored = t.scored /\ r.risk = t.risk
        /\ r.bullish = t.bullish /\ r.bearish = t.bearish
        /\ r.rankLong = t.rankLong /\ r.rankShort = t.rankShort
  BY DEF RankFrame
<1> HIDE DEF Row, scores
<1>4. PICK s \in scores : t = Row(s)
  BY <1>1, <1>3
<1>5. TakenFrom(r, s, scores)
  <2>1. TakenFrom(t, s, scores)
    BY <1>2, <1>4
  <2> QED  BY <1>3, <2>1 DEF TakenFrom
<1> QED  BY <1>5 DEF scores

\* The rows of the features are finitely many.
LEMMA FeatureRowsAre ==
    ASSUME NEW p, Passed(p)
    PROVE  IsFiniteSet(MergedFrame(p)) /\ \A x \in MergedFrame(p) : x.isin \in Isin
<1>1. IsFiniteSet(PitRows(p))
  <2>1. PitRows(p) \subseteq p.equity /\ IsFiniteSet(p.equity)
    BY DEF PitRows, Passed
  <2> QED  BY <2>1, FS_Subset
<1>2. IsFiniteSet(MergedFrame(p))
  <2>1. [r \in PitRows(p) |-> FeatureRow(p, r)] \in Surjection(PitRows(p), MergedFrame(p))
    BY DEF Surjection, MergedFrame
  <2> QED  BY <1>1, <2>1, FS_Surjection
<1>3. \A r \in PitRows(p) : r.isin \in Isin
  BY EquityType DEF PitRows
<1>4. ASSUME NEW x \in MergedFrame(p) PROVE x.isin \in Isin
  <2>1. PICK r \in PitRows(p) : x = FeatureRow(p, r)
    BY DEF MergedFrame
  <2>2. x.isin = r.isin
    BY <2>1 DEF FeatureRow
  <2> QED  BY <1>3, <2>2
<1> QED  BY <1>2, <1>4

\* Of two names with the same risk and the same bearish probability, the more bullish
\* is the better long, and of shorts likewise: for every model, unit of probability,
\* set of windows and weight of risk at which the scores of the two keep their sign.
THEOREM BullishRanked == Spec => []MoreBullishRanksBetter
<1>1. ChainInv => MoreBullishRanksBetter
  <2> SUFFICES ASSUME ChainInv, ranks # None,
                      NEW r \in ranks.frame, NEW q \in ranks.frame,
                      r.risk = q.risk, ScoreLeft(r)
               PROVE  /\ r.bearish = q.bearish /\ r.bullish > q.bullish
                           => r.rankLong < q.rankLong
                      /\ r.bullish = q.bullish /\ r.bearish > q.bearish
                           => r.rankShort < q.rankShort
    BY DEF MoreBullishRanksBetter
  <2>1. PICK p \in {ranks.features.l1}, frame \in {ranks.features.rows} :
          Passed(p) /\ frame = MergedFrame(p)
    BY DEF ChainInv, RanksInv, Computed
  <2>2. IsFiniteSet(frame) /\ \A x \in frame : x.isin \in Isin
    BY <2>1, FeatureRowsAre
  <2>3. \E symbols, others : \E model \in Model :
          ranks.frame = RankFrame(RankRows(frame, ranks.session, model, symbols), others)
    <3>1. PICK l, other, rows :
            /\ Scored(rows, ranks.features, ranks.session, l)
            /\ ranks.frame = RankFrame(rows, SymbolMap(other.equity))
      BY DEF ChainInv, RanksInv
    <3>2. PICK model \in Model :
            rows = RankRows(ranks.features.rows, ranks.session, model, SymbolMap(l.equity))
      BY <3>1 DEF Scored
    <3>3. frame = ranks.features.rows
      BY <2>1
    <3> QED  BY <3>1, <3>2, <3>3
  <2>4. PICK symbols, others :
          \E model \in Model :
             ranks.frame = RankFrame(RankRows(frame, ranks.session, model, symbols), others)
    BY <2>3
  <2>5. PICK model \in Model :
          ranks.frame = RankFrame(RankRows(frame, ranks.session, model, symbols), others)
    BY <2>4
  <2>6. PICK panel : panel = Panel(frame, ranks.session)
    OBVIOUS
  <2>7. PICK scores : scores = Scores(panel, model)
    OBVIOUS
  <2>8. PICK s \in scores : TakenFrom(r, s, scores)
    BY <2>5, <2>6, <2>7, FrameRowIs
  <2>9. PICK t \in scores : TakenFrom(q, t, scores)
    BY <2>5, <2>6, <2>7, FrameRowIs
  <2>10. PICK x \in panel : s = ScoreRow(panel, x, model)
    BY <2>7 DEF Scores
  <2>11. PICK y \in panel : t = ScoreRow(panel, y, model)
    BY <2>7 DEF Scores
  <2>12. panel \subseteq frame /\ \A z \in panel : z.isin \in Isin
    BY <2>2, <2>6 DEF Panel
  <2>13. s.risk = t.risk /\ ScoreLeft(s)
    BY <2>8, <2>9 DEF TakenFrom, ScoreLeft
  <2>14. IsFiniteSet(scores)
    <3>1. [z \in panel |-> ScoreRow(panel, z, model)] \in Surjection(panel, scores)
      BY <2>7 DEF Surjection, Scores
    <3>2. IsFiniteSet(panel)
      BY <2>2, <2>12, FS_Subset
    <3> QED  BY <3>1, <3>2, FS_Surjection
  <2>15. \A u \in scores : u.isin \in Int /\ u.long \in Int /\ u.short \in Int
    <3> TAKE u \in scores
    <3>1. PICK z \in panel : u = ScoreRow(panel, z, model)
      BY <2>7 DEF Scores
    <3>2. u.isin \in Isin /\ u.long \in Int /\ u.short \in Int
      BY <2>12, <3>1, ScoreRowIs
    <3>3. u.isin \in Nat
      BY <3>2, DataQualityAssumption
    <3>4. u.isin \in Int
      BY <3>3
    <3> QED  BY <3>2, <3>4
  <2>16. /\ s.bearish = t.bearish /\ s.bullish > t.bullish => s.long > t.long
         /\ s.bullish = t.bullish /\ s.bearish > t.bearish => s.short > t.short
    BY <2>10, <2>11, <2>12, <2>13, ProbabilityDecides
  <2>17. s.long > t.long => RankBy(Longs(scores), s) < RankBy(Longs(scores), t)
    <3>1. /\ DOMAIN Longs(scores) = scores
          /\ \A u \in scores : Longs(scores)[u] = u.long
      BY DEF Longs
    <3> QED  BY <2>14, <2>15, <3>1, HigherRanksBefore
  <2>18. s.short > t.short => RankBy(Shorts(scores), s) < RankBy(Shorts(scores), t)
    <3>1. /\ DOMAIN Shorts(scores) = scores
          /\ \A u \in scores : Shorts(scores)[u] = u.short
      BY DEF Shorts
    <3> QED  BY <2>14, <2>15, <3>1, HigherRanksBefore
  <2> QED  BY <2>8, <2>9, <2>16, <2>17, <2>18 DEF TakenFrom
<1> QED  BY <1>1, ChainInvHolds, PTL
==============================================================================
