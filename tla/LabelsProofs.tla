----------------------------- MODULE LabelsProofs -----------------------------
(***************************************************************************)
(* Proofs about Labels and TrainMatrix, for every set of names, horizon,   *)
(* history of values, gaps and corporate actions, and configuration of the *)
(* cuts.  The argument: a close that a run adjusts is what a holding was   *)
(* worth times a scale of its name, the same on all sessions (CloseIsScaled*)
(* over powers of the factor), so the returns of a run compare as the      *)
(* holdings do, and those are fixed once the window is over.  LabelsInv    *)
(* then says that a run in progress has labelled whole sessions by their   *)
(* holdings and that every published frame is that of its date, or is      *)
(* refused when that frame is not valid; FeaturesInv says the same of the  *)
(* returns of a feature run.                                               *)
(***************************************************************************)
EXTENDS TrainMatrix, FiniteSetTheorems, TLAPS

(***************************************************************************)
(* Powers of the factor.                                                   *)
(***************************************************************************)

\* Induction over data: a set of naturals has a smallest element, so a claim that is
\* wrong of some natural is wrong of a first one.
LEMMA SmallestNat ==
    ASSUME NEW T, T \subseteq Nat, T # {}
    PROVE  \E n \in T : \A m \in T : n <= m
<1>1. IsWellFoundedOn({p \in Nat \X Nat : p[1] < p[2]}, Nat)
  BY NatLessThanWellFounded DEF OpToRel
<1>2. \E n \in T : \A m \in T : ~ (<<m, n>> \in {p \in Nat \X Nat : p[1] < p[2]})
  BY <1>1, WFMin
<1>3. PICK n \in T : \A m \in T : ~ (<<m, n>> \in {p \in Nat \X Nat : p[1] < p[2]})
  BY <1>2
<1>4. ASSUME NEW m \in T PROVE n <= m
  <2>1. m \in Nat /\ n \in Nat
    OBVIOUS
  <2>2. ~ (<<m, n>> \in {p \in Nat \X Nat : p[1] < p[2]})
    BY <1>3
  <2>3. ~(m < n)
    BY <2>1, <2>2
  <2> QED  BY <2>1, <2>3
<1> QED  BY <1>4

\* The powers up to n.
Powers(n, g) ==
    /\ DOMAIN g = 0..n
    /\ g[0] = 1 /\ \A k \in 1..n : g[k] = Factor * g[k - 1]

LEMMA PowersExist == \A n \in Nat : \E g : Powers(n, g)
<1> DEFINE T == {n \in Nat : ~ \E g : Powers(n, g)}
<1>1. SUFFICES ASSUME T # {} PROVE FALSE
  OBVIOUS
<1>2. PICK n \in T : \A m \in T : n <= m
  BY <1>1, SmallestNat
<1>3. CASE n = 0
  <2>1. Powers(0, [k \in 0..0 |-> 1])
    BY DEF Powers
  <2> QED  BY <1>3, <2>1
<1>4. CASE n # 0
  <2>1. n - 1 \in Nat /\ n - 1 \notin T
    BY <1>2, <1>4
  <2>2. PICK g : Powers(n - 1, g)
    BY <2>1
  <2>3. Powers(n, [k \in 0..n |-> IF k = n THEN Factor * g[n - 1] ELSE g[k]])
    BY <1>4, <2>1, <2>2 DEF Powers
  <2> QED  BY <2>3
<1> QED  BY <1>3, <1>4

LEMMA PowersAgree ==
    ASSUME NEW m \in Nat, NEW n \in Nat, NEW g, NEW h, Powers(m, g), Powers(n, h)
    PROVE  \A k \in Nat : k <= m /\ k <= n => g[k] = h[k]
<1> DEFINE T == {k \in Nat : k <= m /\ k <= n /\ g[k] # h[k]}
<1>1. SUFFICES ASSUME T # {} PROVE FALSE
  OBVIOUS
<1>2. PICK k \in T : \A j \in T : k <= j
  BY <1>1, SmallestNat
<1>3. k # 0
  BY DEF Powers
<1>4. k - 1 \in Nat /\ k - 1 \notin T
  BY <1>2, <1>3
<1>5. g[k - 1] = h[k - 1]
  BY <1>4
<1> QED  BY <1>3, <1>5 DEF Powers

LEMMA PowerUnfolds ==
    FactorPower = [n \in Nat |-> IF n = 0 THEN 1 ELSE Factor * FactorPower[n - 1]]
<1> DEFINE G(n) == CHOOSE g : Powers(n, g)
           f == [n \in Nat |-> G(n)[n]]
<1>1. \A n \in Nat : Powers(n, G(n))
  BY PowersExist
<1>2. \A n \in Nat : f[n] = IF n = 0 THEN 1 ELSE Factor * f[n - 1]
  <2>1. TAKE n \in Nat
  <2>2. CASE n = 0
    BY <1>1, <2>2 DEF Powers
  <2>3. CASE n # 0
    <3>1. n - 1 \in Nat /\ n \in 1..n
      BY <2>3
    <3>2. G(n)[n] = Factor * G(n)[n - 1]
      BY <1>1, <3>1 DEF Powers
    <3>3. G(n)[n - 1] = G(n - 1)[n - 1]
      BY <1>1, <3>1, PowersAgree
    <3> QED  BY <2>3, <3>1, <3>2, <3>3
  <2> QED  BY <2>2, <2>3
<1>3. f = [n \in Nat |-> IF n = 0 THEN 1 ELSE Factor * f[n - 1]]
  <2>1. f = [n \in Nat |-> f[n]]
    OBVIOUS
  <2> HIDE DEF f
  <2> QED  BY <1>2, <2>1
<1>4. \E g : g = [n \in Nat |-> IF n = 0 THEN 1 ELSE Factor * g[n - 1]]
  BY <1>3
<1> QED  BY <1>4 DEF FactorPower

LEMMA PowerValues ==
    /\ \A n \in Nat : FactorPower[n] \in Nat \ {0}
    /\ \A m, n \in Nat : FactorPower[m] * FactorPower[n] = FactorPower[m + n]
<1>1. /\ FactorPower[0] = 1
      /\ \A n \in Nat : FactorPower[n + 1] = Factor * FactorPower[n]
  BY PowerUnfolds
<1>2. \A n \in Nat : FactorPower[n] \in Nat \ {0}
  <2> DEFINE T == {n \in Nat : FactorPower[n] \notin Nat \ {0}}
  <2>1. SUFFICES ASSUME T # {} PROVE FALSE
    OBVIOUS
  <2>2. PICK n \in T : \A m \in T : n <= m
    BY <2>1, SmallestNat
  <2>3. n # 0
    BY <1>1
  <2>4. n - 1 \in Nat /\ n - 1 \notin T
    BY <2>2, <2>3
  <2>5. FactorPower[n] = Factor * FactorPower[n - 1]
    BY <1>1, <2>4
  <2>6. PICK p \in Nat \ {0} : p = FactorPower[n - 1]
    BY <2>4
  <2>7. Factor * p \in Nat \ {0}
    BY LabelsAssumption
  <2> QED  BY <2>5, <2>6, <2>7
<1>3. ASSUME NEW m \in Nat
      PROVE  \A n \in Nat : FactorPower[m] * FactorPower[n] = FactorPower[m + n]
  <2> DEFINE T == {n \in Nat : FactorPower[m] * FactorPower[n] # FactorPower[m + n]}
  <2>1. SUFFICES ASSUME T # {} PROVE FALSE
    OBVIOUS
  <2>2. PICK n \in T : \A k \in T : n <= k
    BY <2>1, SmallestNat
  <2>3. n # 0
    BY <1>1, <1>2
  <2>4. n - 1 \in Nat /\ n - 1 \notin T /\ m + (n - 1) \in Nat
    BY <2>2, <2>3
  <2>5. /\ FactorPower[n] = Factor * FactorPower[n - 1]
        /\ FactorPower[m + n] = Factor * FactorPower[m + (n - 1)]
    <3>1. n = (n - 1) + 1 /\ m + n = (m + (n - 1)) + 1
      BY <2>4
    <3> QED  BY <1>1, <2>4, <3>1
  <2>6. PICK p \in Nat, q \in Nat : p = FactorPower[m] /\ q = FactorPower[n - 1]
    BY <1>2, <2>4
  <2>7. p * (Factor * q) = Factor * (p * q)
    BY LabelsAssumption
  <2> QED  BY <2>4, <2>5, <2>6, <2>7
<1> QED  BY <1>2, <1>3

-------------------------------------------------------------------------------
(***************************************************************************)
(* Comparing returns.  Every action up to the as_of date multiplies every  *)
(* close of its name, the traded one or the adjusted one, so returns of    *)
(* adjusted closes compare as what the holdings are worth.                 *)
(***************************************************************************)

Frames == UNION {[rows -> Label] : rows \in SUBSET (Isin \X Session)}

LabelsTypeOK ==
    /\ config \in Config
    /\ value \in [Isin -> [Session -> Value \cup {None}]]
    /\ exDates \in [Isin -> SUBSET Session]
    /\ asOf \in 0 .. LastSession
    /\ pc \in {"idle", "assign", "validate"}
    /\ forward \in SUBSET (Isin \X Session)
    /\ frame \in Frames
    /\ published \in [Session -> Frames \cup {None, Refused}]

Scale(i) == FactorPower[Cardinality(exDates[i])]

LEMMA ScaleIsPositive ==
    ASSUME LabelsTypeOK, NEW i \in Isin
    PROVE  Scale(i) \in Nat \ {0}
<1>1. IsFiniteSet(Session)
  BY LabelsAssumption, FS_Interval DEF Session
<1>2. exDates[i] \subseteq Session
  BY DEF LabelsTypeOK
<1>3. Cardinality(exDates[i]) \in Nat
  BY <1>1, <1>2, FS_Subset, FS_CardinalityType
<1> QED  BY <1>3, PowerValues DEF Scale

LEMMA CloseIsScaled ==
    ASSUME LabelsTypeOK, NEW i \in Isin, NEW s \in Session, HasRow(i, s)
    PROVE  /\ value[i][s] \in Nat \ {0}
           /\ CloseAdj(i, s) = value[i][s] * Scale(i)
<1>1. value[i][s] \in Nat \ {0}
  <2>1. value[i][s] \in Value \cup {None}
    BY DEF LabelsTypeOK
  <2> QED  BY <2>1, LabelsAssumption DEF HasRow
<1>2. exDates[i] \subseteq Session /\ Session \subseteq Int
  BY LabelsAssumption DEF LabelsTypeOK, Session
<1>3. IsFiniteSet(exDates[i])
  <2>1. IsFiniteSet(Session)
    BY LabelsAssumption, FS_Interval DEF Session
  <2> QED  BY <1>2, <2>1, FS_Subset
<1> DEFINE A == {e \in exDates[i] : e <= s}
           B == {e \in exDates[i] : e > s}
<1>4. A \cap B = {} /\ A \cup B = exDates[i]
  BY <1>2 DEF Session
<1>5. IsFiniteSet(A) /\ IsFiniteSet(B)
  BY <1>3, FS_Subset
<1> HIDE DEF A, B
<1>6. Cardinality(A) \in Nat /\ Cardinality(B) \in Nat
  BY <1>5, FS_CardinalityType
<1>7. Cardinality(exDates[i]) = Cardinality(A) + Cardinality(B)
  <2>1. Cardinality(A \cap B) = 0
    BY <1>4, FS_EmptySet
  <2>2. Cardinality(A \cup B) = Cardinality(A) + Cardinality(B) - Cardinality(A \cap B)
    BY <1>5, FS_Union
  <2>3. Cardinality(exDates[i]) = Cardinality(A \cup B)
    BY <1>4
  <2> QED  BY <1>6, <2>1, <2>2, <2>3
<1>8. PICK a \in Nat, b \in Nat : a = FactorPower[Cardinality(A)] /\ b = FactorPower[Cardinality(B)]
  BY <1>6, PowerValues
<1>9. Scale(i) = a * b
  BY <1>6, <1>7, <1>8, PowerValues DEF Scale
<1>10. CloseAdj(i, s) = (value[i][s] * a) * b
  BY <1>8 DEF CloseAdj, CloseRaw, CumulativeFactor, A, B
<1>11. PICK v \in Nat : v = value[i][s]
  BY <1>1
<1>12. (v * a) * b = v * (a * b)
  OBVIOUS
<1> QED  BY <1>1, <1>9, <1>10, <1>11, <1>12

LEMMA FractionsCompare ==
    ASSUME NEW a \in Nat, NEW b \in Nat, NEW c \in Nat, NEW d \in Nat,
           NEW m \in Nat \ {0}, NEW n \in Nat \ {0}
    PROVE  /\ (a * m) * (d * n) > (c * n) * (b * m) <=> a * d > c * b
           /\ (a * m) * (d * n) = (c * n) * (b * m) <=> a * d = c * b
<1>1. PICK k \in Nat \ {0} : k = m * n
  BY m * n \in Nat \ {0}
<1>2. PICK x \in Nat, y \in Nat : x = a * d /\ y = c * b
  OBVIOUS
<1>3. (a * m) * (d * n) = x * k
  <2>1. (a * m) * (d * n) = (a * d) * (m * n)
    OBVIOUS
  <2> QED  BY <1>1, <1>2, <2>1
<1>4. (c * n) * (b * m) = y * k
  <2>1. (c * n) * (b * m) = (c * b) * (m * n)
    OBVIOUS
  <2> QED  BY <1>1, <1>2, <2>1
<1>5. x * k > y * k <=> x > y
  OBVIOUS
<1>6. x * k = y * k <=> x = y
  OBVIOUS
<1> QED  BY <1>2, <1>3, <1>4, <1>5, <1>6

\* A row whose window is priced at both ends.
Priced(r) ==
    /\ r \in Isin \X Session /\ WindowEnd(r[2]) \in Session
    /\ HasRow(r[1], r[2]) /\ HasRow(r[1], WindowEnd(r[2]))

LEMMA ReturnsCompare ==
    ASSUME LabelsTypeOK, NEW q, NEW r, Priced(q), Priced(r)
    PROVE  /\ Above(ForwardReturn(q), ForwardReturn(r)) <=> Above(Worth(q), Worth(r))
           /\ Tied(ForwardReturn(q), ForwardReturn(r)) <=> Tied(Worth(q), Worth(r))
<1>1. /\ q[1] \in Isin /\ q[2] \in Session /\ WindowEnd(q[2]) \in Session
      /\ r[1] \in Isin /\ r[2] \in Session /\ WindowEnd(r[2]) \in Session
  BY DEF Priced
<1>2. PICK m \in Nat \ {0}, n \in Nat \ {0} : m = Scale(q[1]) /\ n = Scale(r[1])
  BY <1>1, ScaleIsPositive
<1>3. PICK a \in Nat \ {0}, b \in Nat \ {0}, c \in Nat \ {0}, d \in Nat \ {0} :
        /\ a = value[q[1]][WindowEnd(q[2])] /\ b = value[q[1]][q[2]]
        /\ c = value[r[1]][WindowEnd(r[2])] /\ d = value[r[1]][r[2]]
  BY <1>1, CloseIsScaled DEF Priced
<1>4. ForwardReturn(q) = <<a * m, b * m>> /\ ForwardReturn(r) = <<c * n, d * n>>
  BY <1>1, <1>2, <1>3, CloseIsScaled DEF Priced, ForwardReturn
<1>5. Worth(q) = <<a, b>> /\ Worth(r) = <<c, d>>
  BY <1>3 DEF Worth
<1>6. /\ (a * m) * (d * n) > (c * n) * (b * m) <=> a * d > c * b
      /\ (a * m) * (d * n) = (c * n) * (b * m) <=> a * d = c * b
  BY FractionsCompare
<1> QED  BY <1>4, <1>5, <1>6 DEF Above, Tied

-------------------------------------------------------------------------------
(***************************************************************************)
(* The labels that holdings deserve: what a session's frame is, said       *)
(* without prices, without actions and without the order of a run.         *)
(***************************************************************************)

LabelRows(a) ==
    {r \in Isin \X Session :
        /\ r[1] \in Allowed
        /\ WindowEnd(r[2]) <= a
        /\ HasRow(r[1], r[2]) /\ HasRow(r[1], WindowEnd(r[2]))}

\* All rows of one session.
WindowRows(t) ==
    {r \in Isin \X Session :
        /\ r[2] = t /\ r[1] \in Allowed
        /\ HasRow(r[1], r[2]) /\ HasRow(r[1], WindowEnd(r[2]))}

Better(q, r) == Above(Worth(q), Worth(r)) \/ (Tied(Worth(q), Worth(r)) /\ q[1] < r[1])

Worse(q, r) == Above(Worth(r), Worth(q)) \/ (Tied(Worth(q), Worth(r)) /\ q[1] < r[1])

HoldTop(r) == Cardinality({q \in WindowRows(r[2]) : Better(q, r)})

HoldBottom(r) == Cardinality({q \in WindowRows(r[2]) : Worse(q, r)})

HoldClass(r) ==
    IF HoldTop(r) < TopSize(Cardinality(WindowRows(r[2]))) THEN "bullish"
    ELSE IF HoldBottom(r) < BottomSize(Cardinality(WindowRows(r[2]))) THEN "bearish"
    ELSE "neutral"

HoldFrame(a) == [r \in LabelRows(a) |-> HoldClass(r)]

HoldCount(t, label) == Cardinality({r \in WindowRows(t) : HoldClass(r) = label})

HoldCountsOk(t) ==
    LET n == Cardinality(WindowRows(t))
    IN  HoldCount(t, "bullish") = TopSize(n) /\ HoldCount(t, "bearish") = BottomSize(n)

HoldValid(a) == \A r \in LabelRows(a) : HoldCountsOk(r[2])

\* The rows of a session whose window is over are priced, and the rows of a date are
\* those of such sessions.
LEMMA WindowsOver ==
    ASSUME LabelsTypeOK, NEW a \in Session, NEW t \in Session
    PROVE  /\ WindowEnd(t) <= a => WindowEnd(t) \in Session /\ t < WindowEnd(t)
           /\ WindowEnd(t) <= a =>
                /\ \A r \in WindowRows(t) : Priced(r)
                /\ WindowRows(t) = {r \in LabelRows(a) : r[2] = t}
           /\ ~(WindowEnd(t) <= a) => {r \in LabelRows(a) : r[2] = t} = {}
<1>1. Session = 1 .. LastSession /\ LastSession \in Nat /\ Horizon \in Nat \ {0}
  BY LabelsAssumption DEF Session
<1>2. WindowEnd(t) <= a => WindowEnd(t) \in Session /\ t < WindowEnd(t)
  BY <1>1 DEF WindowEnd
<1>3. WindowEnd(t) <= a => \A r \in WindowRows(t) : Priced(r)
  BY <1>2 DEF WindowRows, Priced
<1>4. WindowEnd(t) <= a => WindowRows(t) = {r \in LabelRows(a) : r[2] = t}
  BY DEF WindowRows, LabelRows
<1>5. ~(WindowEnd(t) <= a) => {r \in LabelRows(a) : r[2] = t} = {}
  BY DEF LabelRows
<1> QED  BY <1>2, <1>3, <1>4, <1>5

\* The rows a run labels for a session.
LEMMA CrossRows ==
    ASSUME LabelsTypeOK, forward = ForwardRows, asOf \in Session, NEW t \in Session
    PROVE  /\ Known(t) => Cross(t) = WindowRows(t)
           /\ ~Known(t) => Cross(t) = {}
<1>1. Session = 1 .. LastSession /\ LastSession \in Nat /\ Horizon \in Nat \ {0}
  BY LabelsAssumption DEF Session
<1>2. ASSUME Known(t), NEW r \in WindowRows(t) PROVE r \in Cross(t)
  <2>1. r[2] = t /\ t \in 1 .. asOf /\ r \in Isin \X (1 .. asOf)
    BY <1>1, <1>2 DEF Known, WindowEnd, WindowRows
  <2> QED  BY <1>2, <2>1 DEF WindowRows, Cross, ForwardRows
<1>3. ASSUME NEW r \in Cross(t) PROVE Known(t) /\ r \in WindowRows(t)
  <2>1. r \in Isin \X (1 .. asOf) /\ 1 .. asOf \subseteq Session
    BY <1>1 DEF Cross, ForwardRows
  <2> QED  BY <2>1 DEF WindowRows, Cross, ForwardRows
<1> QED  BY <1>2, <1>3

\* A run gives the rows of a session the classes that holdings deserve.
LEMMA ClassesByHolding ==
    ASSUME LabelsTypeOK, NEW t \in Session, \A r \in WindowRows(t) : Priced(r),
           NEW r \in WindowRows(t)
    PROVE  ClassOf(WindowRows(t), r) = HoldClass(r)
<1>1. r[2] = t
  BY DEF WindowRows
<1>2. \A q \in WindowRows(t) :
        /\ Above(ForwardReturn(q), ForwardReturn(r)) <=> Above(Worth(q), Worth(r))
        /\ Above(ForwardReturn(r), ForwardReturn(q)) <=> Above(Worth(r), Worth(q))
        /\ Tied(ForwardReturn(q), ForwardReturn(r)) <=> Tied(Worth(q), Worth(r))
  BY ReturnsCompare
<1>3. PlaceFromTop(WindowRows(t), r) = HoldTop(r)
  <2>1. {q \in WindowRows(t) :
            \/ Above(ForwardReturn(q), ForwardReturn(r))
            \/ Tied(ForwardReturn(q), ForwardReturn(r)) /\ q[1] < r[1]}
          = {q \in WindowRows(t) : Better(q, r)}
    BY <1>2 DEF Better
  <2> QED  BY <1>1, <2>1 DEF PlaceFromTop, HoldTop
<1>4. PlaceFromBottom(WindowRows(t), r) = HoldBottom(r)
  <2>1. {q \in WindowRows(t) :
            \/ Above(ForwardReturn(r), ForwardReturn(q))
            \/ Tied(ForwardReturn(q), ForwardReturn(r)) /\ q[1] < r[1]}
          = {q \in WindowRows(t) : Worse(q, r)}
    BY <1>2 DEF Worse
  <2> QED  BY <1>1, <2>1 DEF PlaceFromBottom, HoldBottom
<1> QED  BY <1>1, <1>3, <1>4 DEF ClassOf, HoldClass

\* What holdings deserve on a session does not change any more when its window is over.
LEMMA HoldingsStay ==
    ASSUME LabelsTypeOK, LabelsTypeOK', config' = config,
           \A i \in Isin, s \in 1 .. asOf : value'[i][s] = value[i][s],
           NEW t \in Session, WindowEnd(t) <= asOf
    PROVE  /\ WindowRows(t)' = WindowRows(t)
           /\ \A r \in WindowRows(t) : HoldClass(r)' = HoldClass(r)
           /\ HoldCountsOk(t)' = HoldCountsOk(t)
<1>1. /\ t \in 1 .. asOf /\ WindowEnd(t) \in 1 .. asOf
      /\ WindowEnd(t)' = WindowEnd(t)
  BY LabelsAssumption DEF WindowEnd, Session, LabelsTypeOK
<1>2. Allowed' = Allowed
  BY DEF Allowed
<1>3. \A i \in Isin : /\ HasRow(i, t)' = HasRow(i, t)
                      /\ HasRow(i, WindowEnd(t))' = HasRow(i, WindowEnd(t))
  BY <1>1 DEF HasRow
<1>4. WindowRows(t)' = WindowRows(t)
  <2>1. \A r \in Isin \X Session : r \in WindowRows(t)' <=> r \in WindowRows(t)
    BY <1>1, <1>2, <1>3 DEF WindowRows
  <2> QED  BY <2>1 DEF WindowRows
<1>5. \A r \in WindowRows(t) : r[1] \in Isin /\ r[2] = t /\ Worth(r)' = Worth(r)
  BY <1>1 DEF WindowRows, Worth
<1>6. \A n : TopSize(n)' = TopSize(n) /\ BottomSize(n)' = BottomSize(n)
  BY DEF TopSize, BottomSize, CutSize
<1>7. ASSUME NEW r \in WindowRows(t)
      PROVE  HoldClass(r)' = HoldClass(r)
  <2>1. r[2] = t
    BY <1>5
  <2>2. \A q \in WindowRows(t) :
          /\ Above(Worth(q), Worth(r))' = Above(Worth(q), Worth(r))
          /\ Above(Worth(r), Worth(q))' = Above(Worth(r), Worth(q))
          /\ Tied(Worth(q), Worth(r))' = Tied(Worth(q), Worth(r))
    BY <1>5 DEF Above, Tied
  <2>3. {q \in WindowRows(t)' : Better(q, r)'} = {q \in WindowRows(t) : Better(q, r)}
    BY <1>4, <2>2 DEF Better
  <2>4. {q \in WindowRows(t)' : Worse(q, r)'} = {q \in WindowRows(t) : Worse(q, r)}
    BY <1>4, <2>2 DEF Worse
  <2>5. HoldTop(r)' = HoldTop(r)
    BY <2>1, <2>3 DEF HoldTop
  <2>6. HoldBottom(r)' = HoldBottom(r)
    BY <2>1, <2>4 DEF HoldBottom
  <2> QED  BY <1>4, <1>6, <2>1, <2>5, <2>6 DEF HoldClass
<1>8. \A label : HoldCount(t, label)' = HoldCount(t, label)
  <2>1. TAKE label
  <2>2. {r \in WindowRows(t)' : HoldClass(r)' = label} = {r \in WindowRows(t) : HoldClass(r) = label}
    BY <1>4, <1>7
  <2> QED  BY <2>2 DEF HoldCount
<1>9. HoldCountsOk(t)' = HoldCountsOk(t)
  BY <1>4, <1>6, <1>8 DEF HoldCountsOk
<1> QED  BY <1>4, <1>7, <1>9

-------------------------------------------------------------------------------
(***************************************************************************)
(* The invariant: the run in progress holds whole sessions, labelled as    *)
(* holdings deserve, and so does what has been published, or else it was   *)
(* refused for that.                                                       *)
(***************************************************************************)

WholeSessions ==
    pc \in {"assign", "validate"} =>
        /\ asOf \in Session /\ forward = ForwardRows
        /\ Rows(frame) \subseteq LabelRows(asOf)
        /\ \A r \in Rows(frame) : WindowRows(r[2]) \subseteq Rows(frame)
        /\ \A r \in Rows(frame) : frame[r] = HoldClass(r)
        /\ pc = "validate" => LabelRows(asOf) \subseteq Rows(frame)

Right(a) == published[a] = IF HoldValid(a) THEN HoldFrame(a) ELSE Refused

PublishedRight == \A a \in Session : published[a] # None => a <= asOf /\ Right(a)

LabelsInv == LabelsTypeOK /\ WholeSessions /\ PublishedRight

LEMMA ClassIsLabel ==
    /\ \A rows, r : ClassOf(rows, r) \in Label
    /\ \A r : HoldClass(r) \in Label
BY DEF ClassOf, HoldClass, Label

LEMMA LabelsInvInit == LabelsInit => LabelsInv
<1> SUFFICES ASSUME LabelsInit PROVE LabelsInv
  OBVIOUS
<1>1. frame \in [{} -> Label]
  BY DEF LabelsInit, NoRows
<1>2. frame \in Frames
  BY <1>1 DEF Frames
<1>3. LabelsTypeOK
  BY <1>2, LabelsAssumption DEF LabelsInit, LabelsTypeOK, NoRows
<1> QED  BY <1>3 DEF LabelsInit, LabelsInv, WholeSessions, PublishedRight

\* A step that keeps values and configuration keeps what holdings deserve.
LEMMA UntouchedHoldings ==
    ASSUME UNCHANGED <<config, value>>
    PROVE  /\ \A a : LabelRows(a)' = LabelRows(a) /\ HoldFrame(a)' = HoldFrame(a)
           /\ \A a : HoldValid(a)' = HoldValid(a)
           /\ \A t : WindowRows(t)' = WindowRows(t)
           /\ \A r : HoldClass(r)' = HoldClass(r)
<1>1. \A t : WindowRows(t)' = WindowRows(t)
  BY DEF WindowRows, Allowed, HasRow
<1>2. \A q, r : Better(q, r)' = Better(q, r) /\ Worse(q, r)' = Worse(q, r)
  BY DEF Better, Worse, Worth
<1>3. \A n : TopSize(n)' = TopSize(n) /\ BottomSize(n)' = BottomSize(n)
  BY DEF TopSize, BottomSize, CutSize
<1>4. \A r : HoldTop(r)' = HoldTop(r) /\ HoldBottom(r)' = HoldBottom(r)
  BY <1>1, <1>2 DEF HoldTop, HoldBottom
<1>5. \A r : HoldClass(r)' = HoldClass(r)
  BY <1>1, <1>3, <1>4 DEF HoldClass
<1>6. \A t, label : HoldCount(t, label)' = HoldCount(t, label)
  BY <1>1, <1>5 DEF HoldCount
<1>7. \A t : HoldCountsOk(t)' = HoldCountsOk(t)
  BY <1>1, <1>3, <1>6 DEF HoldCountsOk
<1>8. \A a : LabelRows(a)' = LabelRows(a)
  BY DEF LabelRows, Allowed, HasRow
<1>9. \A a : HoldFrame(a)' = HoldFrame(a)
  BY <1>5, <1>8 DEF HoldFrame
<1>10. \A a : HoldValid(a)' = HoldValid(a)
  BY <1>7, <1>8 DEF HoldValid
<1> QED  BY <1>1, <1>5, <1>8, <1>9, <1>10

LEMMA NewSessionKeepsInv ==
    ASSUME LabelsInv, NewSession
    PROVE  LabelsInv'
<1>1. /\ pc = "idle" /\ asOf < LastSession /\ asOf' = asOf + 1
      /\ UNCHANGED <<config, pc, forward, frame, published>>
  BY DEF NewSession
<1>2. PICK today \in [Isin -> Value \union {None}] :
        value' = [i \in Isin |-> [value[i] EXCEPT ![asOf + 1] = today[i]]]
  BY DEF NewSession
<1>3. PICK acted \in SUBSET Isin :
        exDates' = [i \in Isin |-> IF i \in acted THEN exDates[i] \union {asOf + 1}
                                                  ELSE exDates[i]]
  BY DEF NewSession
<1>4. asOf' \in Session /\ asOf \in Nat /\ asOf' \in 0 .. LastSession
  BY <1>1, LabelsAssumption DEF LabelsInv, LabelsTypeOK, Session
<1>5. value' \in [Isin -> [Session -> Value \cup {None}]]
  <2>1. \A i \in Isin : value[i] \in [Session -> Value \cup {None}]
    BY DEF LabelsInv, LabelsTypeOK
  <2>2. \A i \in Isin : [value[i] EXCEPT ![asOf + 1] = today[i]]
                          \in [Session -> Value \cup {None}]
    BY <1>2, <2>1
  <2> QED  BY <1>2, <2>2
<1>6. exDates' \in [Isin -> SUBSET Session]
  <2>1. \A i \in Isin : exDates[i] \in SUBSET Session
    BY DEF LabelsInv, LabelsTypeOK
  <2>2. asOf + 1 \in Session
    BY <1>1, <1>4
  <2>3. \A i \in Isin : (IF i \in acted THEN exDates[i] \union {asOf + 1} ELSE exDates[i])
                          \in SUBSET Session
    BY <2>1, <2>2
  <2> QED  BY <1>3, <2>3
<1>7. LabelsTypeOK'
  BY <1>1, <1>4, <1>5, <1>6 DEF LabelsInv, LabelsTypeOK
<1>8. \A i \in Isin, s \in 1 .. asOf : value'[i][s] = value[i][s]
  <2> SUFFICES ASSUME NEW i \in Isin, NEW s \in 1 .. asOf
               PROVE  value'[i][s] = value[i][s]
    OBVIOUS
  <2>1. value[i] \in [Session -> Value \cup {None}]
    BY DEF LabelsInv, LabelsTypeOK
  <2>2. value'[i] = [value[i] EXCEPT ![asOf + 1] = today[i]]
    BY <1>2
  <2>3. s \in Session /\ s # asOf + 1
    BY <1>4, LabelsAssumption DEF Session, LabelsInv, LabelsTypeOK
  <2> QED  BY <2>1, <2>2, <2>3
<1>9. ASSUME NEW t \in Session, WindowEnd(t) <= asOf
      PROVE  /\ WindowRows(t)' = WindowRows(t)
             /\ \A r \in WindowRows(t) : HoldClass(r)' = HoldClass(r)
             /\ HoldCountsOk(t)' = HoldCountsOk(t)
  BY <1>1, <1>7, <1>8, <1>9, HoldingsStay DEF LabelsInv
<1>10. ASSUME NEW a \in Session, published[a] # None
       PROVE  a <= asOf' /\ Right(a)'
  <2>1. a <= asOf /\ Right(a)
    BY <1>10 DEF LabelsInv, PublishedRight
  <2>2. a \in Nat /\ a <= asOf'
    BY <1>1, <1>4, <2>1, LabelsAssumption DEF Session
  <2>3. \A t \in Session : WindowEnd(t) <= a => WindowEnd(t) <= asOf
    BY <1>4, <2>1, <2>2, LabelsAssumption DEF WindowEnd, Session
  <2>4. \A t \in Session : WindowEnd(t) <= a =>
          {r \in LabelRows(a)' : r[2] = t} = {r \in LabelRows(a) : r[2] = t}
    <3> SUFFICES ASSUME NEW t \in Session, WindowEnd(t) <= a
                 PROVE  {r \in LabelRows(a)' : r[2] = t} = {r \in LabelRows(a) : r[2] = t}
      OBVIOUS
    <3>1. WindowRows(t)' = WindowRows(t)
      BY <1>9, <2>3
    <3>2. WindowEnd(t)' = WindowEnd(t)
      BY DEF WindowEnd
    <3>3. {r \in LabelRows(a) : r[2] = t} = WindowRows(t)
      BY DEF LabelRows, WindowRows
    <3>4. {r \in LabelRows(a)' : r[2] = t} = WindowRows(t)'
      BY <3>2 DEF LabelRows, WindowRows
    <3> QED  BY <3>1, <3>3, <3>4
  <2>5. \A r \in LabelRows(a) \cup LabelRows(a)' : r[2] \in Session /\ WindowEnd(r[2]) <= a
    BY DEF LabelRows, WindowEnd
  <2>6. LabelRows(a)' = LabelRows(a)
    BY <2>4, <2>5
  <2>7. \A r \in LabelRows(a) : /\ HoldClass(r)' = HoldClass(r)
                                /\ HoldCountsOk(r[2])' = HoldCountsOk(r[2])
    <3> SUFFICES ASSUME NEW r \in LabelRows(a)
                 PROVE  /\ HoldClass(r)' = HoldClass(r)
                        /\ HoldCountsOk(r[2])' = HoldCountsOk(r[2])
      OBVIOUS
    <3>1. PICK t \in Session : t = r[2]
      BY <2>5
    <3>2. WindowEnd(t) <= asOf /\ r \in WindowRows(t)
      BY <2>3, <2>5, <3>1 DEF LabelRows, WindowRows
    <3> QED  BY <1>9, <3>1, <3>2
  <2>8. HoldFrame(a)' = HoldFrame(a)
    BY <2>6, <2>7 DEF HoldFrame
  <2>9. HoldValid(a)' = HoldValid(a)
    BY <2>6, <2>7 DEF HoldValid
  <2> QED  BY <1>1, <2>1, <2>2, <2>8, <2>9 DEF Right
<1>11. PublishedRight'
  BY <1>1, <1>10 DEF PublishedRight
<1>12. WholeSessions'
  BY <1>1 DEF WholeSessions
<1> QED  BY <1>7, <1>11, <1>12 DEF LabelsInv

LEMMA ForwardRowsType ==
    ASSUME LabelsTypeOK, asOf \in Session
    PROVE  ForwardRows \in SUBSET (Isin \X Session)
BY LabelsAssumption DEF ForwardRows, Session

LEMMA ComputeKeepsInv ==
    ASSUME LabelsInv, ComputeForwardReturns
    PROVE  LabelsInv'
<1>1. /\ pc' = "assign" /\ forward' = ForwardRows /\ frame' = [r \in NoRows |-> "neutral"]
      /\ UNCHANGED <<config, value, exDates, asOf, published>>
      /\ asOf \in Session
  BY LabelsAssumption DEF ComputeForwardReturns, LabelsInv, LabelsTypeOK, Session
<1>2. frame' \in Frames
  <2>1. frame' \in [{} -> Label]
    BY <1>1 DEF NoRows
  <2> QED  BY <2>1 DEF Frames
<1>3. LabelsTypeOK'
  BY <1>1, <1>2, ForwardRowsType DEF LabelsInv, LabelsTypeOK
<1>4. ForwardRows' = ForwardRows
  BY <1>1 DEF ForwardRows, Known, HasRow
<1>5. WholeSessions'
  BY <1>1, <1>4 DEF WholeSessions, Rows, NoRows
<1>6. PublishedRight'
  BY <1>1, UntouchedHoldings DEF LabelsInv, PublishedRight, Right
<1> QED  BY <1>3, <1>5, <1>6 DEF LabelsInv

LEMMA AssignKeepsInv ==
    ASSUME LabelsInv, AssignSession
    PROVE  LabelsInv'
<1>1. PICK t \in ToAssign :
        frame' = [r \in Rows(frame) \union Cross(t) |->
                    IF r \in Cross(t) THEN ClassOf(Cross(t), r) ELSE frame[r]]
  BY DEF AssignSession
<1>2. /\ pc = "assign" /\ UNCHANGED <<config, value, exDates, asOf, pc, forward, published>>
  BY DEF AssignSession
<1>3. /\ asOf \in Session /\ forward = ForwardRows
      /\ Rows(frame) \subseteq LabelRows(asOf)
      /\ \A r \in Rows(frame) : WindowRows(r[2]) \subseteq Rows(frame)
      /\ \A r \in Rows(frame) : frame[r] = HoldClass(r)
  BY <1>2 DEF LabelsInv, WholeSessions
<1>4. t \in Session /\ Known(t) /\ Cross(t) = WindowRows(t)
  BY <1>1, <1>3, CrossRows DEF ToAssign, LabelsInv
<1>5. /\ WindowRows(t) = {r \in LabelRows(asOf) : r[2] = t}
      /\ \A r \in WindowRows(t) : Priced(r)
  BY <1>3, <1>4, WindowsOver DEF Known, LabelsInv
<1>6. Rows(frame') = Rows(frame) \cup WindowRows(t)
  BY <1>1, <1>4 DEF Rows
<1>7. \A r \in Rows(frame') : frame'[r] = HoldClass(r)
  <2> SUFFICES ASSUME NEW r \in Rows(frame) \cup WindowRows(t)
               PROVE  frame'[r] = HoldClass(r)
    BY <1>6
  <2>1. CASE r \in WindowRows(t)
    BY <1>1, <1>4, <1>5, <2>1, ClassesByHolding DEF LabelsInv
  <2>2. CASE r \notin WindowRows(t)
    BY <1>1, <1>3, <1>4, <2>2
  <2> QED  BY <2>1, <2>2
<1>8. Rows(frame') \subseteq LabelRows(asOf)
  BY <1>3, <1>5, <1>6
<1>9. \A r \in Rows(frame') : WindowRows(r[2]) \subseteq Rows(frame')
  <2> SUFFICES ASSUME NEW r \in Rows(frame) \cup WindowRows(t)
               PROVE  WindowRows(r[2]) \subseteq Rows(frame) \cup WindowRows(t)
    BY <1>6
  <2>1. CASE r \in WindowRows(t)
    BY <2>1 DEF WindowRows
  <2>2. CASE r \in Rows(frame)
    BY <1>3, <2>2
  <2> QED  BY <2>1, <2>2
<1>10. frame' \in Frames
  <2>1. LabelRows(asOf) \subseteq Isin \X Session
    BY DEF LabelRows
  <2>2. Rows(frame') \in SUBSET (Isin \X Session)
    BY <1>8, <2>1
  <2>3. frame' = [r \in Rows(frame') |-> frame'[r]]
    BY <1>1 DEF Rows
  <2>4. \A r \in Rows(frame') : frame'[r] \in Label
    BY <1>7, ClassIsLabel
  <2>5. frame' \in [Rows(frame') -> Label]
    BY <2>3, <2>4
  <2> QED  BY <2>2, <2>5 DEF Frames
<1>11. LabelsTypeOK'
  BY <1>2, <1>10 DEF LabelsInv, LabelsTypeOK
<1>12. ForwardRows' = ForwardRows
  BY <1>2 DEF ForwardRows, Known, HasRow
<1>13. WholeSessions'
  <2>1. /\ LabelRows(asOf)' = LabelRows(asOf)
        /\ \A u : WindowRows(u)' = WindowRows(u)
        /\ \A r : HoldClass(r)' = HoldClass(r)
        /\ Rows(frame)' = Rows(frame')
    BY <1>2, UntouchedHoldings DEF Rows
  <2> QED  BY <1>2, <1>3, <1>7, <1>8, <1>9, <1>12, <2>1 DEF WholeSessions
<1>14. PublishedRight'
  BY <1>2, UntouchedHoldings DEF LabelsInv, PublishedRight, Right
<1> QED  BY <1>11, <1>13, <1>14 DEF LabelsInv

LEMMA AssignDoneKeepsInv ==
    ASSUME LabelsInv, AssignDone
    PROVE  LabelsInv'
<1>1. /\ pc = "assign" /\ ToAssign = {} /\ pc' = "validate"
      /\ UNCHANGED <<config, value, exDates, asOf, forward, frame, published>>
  BY DEF AssignDone
<1>2. LabelsTypeOK'
  BY <1>1 DEF LabelsInv, LabelsTypeOK
<1>3. asOf \in Session /\ forward = ForwardRows
  BY <1>1 DEF LabelsInv, WholeSessions
<1>4. ASSUME NEW r \in LabelRows(asOf) PROVE r \in Rows(frame)
  <2>1. PICK t \in Session : t = r[2]
    BY <1>4 DEF LabelRows
  <2>2. Known(t) /\ r \in WindowRows(t)
    BY <1>4, <2>1 DEF LabelRows, WindowRows, Known
  <2>3. r \in Cross(t)
    BY <1>3, <2>2, CrossRows DEF LabelsInv
  <2> QED  BY <1>1, <2>3 DEF ToAssign
<1>5. ForwardRows' = ForwardRows
  BY <1>1 DEF ForwardRows, Known, HasRow
<1>6. WholeSessions'
  <2>1. /\ LabelRows(asOf)' = LabelRows(asOf)
        /\ \A u : WindowRows(u)' = WindowRows(u)
        /\ \A r : HoldClass(r)' = HoldClass(r)
        /\ Rows(frame)' = Rows(frame)
    BY <1>1, UntouchedHoldings DEF Rows
  <2> QED  BY <1>1, <1>4, <1>5, <2>1 DEF LabelsInv, WholeSessions
<1>7. PublishedRight'
  BY <1>1, UntouchedHoldings DEF LabelsInv, PublishedRight, Right
<1> QED  BY <1>2, <1>6, <1>7 DEF LabelsInv

\* What the validator counts is what holdings deserve.
LEMMA ValidatedRight ==
    ASSUME LabelsInv, pc = "validate"
    PROVE  frame = HoldFrame(asOf) /\ (ValidLabelFrame <=> HoldValid(asOf))
<1>1. /\ Rows(frame) = LabelRows(asOf) /\ asOf \in Session
      /\ \A r \in Rows(frame) : WindowRows(r[2]) \subseteq Rows(frame)
      /\ \A r \in Rows(frame) : frame[r] = HoldClass(r)
  BY DEF LabelsInv, WholeSessions
<1>2. frame = HoldFrame(asOf)
  <2>1. PICK rows \in SUBSET (Isin \X Session) : frame \in [rows -> Label]
    BY DEF LabelsInv, LabelsTypeOK, Frames
  <2>2. frame = [r \in Rows(frame) |-> frame[r]]
    BY <2>1 DEF Rows
  <2> QED  BY <1>1, <2>2 DEF HoldFrame
<1>3. ASSUME NEW r \in LabelRows(asOf)
      PROVE  CountsOk(r[2]) <=> HoldCountsOk(r[2])
  <2>1. PICK t \in Session : t = r[2]
    BY <1>3 DEF LabelRows
  <2>2. WindowEnd(t) <= asOf
    BY <1>3, <2>1 DEF LabelRows
  <2>3. {q \in Rows(frame) : q[2] = t} = WindowRows(t)
    BY <1>1, <2>2, WindowsOver DEF LabelsInv
  <2>4. \A label : {q \in WindowRows(t) : frame[q] = label}
                     = {q \in WindowRows(t) : HoldClass(q) = label}
    BY <1>1, <2>3
  <2>5. CountsOk(t) <=> HoldCountsOk(t)
    BY <2>3, <2>4 DEF CountsOk, HoldCountsOk, HoldCount
  <2> QED  BY <2>1, <2>5
<1> QED  BY <1>1, <1>2, <1>3 DEF ValidLabelFrame, HoldValid

LEMMA ValidateKeepsInv ==
    ASSUME LabelsInv, Validate
    PROVE  LabelsInv'
<1>1. /\ pc = "validate" /\ pc' = "idle"
      /\ published' = [published EXCEPT ![asOf] = IF ValidLabelFrame THEN frame ELSE Refused]
      /\ forward' = NoRows /\ frame' = [r \in NoRows |-> "neutral"]
      /\ UNCHANGED <<config, value, exDates, asOf>>
  BY DEF Validate
<1>2. asOf \in Session
  BY <1>1 DEF LabelsInv, WholeSessions
<1>3. frame' \in Frames
  <2>1. frame' \in [{} -> Label]
    BY <1>1 DEF NoRows
  <2> QED  BY <2>1 DEF Frames
<1>4. published' \in [Session -> Frames \cup {None, Refused}]
  BY <1>1 DEF LabelsInv, LabelsTypeOK
<1>5. LabelsTypeOK'
  BY <1>1, <1>3, <1>4 DEF LabelsInv, LabelsTypeOK, NoRows
<1>6. ASSUME NEW a \in Session, published'[a] # None
      PROVE  a <= asOf /\ published'[a] = IF HoldValid(a) THEN HoldFrame(a) ELSE Refused
  <2>1. CASE a = asOf
    <3>1. published'[a] = IF ValidLabelFrame THEN frame ELSE Refused
      BY <1>1, <2>1 DEF LabelsInv, LabelsTypeOK
    <3>2. a <= asOf
      BY <2>1, <1>2, LabelsAssumption DEF Session
    <3> QED  BY <1>1, <2>1, <3>1, <3>2, ValidatedRight
  <2>2. CASE a # asOf
    <3>1. published'[a] = published[a]
      BY <1>1, <2>2 DEF LabelsInv, LabelsTypeOK
    <3> QED  BY <1>6, <3>1 DEF LabelsInv, PublishedRight, Right
  <2> QED  BY <2>1, <2>2
<1>7. PublishedRight'
  <2>1. \A a : HoldFrame(a)' = HoldFrame(a) /\ HoldValid(a)' = HoldValid(a)
    BY <1>1, UntouchedHoldings
  <2> QED  BY <1>1, <1>6, <2>1 DEF PublishedRight, Right
<1> QED  BY <1>1, <1>5, <1>7 DEF LabelsInv, WholeSessions

LEMMA LabelsInvNext == LabelsInv /\ [LabelsNext]_vars => LabelsInv'
<1> SUFFICES ASSUME LabelsInv, [LabelsNext]_vars PROVE LabelsInv'
  OBVIOUS
<1>1. CASE UNCHANGED vars
  <2>1. LabelsTypeOK'
    BY <1>1 DEF vars, LabelsInv, LabelsTypeOK
  <2>2. WholeSessions'
    <3>1. /\ LabelRows(asOf)' = LabelRows(asOf)
          /\ \A u : WindowRows(u)' = WindowRows(u)
          /\ \A r : HoldClass(r)' = HoldClass(r)
          /\ Rows(frame)' = Rows(frame) /\ ForwardRows' = ForwardRows
      BY <1>1, UntouchedHoldings DEF vars, Rows, ForwardRows, Known, HasRow
    <3> QED  BY <1>1, <3>1 DEF vars, LabelsInv, WholeSessions
  <2>3. PublishedRight'
    BY <1>1, UntouchedHoldings DEF vars, LabelsInv, PublishedRight, Right
  <2> QED  BY <2>1, <2>2, <2>3 DEF LabelsInv
<1>2. CASE LabelsNext
  BY <1>1, <1>2, NewSessionKeepsInv, ComputeKeepsInv, AssignKeepsInv, AssignDoneKeepsInv,
     ValidateKeepsInv
  DEF LabelsNext, HistoryEnds
<1> QED  BY <1>1, <1>2

LEMMA LabelsInvHolds == LabelsSpec => []LabelsInv
BY LabelsInvInit, LabelsInvNext, PTL DEF LabelsSpec

-------------------------------------------------------------------------------
(***************************************************************************)
(* What follows for the published frames.                                  *)
(***************************************************************************)

LEMMA PublishedFrames ==
    ASSUME LabelsInv, NEW a \in Session
    PROVE  /\ published[a] \in {None, Refused} => Rows(Frame(a)) = {}
           /\ published[a] \notin {None, Refused} =>
                /\ a <= asOf /\ HoldValid(a) /\ Frame(a) = HoldFrame(a)
                /\ Rows(Frame(a)) = LabelRows(a)
           /\ IsRefused(a) => a <= asOf /\ ~HoldValid(a)
<1>1. published[a] \in {None, Refused} => Rows(Frame(a)) = {}
  BY DEF Frame, Rows
<1>2. published[a] # None => a <= asOf /\ Right(a)
  BY DEF LabelsInv, PublishedRight
<1>3. HoldFrame(a) # Refused
  <2>1. HoldFrame(a) \in [LabelRows(a) -> Label] /\ LabelRows(a) \in SUBSET (Isin \X Session)
    BY ClassIsLabel DEF HoldFrame, LabelRows
  <2> QED  BY <2>1, LabelsAssumption
<1>4. published[a] \notin {None, Refused} =>
        /\ a <= asOf /\ HoldValid(a) /\ Frame(a) = HoldFrame(a)
        /\ Rows(Frame(a)) = LabelRows(a)
  BY <1>2 DEF Right, Frame, HoldFrame, Rows
<1>5. IsRefused(a) => a <= asOf /\ ~HoldValid(a)
  BY <1>2, <1>3, LabelsAssumption DEF IsRefused, Right
<1> QED  BY <1>1, <1>4, <1>5

LEMMA LaterRows ==
    ASSUME NEW a \in Session, NEW b \in Session, a < b
    PROVE  LabelRows(a) \subseteq LabelRows(b)
BY LabelsAssumption DEF LabelRows, WindowEnd, Session

\* A published frame has exactly the windows that are over on its date and priced at
\* both ends: no label is known before its window is over, and none is missing.
THEOREM WindowsKnown == LabelsSpec => []WindowsAreKnownAndComplete
<1>1. LabelsInv => WindowsAreKnownAndComplete
  BY PublishedFrames DEF WindowsAreKnownAndComplete, LabelRows
<1> QED  BY <1>1, LabelsInvHolds, PTL

\* A published label is what every later run publishes for the same name and
\* session, whatever corporate actions adjust the closes meanwhile.
THEOREM StableLabels == LabelsSpec => []LabelsAreStable
<1>1. LabelsInv => LabelsAreStable
  <2> SUFFICES ASSUME LabelsInv, NEW a \in Session, NEW b \in Session, a < b,
                      ~IsRefused(a), ~IsRefused(b), published[b] # None,
                      NEW r \in Rows(Frame(a))
               PROVE  r \in Rows(Frame(b)) /\ Frame(b)[r] = Frame(a)[r]
    BY DEF LabelsAreStable
  <2>1. published[a] \notin {None, Refused} /\ published[b] \notin {None, Refused}
    BY PublishedFrames DEF IsRefused
  <2>2. r \in LabelRows(a) /\ r \in LabelRows(b)
    BY <2>1, PublishedFrames, LaterRows
  <2> QED  BY <2>1, <2>2, PublishedFrames DEF HoldFrame
<1> QED  BY <1>1, LabelsInvHolds, PTL

\* A refusal is for good: the session that was refused is in the frame of every later
\* run, with the same rows, the same classes and the same counts.
THEOREM RefusedForGood == LabelsSpec => []RefusalIsForGood
<1>1. LabelsInv => RefusalIsForGood
  <2> SUFFICES ASSUME LabelsInv, NEW a \in Session, NEW b \in Session, a < b,
                      IsRefused(a), published[b] # None, ~IsRefused(b)
               PROVE  FALSE
    BY DEF RefusalIsForGood
  <2>1. ~HoldValid(a) /\ HoldValid(b)
    BY PublishedFrames DEF IsRefused
  <2> QED  BY <2>1, LaterRows DEF HoldValid
<1> QED  BY <1>1, LabelsInvHolds, PTL

\* The market and the label runs are the same with feature runs beside them: every
\* theorem about LabelsSpec holds of TrainSpec.
THEOREM FeaturesOnlyRead == TrainSpec => LabelsSpec
<1>1. TrainInit => LabelsInit
  BY DEF TrainInit
<1>2. [TrainNext]_trainVars => [LabelsNext]_vars
  BY DEF TrainNext, PublishFeatures, trainVars
<1> QED  BY <1>1, <1>2, PTL DEF TrainSpec, LabelsSpec

-------------------------------------------------------------------------------
(***************************************************************************)
(* Classes follow holdings.  Of two names of a session the better one has  *)
(* fewer names before it from the top and more from the bottom.            *)
(***************************************************************************)

LEMMA FractionsOrdered ==
    ASSUME NEW a \in Nat \ {0}, NEW b \in Nat \ {0}, NEW c \in Nat \ {0},
           NEW d \in Nat \ {0}, NEW e \in Nat \ {0}, NEW f \in Nat \ {0}
    PROVE  /\ a * d >= c * b /\ c * f > e * d => a * f > e * b
           /\ a * d > c * b /\ c * f >= e * d => a * f > e * b
           /\ a * d = c * b /\ c * f = e * d => a * f = e * b
<1>1. /\ (a * d) * f = (a * f) * d /\ (c * b) * f = (c * f) * b
      /\ (e * d) * b = (e * b) * d
  OBVIOUS
<1>2. PICK u \in Nat, v \in Nat, w \in Nat, z \in Nat, x \in Nat, y \in Nat :
        u = a * d /\ v = c * b /\ w = c * f /\ z = e * d /\ x = a * f /\ y = e * b
  OBVIOUS
<1>3. u * f = x * d /\ v * f = w * b /\ z * b = y * d
  BY <1>1, <1>2
<1>4. u >= v => u * f >= v * f
  OBVIOUS
<1>5. u > v => u * f > v * f
  OBVIOUS
<1>6. w > z => w * b > z * b
  OBVIOUS
<1>7. w >= z => w * b >= z * b
  OBVIOUS
<1>8. x * d > y * d => x > y
  OBVIOUS
<1>9. x * d = y * d => x = y
  OBVIOUS
<1>10. /\ x * d \in Nat /\ y * d \in Nat /\ w * b \in Nat
  OBVIOUS
<1>11. u >= v /\ w > z => x > y
  BY <1>3, <1>4, <1>6, <1>8, <1>10
<1>12. u > v /\ w >= z => x > y
  BY <1>3, <1>5, <1>7, <1>8, <1>10
<1>13. u = v /\ w = z => x = y
  BY <1>3, <1>9, <1>10
<1> QED  BY <1>2, <1>11, <1>12, <1>13

LEMMA WorthType ==
    ASSUME LabelsTypeOK, NEW r, Priced(r)
    PROVE  /\ value[r[1]][r[2]] \in Nat \ {0}
           /\ value[r[1]][WindowEnd(r[2])] \in Nat \ {0}
           /\ Worth(r) \in (Nat \ {0}) \X (Nat \ {0})
           /\ r[1] \in Nat
BY CloseIsScaled, LabelsAssumption DEF Priced, Worth

LEMMA WorthOrdered ==
    ASSUME LabelsTypeOK, NEW p, NEW q, NEW r, Priced(p), Priced(q), Priced(r)
    PROVE  /\ ~Above(Worth(q), Worth(p)) /\ Above(Worth(q), Worth(r)) => Above(Worth(p), Worth(r))
           /\ Above(Worth(p), Worth(q)) /\ ~Above(Worth(r), Worth(q)) => Above(Worth(p), Worth(r))
           /\ Tied(Worth(p), Worth(q)) /\ Tied(Worth(q), Worth(r)) => Tied(Worth(p), Worth(r))
<1>1. PICK a \in Nat \ {0}, b \in Nat \ {0} : Worth(p) = <<a, b>>
  BY WorthType
<1>2. PICK c \in Nat \ {0}, d \in Nat \ {0} : Worth(q) = <<c, d>>
  BY WorthType
<1>3. PICK e \in Nat \ {0}, f \in Nat \ {0} : Worth(r) = <<e, f>>
  BY WorthType
<1>4. PICK u \in Nat, v \in Nat, w \in Nat, z \in Nat, x \in Nat, y \in Nat :
        u = a * d /\ v = c * b /\ w = c * f /\ z = e * d /\ x = a * f /\ y = e * b
  OBVIOUS
<1>5. /\ u >= v /\ w > z => x > y
      /\ u > v /\ w >= z => x > y
      /\ u = v /\ w = z => x = y
  BY <1>4, FractionsOrdered
<1>6. /\ Above(Worth(q), Worth(p)) <=> v > u
      /\ Above(Worth(p), Worth(q)) <=> u > v
      /\ Tied(Worth(p), Worth(q)) <=> u = v
      /\ Above(Worth(q), Worth(r)) <=> w > z
      /\ Above(Worth(r), Worth(q)) <=> z > w
      /\ Tied(Worth(q), Worth(r)) <=> w = z
      /\ Above(Worth(p), Worth(r)) <=> x > y
      /\ Tied(Worth(p), Worth(r)) <=> x = y
  BY <1>1, <1>2, <1>3, <1>4 DEF Above, Tied
<1> QED  BY <1>5, <1>6

LEMMA WorthTrichotomy ==
    ASSUME LabelsTypeOK, NEW q, NEW r, Priced(q), Priced(r)
    PROVE  /\ ~(Above(Worth(q), Worth(r)) /\ Above(Worth(r), Worth(q)))
           /\ Tied(Worth(q), Worth(r)) <=>
                ~Above(Worth(q), Worth(r)) /\ ~Above(Worth(r), Worth(q))
           /\ Tied(Worth(r), Worth(q)) <=> Tied(Worth(q), Worth(r))
<1>1. PICK c \in Nat \ {0}, d \in Nat \ {0} : Worth(q) = <<c, d>>
  BY WorthType
<1>2. PICK e \in Nat \ {0}, f \in Nat \ {0} : Worth(r) = <<e, f>>
  BY WorthType
<1>3. PICK x \in Nat, y \in Nat : x = c * f /\ y = e * d
  OBVIOUS
<1>4. /\ Above(Worth(q), Worth(r)) <=> x > y
      /\ Above(Worth(r), Worth(q)) <=> y > x
      /\ Tied(Worth(q), Worth(r)) <=> x = y
      /\ Tied(Worth(r), Worth(q)) <=> y = x
  BY <1>1, <1>2, <1>3 DEF Above, Tied
<1> QED  BY <1>4

LEMMA WindowRowsFinite ==
    ASSUME NEW t
    PROVE  /\ IsFiniteSet(WindowRows(t)) /\ Cardinality(WindowRows(t)) \in Nat
           /\ \A T \in SUBSET WindowRows(t) :
                /\ IsFiniteSet(T) /\ Cardinality(T) \in Nat
                /\ Cardinality(T) <= Cardinality(WindowRows(t))
<1>1. IsFiniteSet(Isin) /\ IsFiniteSet(Session)
  BY LabelsAssumption, FS_Interval DEF Session
<1>2. IsFiniteSet(Isin \X Session)
  BY <1>1, FS_Product
<1>3. WindowRows(t) \in SUBSET (Isin \X Session)
  BY DEF WindowRows
<1>4. IsFiniteSet(WindowRows(t))
  BY <1>2, <1>3, FS_Subset
<1> QED  BY <1>4, FS_Subset, FS_CardinalityType

LEMMA Divided ==
    ASSUME NEW x \in Nat, NEW d \in Nat \ {0}
    PROVE  /\ x \div d \in Nat /\ x % d \in 0 .. (d - 1)
           /\ x = d * (x \div d) + (x % d)
OBVIOUS

LEMMA QuotientBound ==
    ASSUME NEW x \in Nat, NEW d \in Nat \ {0}, NEW n \in Nat, x < (n + 1) * d
    PROVE  x \div d \in 0 .. n
<1>1. PICK k \in Nat, m \in 0 .. (d - 1) : k = x \div d /\ m = x % d /\ x = d * k + m
  BY Divided
<1>2. ~(k >= n + 1)
  <2>1. SUFFICES ASSUME k >= n + 1 PROVE FALSE
    OBVIOUS
  <2>2. d * k >= (n + 1) * d
    BY <2>1
  <2> QED  BY <1>1, <2>2
<1> QED  BY <1>1, <1>2

LEMMA CutSizeBound ==
    ASSUME LabelsTypeOK, NEW n \in Nat, NEW a \in Nat, NEW d \in Nat \ {0}, a <= d
    PROVE  CutSize(n, <<a, d>>) \in 0 .. n
<1>1. PICK x \in Nat : x = n * a
  OBVIOUS
<1>2. x <= n * d
  BY <1>1
<1>3. PICK e \in Nat : e = n * d /\ (n + 1) * d = e + d
  OBVIOUS
<1>4. Floor(x, d) \in 0 .. n
  <2>1. x < (n + 1) * d
    BY <1>2, <1>3
  <2> QED  BY <2>1, QuotientBound DEF Floor
<1>5. Ceil(x, d) \in 0 .. n
  <2>1. x + d - 1 \in Nat /\ x + d - 1 < (n + 1) * d
    BY <1>2, <1>3
  <2> QED  BY <2>1, QuotientBound DEF Ceil
<1>6. Nearest(x, d) \in 0 .. n
  <2>1. CASE 2 * (x % d) = d
    <3>1. PICK k \in Nat, m \in 0 .. (d - 1) :
            k = x \div d /\ m = x % d /\ x = d * k + m
      BY Divided
    <3>2. k < n
      <4>1. SUFFICES ASSUME k >= n PROVE FALSE
        OBVIOUS
      <4>2. d * k >= n * d
        BY <4>1
      <4> QED  BY <1>2, <2>1, <3>1, <4>2
    <3>3. k % 2 \in 0 .. 1
      OBVIOUS
    <3> QED  BY <2>1, <3>1, <3>2, <3>3 DEF Nearest
  <2>2. CASE 2 * (x % d) # d
    <3>1. 2 * x + d \in Nat /\ 2 * d \in Nat \ {0}
      OBVIOUS
    <3>2. (n + 1) * (2 * d) = 2 * e + 2 * d
      BY <1>3
    <3>3. 2 * x + d < (n + 1) * (2 * d)
      BY <1>2, <1>3, <3>2
    <3>4. (2 * x + d) \div (2 * d) \in 0 .. n
      BY <3>1, <3>3, QuotientBound
    <3> QED  BY <2>2, <3>4 DEF Nearest
  <2> QED  BY <2>1, <2>2
<1>7. config.policy \in {"floor", "ceil", "nearest"}
  BY LabelsAssumption DEF LabelsTypeOK
<1> QED  BY <1>1, <1>4, <1>5, <1>6, <1>7 DEF CutSize

\* The two cuts of n names never overlap.
LEMMA SizesFit ==
    ASSUME LabelsTypeOK, NEW n \in Nat
    PROVE  TopSize(n) \in 0 .. n /\ BottomSize(n) \in 0 .. (n - TopSize(n))
<1>1. PICK a \in Nat, d \in Nat \ {0} : config.top = <<a, d>> /\ a <= d
  BY LabelsAssumption DEF LabelsTypeOK
<1>2. PICK b \in Nat, e \in Nat \ {0} : config.bottom = <<b, e>> /\ b <= e
  BY LabelsAssumption DEF LabelsTypeOK
<1>3. TopSize(n) \in 0 .. n
  BY <1>1, CutSizeBound DEF TopSize
<1>4. CutSize(n, config.bottom) \in 0 .. n
  BY <1>2, CutSizeBound
<1> QED  BY <1>3, <1>4 DEF BottomSize

\* Of two names of a session, the better one has no more names before it from the
\* top and no fewer from the bottom.
LEMMA PlacesFollowHoldings ==
    ASSUME LabelsTypeOK, NEW t \in Session, \A r \in WindowRows(t) : Priced(r),
           NEW q \in WindowRows(t), NEW r \in WindowRows(t), Above(Worth(q), Worth(r))
    PROVE  HoldTop(q) <= HoldTop(r) /\ HoldBottom(r) <= HoldBottom(q)
<1>1. q[2] = t /\ r[2] = t
  BY DEF WindowRows
<1> DEFINE TopQ == {x \in WindowRows(t) : Better(x, q)}
           TopR == {x \in WindowRows(t) : Better(x, r)}
           BotQ == {x \in WindowRows(t) : Worse(x, q)}
           BotR == {x \in WindowRows(t) : Worse(x, r)}
<1>2. ASSUME NEW x \in WindowRows(t), Better(x, q) PROVE Better(x, r)
  <2>1. ~Above(Worth(q), Worth(x))
    BY <1>2, WorthTrichotomy DEF Better
  <2> QED  BY <2>1, WorthOrdered DEF Better
<1>3. ASSUME NEW x \in WindowRows(t), Worse(x, r) PROVE Worse(x, q)
  <2>1. ~Above(Worth(x), Worth(r))
    BY <1>3, WorthTrichotomy DEF Worse
  <2> QED  BY <2>1, WorthOrdered DEF Worse
<1>4. TopQ \subseteq TopR /\ BotR \subseteq BotQ
  BY <1>2, <1>3
<1>5. /\ HoldTop(q) = Cardinality(TopQ) /\ HoldTop(r) = Cardinality(TopR)
      /\ HoldBottom(q) = Cardinality(BotQ) /\ HoldBottom(r) = Cardinality(BotR)
  BY <1>1 DEF HoldTop, HoldBottom
<1>6. IsFiniteSet(TopR) /\ IsFiniteSet(BotQ)
  BY WindowRowsFinite
<1> HIDE DEF TopQ, TopR, BotQ, BotR
<1> QED  BY <1>4, <1>5, <1>6, FS_Subset

LEMMA PlacesAreNumbers ==
    ASSUME NEW r
    PROVE  HoldTop(r) \in Nat /\ HoldBottom(r) \in Nat
BY WindowRowsFinite DEF HoldTop, HoldBottom

\* What a holder earned decides the class, whatever corporate actions fell into or
\* after the window.
THEOREM HoldingsDecide == LabelsSpec => []ClassesFollowHoldings
<1>1. LabelsInv => ClassesFollowHoldings
  <2> SUFFICES ASSUME LabelsInv, NEW a \in Session,
                      NEW r \in Rows(Frame(a)), NEW q \in Rows(Frame(a)),
                      r[2] = q[2], Above(Worth(q), Worth(r))
               PROVE  /\ Frame(a)[r] = "bullish" => Frame(a)[q] = "bullish"
                      /\ Frame(a)[q] = "bearish" => Frame(a)[r] = "bearish"
    BY DEF ClassesFollowHoldings
  <2>1. published[a] \notin {None, Refused}
    BY PublishedFrames
  <2>2. /\ Frame(a)[r] = HoldClass(r) /\ Frame(a)[q] = HoldClass(q)
        /\ r \in LabelRows(a) /\ q \in LabelRows(a)
    BY <2>1, PublishedFrames DEF HoldFrame
  <2>3. PICK t \in Session : t = r[2] /\ t = q[2]
    BY <2>2 DEF LabelRows
  <2>4. /\ WindowEnd(t) <= a /\ r \in WindowRows(t) /\ q \in WindowRows(t)
    BY <2>2, <2>3 DEF LabelRows, WindowRows
  <2>5. \A x \in WindowRows(t) : Priced(x)
    BY <2>4, WindowsOver DEF LabelsInv
  <2>6. HoldTop(q) <= HoldTop(r) /\ HoldBottom(r) <= HoldBottom(q)
    BY <2>4, <2>5, PlacesFollowHoldings DEF LabelsInv
  <2>7. PICK n \in Nat : n = Cardinality(WindowRows(t))
    BY WindowRowsFinite
  <2>8. PICK top \in Nat, bottom \in Nat : top = TopSize(n) /\ bottom = BottomSize(n)
    BY SizesFit DEF LabelsInv
  <2>9. PICK tq \in Nat, tr \in Nat, bq \in Nat, br \in Nat :
          /\ tq = HoldTop(q) /\ tr = HoldTop(r) /\ bq = HoldBottom(q) /\ br = HoldBottom(r)
    BY PlacesAreNumbers
  <2>10. /\ HoldClass(q) = IF tq < top THEN "bullish" ELSE IF bq < bottom THEN "bearish"
                                                      ELSE "neutral"
         /\ HoldClass(r) = IF tr < top THEN "bullish" ELSE IF br < bottom THEN "bearish"
                                                      ELSE "neutral"
    BY <2>3, <2>7, <2>8, <2>9 DEF HoldClass
  <2>11. tq <= tr /\ br <= bq
    BY <2>6, <2>9
  <2> QED  BY <2>2, <2>10, <2>11
<1> QED  BY <1>1, LabelsInvHolds, PTL

-------------------------------------------------------------------------------
(***************************************************************************)
(* The cuts alone never refuse a session.  Without a tie the places of n   *)
(* names from the top are 0 .. n - 1, each once, and those from the bottom *)
(* are the same backwards; the cuts then count as they should.             *)
(***************************************************************************)

LEMMA PlacesCount ==
    ASSUME NEW S, IsFiniteSet(S), NEW n, n = Cardinality(S), NEW place \in [S -> 0 .. (n - 1)],
           \A x, y \in S : place[x] = place[y] => x = y,
           NEW lo \in 0 .. n, NEW hi \in 0 .. n, lo <= hi
    PROVE  Cardinality({x \in S : lo <= place[x] /\ place[x] < hi}) = hi - lo
<1>1. n \in Nat
  BY FS_CardinalityType
<1>2. IsFiniteSet(0 .. (n - 1)) /\ Cardinality(0 .. (n - 1)) = n
  <2>1. 0 \in Int /\ n - 1 \in Int
    BY <1>1
  <2>2. /\ IsFiniteSet(0 .. (n - 1))
        /\ Cardinality(0 .. (n - 1)) = IF 0 > n - 1 THEN 0 ELSE (n - 1) - 0 + 1
    BY <2>1, FS_Interval
  <2> QED  BY <1>1, <2>2
<1>3. place \in Injection(S, 0 .. (n - 1))
  BY DEF Injection, IsInjective
<1>4. place \in Surjection(S, 0 .. (n - 1))
  BY <1>2, <1>3, FS_Injection
<1> DEFINE T == {x \in S : lo <= place[x] /\ place[x] < hi}
           g == [x \in T |-> place[x]]
<1>5. g \in [T -> lo .. (hi - 1)]
  BY <1>1
<1>6. IsInjective(g)
  BY DEF IsInjective
<1>7. \A k \in lo .. (hi - 1) : \E x \in T : g[x] = k
  <2> TAKE k \in lo .. (hi - 1)
  <2>1. k \in 0 .. (n - 1)
    BY <1>1
  <2>2. PICK x \in S : place[x] = k
    BY <1>4, <2>1 DEF Surjection
  <2>3. x \in T
    BY <1>1, <2>2
  <2> QED  BY <2>2, <2>3
<1>8. g \in Bijection(T, lo .. (hi - 1))
  <2> HIDE DEF T, g
  <2> QED  BY <1>5, <1>6, <1>7 DEF Bijection, Injection, Surjection
<1>9. IsFiniteSet(T)
  BY FS_Subset
<1>10. Cardinality(lo .. (hi - 1)) = Cardinality(T)
  <2> HIDE DEF T, g
  <2> QED  BY <1>8, <1>9, FS_Bijection DEF ExistsBijection
<1>11. Cardinality(lo .. (hi - 1)) = hi - lo
  <2>1. lo \in Int /\ hi \in Int /\ hi - 1 \in Int
    BY <1>1
  <2>2. Cardinality(lo .. (hi - 1)) = IF lo > hi - 1 THEN 0 ELSE (hi - 1) - lo + 1
    BY <2>1, FS_Interval
  <2> QED  BY <2>1, <2>2
<1> QED  BY <1>10, <1>11

NoTies(t) == \A q, r \in WindowRows(t) : q # r => ~Tied(Worth(q), Worth(r))

LEMMA PlacesWithoutTies ==
    ASSUME LabelsTypeOK, NEW t \in Session, \A r \in WindowRows(t) : Priced(r), NoTies(t),
           NEW n, n = Cardinality(WindowRows(t)), NEW r \in WindowRows(t)
    PROVE  /\ HoldTop(r) \in 0 .. (n - 1) /\ HoldBottom(r) = (n - 1) - HoldTop(r)
           /\ \A q \in WindowRows(t) : HoldTop(q) = HoldTop(r) => q = r
<1> DEFINE S == WindowRows(t)
           Over(x) == {y \in S : Above(Worth(y), Worth(x))}
           Under(x) == {y \in S : Above(Worth(x), Worth(y))}
<1>1. /\ \A x \in S : ~Above(Worth(x), Worth(x)) /\ Tied(Worth(x), Worth(x))
      /\ \A x, y \in S : x # y => Above(Worth(x), Worth(y)) \/ Above(Worth(y), Worth(x))
      /\ \A x, y \in S : ~(Above(Worth(x), Worth(y)) /\ Above(Worth(y), Worth(x)))
  <2>1. \A x, y \in S :
          /\ ~(Above(Worth(x), Worth(y)) /\ Above(Worth(y), Worth(x)))
          /\ Tied(Worth(x), Worth(y)) <=>
               ~Above(Worth(x), Worth(y)) /\ ~Above(Worth(y), Worth(x))
    BY WorthTrichotomy
  <2> QED  BY <2>1 DEF NoTies
<1>2. \A x \in S : x[2] = t /\ x[1] \in Nat
  BY WorthType DEF WindowRows
<1>3. \A x \in S : HoldTop(x) = Cardinality(Over(x)) /\ HoldBottom(x) = Cardinality(Under(x))
  <2> SUFFICES ASSUME NEW x \in S
               PROVE  HoldTop(x) = Cardinality(Over(x)) /\ HoldBottom(x) = Cardinality(Under(x))
    OBVIOUS
  <2>1. \A y \in S : ~(Tied(Worth(y), Worth(x)) /\ y[1] < x[1])
    BY <1>2 DEF NoTies
  <2>2. {y \in S : Better(y, x)} = Over(x) /\ {y \in S : Worse(y, x)} = Under(x)
    BY <2>1 DEF Better, Worse
  <2> QED  BY <1>2, <2>2 DEF HoldTop, HoldBottom
<1>4. IsFiniteSet(S) /\ n \in Nat
  BY WindowRowsFinite
<1>5. Over(r) \cup Under(r) = S \ {r} /\ Over(r) \cap Under(r) = {}
  BY <1>1
<1>6. IsFiniteSet(Over(r)) /\ IsFiniteSet(Under(r))
  BY <1>4, FS_Subset
<1>7. ASSUME NEW q \in S, Above(Worth(q), Worth(r)) PROVE HoldTop(q) < HoldTop(r)
  <2>1. Over(q) \subseteq Over(r)
    BY <1>1, <1>7, WorthOrdered
  <2>2. q \in Over(r) /\ q \notin Over(q)
    BY <1>1, <1>7
  <2>3. Over(q) # Over(r)
    BY <2>2
  <2> HIDE DEF Over
  <2>4. /\ Cardinality(Over(q)) <= Cardinality(Over(r))
        /\ Cardinality(Over(q)) # Cardinality(Over(r))
    BY <1>6, <2>1, <2>3, FS_Subset
  <2>5. PICK a \in Nat, b \in Nat : a = Cardinality(Over(q)) /\ b = Cardinality(Over(r))
    BY <1>6, <2>1, FS_Subset, FS_CardinalityType
  <2>6. a < b
    BY <2>4, <2>5
  <2>7. HoldTop(q) = a /\ HoldTop(r) = b
    BY <1>3, <2>5
  <2> QED  BY <2>6, <2>7
<1>8. ASSUME NEW q \in S, Above(Worth(r), Worth(q)) PROVE HoldTop(r) < HoldTop(q)
  <2>1. Over(r) \subseteq Over(q)
    BY <1>1, <1>8, WorthOrdered
  <2>2. r \in Over(q) /\ r \notin Over(r)
    BY <1>1, <1>8
  <2>3. Over(r) # Over(q)
    BY <2>2
  <2>4. IsFiniteSet(Over(q))
    BY <1>4, FS_Subset
  <2> HIDE DEF Over
  <2>5. /\ Cardinality(Over(r)) <= Cardinality(Over(q))
        /\ Cardinality(Over(r)) # Cardinality(Over(q))
    BY <2>1, <2>3, <2>4, FS_Subset
  <2>6. PICK a \in Nat, b \in Nat : a = Cardinality(Over(r)) /\ b = Cardinality(Over(q))
    BY <1>6, <2>4, FS_CardinalityType
  <2>7. a < b
    BY <2>5, <2>6
  <2>8. HoldTop(r) = a /\ HoldTop(q) = b
    BY <1>3, <2>6
  <2> QED  BY <2>7, <2>8
<1>9. \A q \in S : HoldTop(q) = HoldTop(r) => q = r
  BY <1>1, <1>7, <1>8, PlacesAreNumbers
<1>10. Cardinality(Over(r)) + Cardinality(Under(r)) = n - 1
  <2> HIDE DEF Over, Under
  <2>1. Cardinality(S \ {r}) = n - 1
    BY <1>4, FS_RemoveElement
  <2>2. Cardinality(Over(r) \cap Under(r)) = 0
    BY <1>5, FS_EmptySet
  <2>3. Cardinality(Over(r) \cup Under(r))
          = Cardinality(Over(r)) + Cardinality(Under(r)) - Cardinality(Over(r) \cap Under(r))
    BY <1>6, FS_Union
  <2>4. Cardinality(Over(r) \cup Under(r)) = n - 1
    BY <1>5, <2>1
  <2>5. Cardinality(Over(r)) \in Nat /\ Cardinality(Under(r)) \in Nat
    BY <1>6, FS_CardinalityType
  <2> QED  BY <1>4, <2>2, <2>3, <2>4, <2>5
<1>11. Cardinality(Over(r)) \in Nat /\ Cardinality(Under(r)) \in Nat
  <2> HIDE DEF Over, Under
  <2> QED  BY <1>6, FS_CardinalityType
<1>12. PICK o \in Nat, u \in Nat : o = HoldTop(r) /\ u = HoldBottom(r)
  BY PlacesAreNumbers
<1>13. o + u = n - 1
  BY <1>3, <1>10, <1>12
<1>14. o \in 0 .. (n - 1) /\ u = (n - 1) - o
  BY <1>4, <1>13
<1> QED  BY <1>9, <1>12, <1>14

LEMMA CountsWithoutTies ==
    ASSUME LabelsTypeOK, NEW t \in Session, \A r \in WindowRows(t) : Priced(r), NoTies(t)
    PROVE  HoldCountsOk(t)
<1> DEFINE S == WindowRows(t)
           Bull == {r \in S : HoldClass(r) = "bullish"}
           Bear == {r \in S : HoldClass(r) = "bearish"}
           place == [r \in S |-> HoldTop(r)]
<1>1. IsFiniteSet(S)
  BY WindowRowsFinite
<1>2. PICK n \in Nat : n = Cardinality(S)
  BY WindowRowsFinite
<1>3. PICK top \in Nat, bottom \in Nat :
        /\ top = TopSize(n) /\ bottom = BottomSize(n)
        /\ top <= n /\ bottom <= n - top
  BY SizesFit
<1>4. \A r \in S : /\ HoldTop(r) \in 0 .. (n - 1)
                   /\ HoldBottom(r) = (n - 1) - HoldTop(r)
                   /\ \A q \in S : HoldTop(q) = HoldTop(r) => q = r
  BY <1>2, PlacesWithoutTies
<1>5. place \in [S -> 0 .. (n - 1)] /\ \A x, y \in S : place[x] = place[y] => x = y
  BY <1>4
<1>6. \A r \in S : HoldClass(r) = IF place[r] < top THEN "bullish"
                                  ELSE IF (n - 1) - place[r] < bottom THEN "bearish"
                                  ELSE "neutral"
  <2> SUFFICES ASSUME NEW r \in S
               PROVE  HoldClass(r) = IF place[r] < top THEN "bullish"
                                     ELSE IF (n - 1) - place[r] < bottom THEN "bearish"
                                     ELSE "neutral"
    OBVIOUS
  <2>1. r[2] = t
    BY DEF WindowRows
  <2>2. HoldClass(r) = IF HoldTop(r) < TopSize(n) THEN "bullish"
                       ELSE IF HoldBottom(r) < BottomSize(n) THEN "bearish"
                       ELSE "neutral"
    BY <1>2, <2>1 DEF HoldClass
  <2>3. place[r] = HoldTop(r) /\ HoldBottom(r) = (n - 1) - place[r]
    BY <1>4
  <2> HIDE DEF place
  <2> QED  BY <1>3, <2>2, <2>3
<1> HIDE DEF S, place
<1>7. Bull = {x \in S : 0 <= place[x] /\ place[x] < top}
  <2>1. \A x \in S : place[x] \in 0 .. (n - 1)
    BY <1>5
  <2>2. \A x \in S : HoldClass(x) = "bullish" <=> (0 <= place[x] /\ place[x] < top)
    BY <1>6, <2>1
  <2> QED  BY <2>2
<1>8. Bear = {x \in S : n - bottom <= place[x] /\ place[x] < n}
  <2>1. \A x \in S : place[x] \in 0 .. (n - 1)
    BY <1>5
  <2>2. \A x \in S : HoldClass(x) = "bearish" <=> (n - bottom <= place[x] /\ place[x] < n)
    <3> SUFFICES ASSUME NEW x \in S
                 PROVE  HoldClass(x) = "bearish" <=> (n - bottom <= place[x] /\ place[x] < n)
      OBVIOUS
    <3>1. PICK k \in 0 .. (n - 1) : k = place[x]
      BY <2>1
    <3>2. HoldClass(x) = IF k < top THEN "bullish"
                         ELSE IF (n - 1) - k < bottom THEN "bearish" ELSE "neutral"
      BY <1>6, <3>1
    <3>3. (n - 1) - k < bottom <=> n - bottom <= k
      OBVIOUS
    <3>4. n - bottom <= k => ~(k < top)
      BY <1>3
    <3> QED  BY <3>1, <3>2, <3>3, <3>4
  <2> QED  BY <2>2
<1>9. Cardinality(Bull) = top
  <2>1. 0 \in 0 .. n /\ top \in 0 .. n /\ 0 <= top
    BY <1>3
  <2>2. Cardinality({x \in S : 0 <= place[x] /\ place[x] < top}) = top - 0
    BY <1>1, <1>2, <1>5, <2>1, PlacesCount
  <2> QED  BY <1>7, <2>2
<1>10. Cardinality(Bear) = bottom
  <2>1. PICK lo \in 0 .. n : lo = n - bottom
    BY <1>3
  <2>2. n \in 0 .. n /\ lo <= n
    OBVIOUS
  <2>3. Cardinality({x \in S : lo <= place[x] /\ place[x] < n}) = n - lo
    BY <1>1, <1>2, <1>5, <2>2, PlacesCount
  <2>4. Cardinality(Bear) = n - lo
    BY <1>8, <2>1, <2>3
  <2> QED  BY <2>1, <2>4
<1>11. HoldCount(t, "bullish") = Cardinality(Bull) /\ HoldCount(t, "bearish") = Cardinality(Bear)
  BY DEF HoldCount, S
<1>12. n = Cardinality(WindowRows(t))
  BY <1>2 DEF S
<1> QED  BY <1>3, <1>9, <1>10, <1>11, <1>12 DEF HoldCountsOk

\* A run is refused only for a session in which two names tie: whatever the policy,
\* the cut sizes and the number of names, the cuts alone never overlap.
THEOREM RefusedOnTies == LabelsSpec => []RefusedOnlyOnTies
<1>1. LabelsInv => RefusedOnlyOnTies
  <2> SUFFICES ASSUME LabelsInv, NEW a \in Session, IsRefused(a)
               PROVE  \E r, q \in Isin \X Session :
                        /\ r[2] = q[2] /\ r[1] # q[1]
                        /\ WindowEnd(r[2]) <= a
                        /\ \A p \in {r, q} :
                              HasRow(p[1], p[2]) /\ HasRow(p[1], WindowEnd(p[2]))
                        /\ Tied(Worth(r), Worth(q))
    BY DEF RefusedOnlyOnTies
  <2>1. PICK x \in LabelRows(a) : ~HoldCountsOk(x[2])
    BY PublishedFrames DEF HoldValid
  <2>2. PICK t \in Session : t = x[2] /\ WindowEnd(t) <= a
    BY DEF LabelRows
  <2>3. \A r \in WindowRows(t) : Priced(r)
    BY <2>2, WindowsOver DEF LabelsInv
  <2>4. ~NoTies(t)
    BY <2>1, <2>2, <2>3, CountsWithoutTies DEF LabelsInv
  <2>5. PICK r \in WindowRows(t), q \in WindowRows(t) : r # q /\ Tied(Worth(r), Worth(q))
    BY <2>4 DEF NoTies
  <2>6. /\ r \in Isin \X Session /\ q \in Isin \X Session /\ r[2] = t /\ q[2] = t
        /\ HasRow(r[1], r[2]) /\ HasRow(r[1], WindowEnd(r[2]))
        /\ HasRow(q[1], q[2]) /\ HasRow(q[1], WindowEnd(q[2]))
    BY DEF WindowRows
  <2>7. r[1] # q[1]
    BY <2>5, <2>6
  <2> QED  BY <2>2, <2>5, <2>6, <2>7
<1> QED  BY <1>1, LabelsInvHolds, PTL

-------------------------------------------------------------------------------
(***************************************************************************)
(* The training matrix.  What a feature run of any date says of a row is   *)
(* fixed when the session of the row has passed: its base is found among   *)
(* earlier rows, and both closes carry the scale of their name.            *)
(***************************************************************************)

\* The rows of the sessions up to a, and the base of a row among them.
HeldRows(a) == {r \in Isin \X Session : r[2] <= a /\ HasRow(r[1], r[2])}

HeldBetween(q, r) ==
    {p \in HeldRows(r[2]) : p[1] = r[1] /\ q[2] <= p[2] /\ p[2] < r[2]}

HeldBase(r) ==
    {q \in HeldRows(r[2]) : q[1] = r[1] /\ Cardinality(HeldBetween(q, r)) = Period}

\* f is the return of row r, on some scale.
ReturnIs(f, r) ==
    /\ HeldBase(r) = {} => f = None
    /\ \A q \in HeldBase(r) : \E k \in Nat \ {0} :
          f = <<value[r[1]][r[2]] * k, value[q[1]][q[2]] * k>>

FeaturesRight ==
    \A a \in Session : features[a] # None =>
        /\ a <= asOf
        /\ Rows(features[a]) = HeldRows(a)
        /\ \A r \in HeldRows(a) : ReturnIs(features[a][r].ret, r)

FeaturesInv ==
    /\ features = [s \in Session |-> features[s]]
    /\ \A s \in Session : s < asOf => features[s] # None
    /\ FeaturesRight

LEMMA HeldRowsFinite ==
    ASSUME NEW S, S \subseteq Isin \X Session
    PROVE  IsFiniteSet(S) /\ Cardinality(S) \in Nat
<1>1. IsFiniteSet(Session) /\ IsFiniteSet(Isin)
  BY LabelsAssumption, FS_Interval DEF Session
<1>2. IsFiniteSet(Isin \X Session)
  BY <1>1, FS_Product
<1> QED  BY <1>2, FS_Subset, FS_CardinalityType

\* A row has at most one base, and it is earlier.
LEMMA BaseIsEarlier ==
    ASSUME NEW r \in Isin \X Session, NEW q \in HeldBase(r)
    PROVE  q \in Isin \X Session /\ q[1] = r[1] /\ q[2] < r[2] /\ HasRow(q[1], q[2])
<1>1. q \in Isin \X Session /\ q[1] = r[1] /\ HasRow(q[1], q[2])
  BY DEF HeldBase, HeldRows
<1>2. HeldBetween(q, r) # {}
  <2>1. Cardinality(HeldBetween(q, r)) # 0
    BY TrainMatrixAssumption DEF HeldBase
  <2> QED  BY <2>1, FS_EmptySet
<1>3. PICK p \in Isin \X Session : q[2] <= p[2] /\ p[2] < r[2]
  BY <1>2 DEF HeldBetween, HeldRows
<1>4. q[2] \in Int /\ p[2] \in Int /\ r[2] \in Int
  BY <1>1, LabelsAssumption DEF Session
<1> QED  BY <1>1, <1>3, <1>4

LEMMA BaseIsOne ==
    ASSUME NEW r \in Isin \X Session, NEW p \in HeldBase(r), NEW q \in HeldBase(r)
    PROVE  p = q
<1>1. /\ p \in Isin \X Session /\ q \in Isin \X Session
      /\ p[1] = r[1] /\ q[1] = r[1] /\ p[2] < r[2] /\ q[2] < r[2]
      /\ p[2] \in Int /\ q[2] \in Int /\ r[2] \in Int
  BY BaseIsEarlier, LabelsAssumption DEF Session
<1>2. ASSUME NEW x \in HeldBase(r), NEW y \in HeldBase(r), x[2] < y[2]
      PROVE  FALSE
  <2>1. /\ x \in Isin \X Session /\ y \in Isin \X Session
        /\ x[1] = r[1] /\ y[1] = r[1] /\ x[2] < r[2] /\ y[2] < r[2]
        /\ x[2] \in Int /\ y[2] \in Int /\ r[2] \in Int
    BY BaseIsEarlier, LabelsAssumption DEF Session
  <2>2. HeldBetween(y, r) \subseteq HeldBetween(x, r)
    <3>1. \A z \in HeldRows(r[2]) : z[2] \in Int
      BY LabelsAssumption DEF HeldRows, Session
    <3> QED  BY <1>2, <2>1, <3>1 DEF HeldBetween
  <2>3. x \in HeldBetween(x, r) /\ x \notin HeldBetween(y, r)
    BY <1>2, <2>1 DEF HeldBetween, HeldBase
  <2>4. HeldBetween(y, r) # HeldBetween(x, r)
    BY <2>3
  <2>5. IsFiniteSet(HeldBetween(x, r))
    BY HeldRowsFinite DEF HeldBetween, HeldRows
  <2>6. Cardinality(HeldBetween(y, r)) # Cardinality(HeldBetween(x, r))
    BY <2>2, <2>4, <2>5, FS_Subset
  <2> QED  BY <2>6 DEF HeldBase
<1>3. p[2] = q[2]
  BY <1>1, <1>2
<1> QED  BY <1>1, <1>3

\* A session that comes leaves what is known of the earlier ones.
LEMMA PastIsKept ==
    ASSUME LabelsTypeOK, [LabelsNext]_vars
    PROVE  /\ asOf <= asOf'
           /\ \A i \in Isin, s \in 1 .. asOf : value'[i][s] = value[i][s]
<1>1. asOf \in Nat /\ (\A i \in Isin : value[i] \in [Session -> Value \cup {None}])
  BY LabelsAssumption DEF LabelsTypeOK
<1>2. CASE NewSession
  <2>1. asOf' = asOf + 1 /\ asOf < LastSession
    BY <1>2 DEF NewSession
  <2>2. PICK today \in [Isin -> Value \union {None}] :
          value' = [i \in Isin |-> [value[i] EXCEPT ![asOf + 1] = today[i]]]
    BY <1>2 DEF NewSession
  <2>3. ASSUME NEW i \in Isin, NEW s \in 1 .. asOf PROVE value'[i][s] = value[i][s]
    <3>1. s \in Session /\ s # asOf + 1
      BY <1>1, <2>1, LabelsAssumption DEF Session
    <3>2. value'[i] = [value[i] EXCEPT ![asOf + 1] = today[i]]
      BY <2>2
    <3> QED  BY <1>1, <3>1, <3>2
  <2> QED  BY <1>1, <2>1, <2>3
<1>3. CASE UNCHANGED <<value, asOf>>
  BY <1>1, <1>3
<1> QED
  BY <1>2, <1>3
  DEF LabelsNext, vars, ComputeForwardReturns, AssignSession, AssignDone, Validate, HistoryEnds

LEMMA HeldStays ==
    ASSUME LabelsTypeOK, \A i \in Isin, s \in 1 .. asOf : value'[i][s] = value[i][s],
           NEW a \in Session, a <= asOf
    PROVE  /\ HeldRows(a)' = HeldRows(a)
           /\ \A r \in HeldRows(a) : \A f : ReturnIs(f, r)' = ReturnIs(f, r)
<1>1. asOf \in Nat /\ Session = 1 .. LastSession /\ LastSession \in Nat
  BY LabelsAssumption DEF LabelsTypeOK, Session
<1>2. ASSUME NEW b \in Session, b <= asOf PROVE HeldRows(b)' = HeldRows(b)
  <2>1. \A r \in Isin \X Session : r[2] <= b => value'[r[1]][r[2]] = value[r[1]][r[2]]
    BY <1>1, <1>2
  <2> QED  BY <2>1 DEF HeldRows, HasRow
<1>3. ASSUME NEW r \in HeldRows(a), NEW f PROVE ReturnIs(f, r)' = ReturnIs(f, r)
  <2>1. r \in Isin \X Session /\ r[1] \in Isin /\ r[2] \in Session /\ r[2] <= asOf
    BY <1>1 DEF HeldRows
  <2>2. PICK b \in Session : b = r[2]
    BY <2>1
  <2>3. HeldRows(b)' = HeldRows(b)
    BY <1>2, <2>1, <2>2
  <2>4. \A q : HeldBetween(q, r)' = HeldBetween(q, r)
    BY <2>2, <2>3 DEF HeldBetween
  <2>5. HeldBase(r)' = HeldBase(r)
    BY <2>2, <2>3, <2>4 DEF HeldBase
  <2>6. value'[r[1]][r[2]] = value[r[1]][r[2]]
    BY <1>1, <2>1
  <2>7. \A q \in HeldBase(r) : value'[q[1]][q[2]] = value[q[1]][q[2]]
    <3>1. \A q \in HeldBase(r) : q[1] \in Isin /\ q[2] \in 1 .. asOf
      BY <1>1, <2>1 DEF HeldBase, HeldRows
    <3> QED  BY <3>1
  <2> QED  BY <2>5, <2>6, <2>7 DEF ReturnIs
<1> QED  BY <1>2, <1>3

\* What a feature run computes.
LEMMA ReturnsAreRight ==
    ASSUME LabelsTypeOK, asOf \in Session
    PROVE  /\ FeatureRows = HeldRows(asOf)
           /\ \A r \in HeldRows(asOf) : ReturnIs(ReturnFeature(r), r)
<1>1. asOf \in Nat /\ Session = 1 .. LastSession /\ LastSession \in Nat
  BY LabelsAssumption DEF LabelsTypeOK, Session
<1>2. FeatureRows = HeldRows(asOf)
  BY <1>1 DEF FeatureRows, HeldRows
<1>3. ASSUME NEW r \in HeldRows(asOf) PROVE ReturnIs(ReturnFeature(r), r)
  <2>1. r \in Isin \X Session /\ r[2] \in Session /\ r[2] <= asOf /\ HasRow(r[1], r[2])
    BY DEF HeldRows
  <2>2. \A q \in Isin \X Session : q[2] \in Int
    BY <1>1
  <2>3. \A q \in Isin \X Session : Between(q, r) = HeldBetween(q, r)
    BY <1>1, <1>2, <2>1, <2>2 DEF Between, HeldBetween, HeldRows
  <2>4. ReturnBase(r) = HeldBase(r)
    <3>1. ASSUME NEW q \in ReturnBase(r) PROVE q \in HeldBase(r)
      <4>1. /\ q \in Isin \X Session /\ q[1] = r[1] /\ HasRow(q[1], q[2])
            /\ Cardinality(HeldBetween(q, r)) = Period
        BY <1>2, <2>3 DEF ReturnBase, HeldRows
      <4>2. HeldBetween(q, r) # {}
        BY <4>1, TrainMatrixAssumption, FS_EmptySet
      <4>3. PICK p \in Isin \X Session : q[2] <= p[2] /\ p[2] < r[2]
        BY <4>2 DEF HeldBetween, HeldRows
      <4>4. q[2] <= r[2]
        BY <2>1, <2>2, <4>1, <4>3
      <4> QED  BY <4>1, <4>4 DEF HeldBase, HeldRows
    <3>2. ASSUME NEW q \in HeldBase(r) PROVE q \in ReturnBase(r)
      <4>1. /\ q \in Isin \X Session /\ q[1] = r[1] /\ HasRow(q[1], q[2]) /\ q[2] < r[2]
        BY <2>1, BaseIsEarlier
      <4>2. q \in FeatureRows
        BY <1>1, <1>2, <2>1, <2>2, <4>1 DEF HeldRows
      <4>3. Cardinality(Between(q, r)) = Period
        BY <2>3, <4>1 DEF HeldBase
      <4> QED  BY <4>1, <4>2, <4>3 DEF ReturnBase
    <3> QED  BY <3>1, <3>2
  <2>5. CASE HeldBase(r) = {}
    BY <2>4, <2>5 DEF ReturnIs, ReturnFeature
  <2>6. CASE HeldBase(r) # {}
    <3>1. PICK q \in HeldBase(r) : TRUE
      BY <2>6
    <3>2. \A p \in HeldBase(r) : p = q
      BY <2>1, BaseIsOne
    <3>3. /\ q \in Isin \X Session /\ q[1] = r[1] /\ q[2] \in Session
          /\ HasRow(q[1], q[2]) /\ q[2] \in Int
      BY <2>1, <2>2, BaseIsEarlier
    <3> DEFINE Last(x) == \A p \in ReturnBase(r) : p[2] <= x[2]
    <3>4. q \in ReturnBase(r) /\ Last(q)
      BY <2>4, <3>2, <3>3
    <3>5. (CHOOSE x \in ReturnBase(r) : Last(x)) = q
      <4>1. (CHOOSE x \in ReturnBase(r) : Last(x)) \in ReturnBase(r)
        BY <3>4
      <4> QED  BY <2>4, <3>2, <4>1
    <3>6. ReturnFeature(r) = <<CloseAdj(r[1], r[2]), CloseAdj(q[1], q[2])>>
      BY <2>4, <2>6, <3>5 DEF ReturnFeature
    <3>7. PICK k \in Nat \ {0} : k = Scale(r[1])
      BY <2>1, ScaleIsPositive
    <3>8. /\ CloseAdj(r[1], r[2]) = value[r[1]][r[2]] * k
          /\ CloseAdj(q[1], q[2]) = value[q[1]][q[2]] * k
      BY <2>1, <3>3, <3>7, CloseIsScaled
    <3> QED  BY <2>6, <3>2, <3>6, <3>8 DEF ReturnIs
  <2> QED  BY <2>5, <2>6
<1> QED  BY <1>2, <1>3

LEMMA FeaturesInvHolds == TrainSpec => []FeaturesInv
<1>1. ASSUME TrainInit PROVE FeaturesInv
  <2>1. features = [s \in Session |-> None] /\ asOf = 0
    BY <1>1 DEF TrainInit, LabelsInit
  <2>2. \A s \in Session : ~(s < asOf)
    BY <2>1, LabelsAssumption DEF Session
  <2>3. \A s \in Session : features[s] = None
    BY <2>1
  <2> QED  BY <2>1, <2>2, <2>3 DEF FeaturesInv, FeaturesRight
<1>2. ASSUME FeaturesInv, LabelsInv, LabelsInv', [TrainNext]_trainVars
      PROVE  FeaturesInv'
  <2>1. LabelsTypeOK /\ LabelsTypeOK'
    BY <1>2 DEF LabelsInv
  <2>2. /\ asOf \in 0 .. LastSession /\ asOf' \in 0 .. LastSession
        /\ Session = 1 .. LastSession /\ LastSession \in Nat
    BY <2>1, LabelsAssumption DEF LabelsTypeOK, Session
  <2>3. [LabelsNext]_vars
    BY <1>2 DEF TrainNext, PublishFeatures, trainVars
  <2>4. /\ asOf <= asOf'
        /\ \A i \in Isin, s \in 1 .. asOf : value'[i][s] = value[i][s]
    BY <2>1, <2>3, PastIsKept
  <2>5. ASSUME NEW a \in Session, a <= asOf
        PROVE  /\ HeldRows(a)' = HeldRows(a)
               /\ \A r \in HeldRows(a) : \A f : ReturnIs(f, r)' = ReturnIs(f, r)
    BY <2>1, <2>4, <2>5, HeldStays
  <2>6. ASSUME NEW a \in Session, features'[a] = features[a], features[a] # None
        PROVE  /\ a <= asOf'
               /\ Rows(features'[a]) = HeldRows(a)'
               /\ \A r \in HeldRows(a)' : ReturnIs(features[a][r].ret, r)'
    <3>1. /\ a <= asOf
          /\ Rows(features[a]) = HeldRows(a)
          /\ \A r \in HeldRows(a) : ReturnIs(features[a][r].ret, r)
      BY <1>2, <2>6 DEF FeaturesInv, FeaturesRight
    <3>2. a <= asOf'
      BY <2>2, <2>4, <3>1
    <3>3. HeldRows(a)' = HeldRows(a)
      BY <2>5, <3>1
    <3>4. ASSUME NEW r \in HeldRows(a) PROVE ReturnIs(features[a][r].ret, r)'
      <4>1. PICK f : f = features[a][r].ret
        OBVIOUS
      <4>2. ReturnIs(f, r)' = ReturnIs(f, r)
        BY <2>5, <3>1
      <4>3. ReturnIs(f, r)
        BY <3>1, <4>1
      <4>4. f = features'[a][r].ret
        BY <2>6, <4>1
      <4> QED  BY <4>2, <4>3, <4>4 DEF ReturnIs
    <3> QED  BY <2>6, <3>1, <3>2, <3>3, <3>4 DEF Rows
  <2>7. CASE UNCHANGED features /\ (asOf' # asOf => asOf' = asOf + 1)
                                /\ (asOf' # asOf /\ asOf \in Session => features[asOf] # None)
    <3>1. FeaturesRight'
      BY <2>6, <2>7 DEF FeaturesRight, Rows
    <3>2. \A s \in Session : s < asOf' => features'[s] # None
      <4> SUFFICES ASSUME NEW s \in Session, s < asOf' PROVE features'[s] # None
        OBVIOUS
      <4>1. s < asOf \/ (s = asOf /\ asOf' # asOf)
        BY <2>2, <2>7
      <4> QED  BY <1>2, <2>7, <4>1 DEF FeaturesInv
    <3> QED  BY <1>2, <2>7, <3>1, <3>2 DEF FeaturesInv
  <2>8. CASE PublishFeatures
    <3>1. asOf \in Session
      BY <2>2, <2>8 DEF PublishFeatures
    <3>2. UNCHANGED vars /\ asOf' = asOf
      BY <2>8 DEF PublishFeatures, vars
    <3> DEFINE computed == [r \in FeatureRows |-> [price |-> PriceFeature(r), ret |-> ReturnFeature(r)]]
    <3>3. features' = [features EXCEPT ![asOf] = computed]
      BY <2>8 DEF PublishFeatures
    <3>4. PICK frm : frm = computed
      OBVIOUS
    <3>5. /\ Rows(frm) = HeldRows(asOf)
          /\ \A r \in HeldRows(asOf) : ReturnIs(frm[r].ret, r)
      <4>1. FeatureRows = HeldRows(asOf)
        BY <2>1, <3>1, ReturnsAreRight
      <4>2. \A r \in HeldRows(asOf) : frm[r].ret = ReturnFeature(r)
        BY <3>4, <4>1
      <4>3. \A r \in HeldRows(asOf) : ReturnIs(ReturnFeature(r), r)
        BY <2>1, <3>1, ReturnsAreRight
      <4> QED  BY <3>4, <4>1, <4>2, <4>3 DEF Rows
    <3> HIDE DEF computed
    <3>6. /\ features' = [s \in Session |-> features'[s]]
          /\ features'[asOf] = frm
          /\ \A s \in Session : s # asOf => features'[s] = features[s]
      <4>1. features = [s \in Session |-> features[s]]
        BY <1>2 DEF FeaturesInv
      <4> QED  BY <3>1, <3>3, <3>4, <4>1
    <3>7. ASSUME NEW a \in Session, features'[a] # None
          PROVE  /\ a <= asOf'
                 /\ Rows(features'[a]) = HeldRows(a)'
                 /\ \A r \in HeldRows(a)' : ReturnIs(features[a][r].ret, r)'
      <4>1. CASE a # asOf
        BY <2>6, <3>6, <3>7, <4>1
      <4>2. CASE a = asOf
        <5>1. a <= asOf /\ a <= asOf'
          BY <2>2, <3>2, <4>2
        <5>2. HeldRows(a)' = HeldRows(a)
          BY <2>5, <5>1
        <5>3. \A r \in HeldRows(a) : ReturnIs(frm[r].ret, r)' = ReturnIs(frm[r].ret, r)
          BY <2>5, <5>1
        <5>4. Rows(frm) = HeldRows(a) /\ \A r \in HeldRows(a) : ReturnIs(frm[r].ret, r)
          BY <3>5, <4>2
        <5>5. features'[a] = frm
          BY <3>6, <4>2
        <5>6. \A r \in HeldRows(a) : ReturnIs(features[a][r].ret, r)'
          BY <5>3, <5>4, <5>5 DEF ReturnIs
        <5> QED  BY <5>1, <5>2, <5>4, <5>5, <5>6 DEF Rows
      <4> QED  BY <4>1, <4>2
    <3>8. \A s \in Session : s < asOf' => features'[s] # None
      <4>1. \A s \in Session : s < asOf' => s # asOf /\ features[s] # None
        BY <1>2, <2>2, <3>2 DEF FeaturesInv
      <4> QED  BY <3>6, <4>1
    <3> QED  BY <3>6, <3>7, <3>8 DEF FeaturesInv, FeaturesRight, Rows
  <2>9. CASE UNCHANGED trainVars
    BY <2>7, <2>9 DEF trainVars, vars
  <2>10. CASE LabelsNext /\ UNCHANGED features /\ (asOf \in Session => features[asOf] # None)
    <3>1. asOf' # asOf => asOf' = asOf + 1
      BY <2>10 DEF LabelsNext, vars, NewSession, ComputeForwardReturns, AssignSession,
                   AssignDone, Validate, HistoryEnds
    <3> QED  BY <2>7, <2>10, <3>1
  <2> QED  BY <1>2, <2>8, <2>9, <2>10 DEF TrainNext
<1>3. TrainSpec => []LabelsInv
  BY FeaturesOnlyRead, LabelsInvHolds, PTL
<1> QED  BY <1>1, <1>2, <1>3, PTL DEF TrainSpec

\* What a model is trained on for a session is what inference scored on it: every
\* row of a matrix was in the frame published on its session, its return is the same
\* although every close may have been adjusted again, and its label was not known.
THEOREM TrainedOnServed == TrainSpec => []TrainedAsServed
<1>1. LabelsInv /\ FeaturesInv => TrainedAsServed
  <2> SUFFICES ASSUME LabelsInv, FeaturesInv,
                      NEW a \in Session, ~MatrixRefused(a), NEW r \in Rows(Matrix(a))
               PROVE  /\ r \in Rows(features[r[2]])
                      /\ SameReturn(Matrix(a)[r].ret, features[r[2]][r].ret)
                      /\ ~MatrixRefused(r[2]) => r \notin Rows(Matrix(r[2]))
    BY DEF TrainedAsServed
  <2>1. features[a] # None /\ published[a] \notin {None, Refused}
    BY DEF MatrixRefused
  <2>2. /\ r \in Rows(features[a]) /\ r \in Rows(published[a])
        /\ Matrix(a)[r].ret = features[a][r].ret
    BY DEF Matrix, BuildTrainMatrix, Rows
  <2>3. r \in LabelRows(a) /\ a <= asOf
    BY <2>1, <2>2, PublishedFrames DEF Frame
  <2>4. PICK t \in Session : t = r[2]
    BY <2>3 DEF LabelRows
  <2>5. t < a /\ t < asOf /\ ~(WindowEnd(t) <= t)
    BY <2>3, <2>4, LabelsAssumption DEF LabelRows, WindowEnd, Session, LabelsInv, LabelsTypeOK
  <2>6. features[t] # None
    BY <2>5 DEF FeaturesInv
  <2>7. r \in HeldRows(t) /\ r \in HeldRows(a)
    BY <2>3, <2>4, <2>5, LabelsAssumption DEF HeldRows, LabelRows, Session
  <2>8. /\ Rows(features[t]) = HeldRows(t)
        /\ ReturnIs(features[t][r].ret, r) /\ ReturnIs(features[a][r].ret, r)
    BY <2>1, <2>6, <2>7 DEF FeaturesInv, FeaturesRight
  <2>9. SameReturn(features[a][r].ret, features[t][r].ret)
    <3>1. CASE HeldBase(r) = {}
      BY <2>8, <3>1 DEF ReturnIs, SameReturn
    <3>2. CASE HeldBase(r) # {}
      <4>1. PICK q \in HeldBase(r) : TRUE
        BY <3>2
      <4>2. PICK m \in Nat \ {0}, n \in Nat \ {0} :
              /\ features[a][r].ret = <<value[r[1]][r[2]] * m, value[q[1]][q[2]] * m>>
              /\ features[t][r].ret = <<value[r[1]][r[2]] * n, value[q[1]][q[2]] * n>>
        BY <2>8, <4>1 DEF ReturnIs
      <4>3. /\ r \in Isin \X Session /\ HasRow(r[1], r[2])
            /\ q \in Isin \X Session /\ HasRow(q[1], q[2])
        BY <2>7, <4>1, BaseIsEarlier DEF HeldRows
      <4>4. PICK v \in Nat, w \in Nat : v = value[r[1]][r[2]] /\ w = value[q[1]][q[2]]
        BY <4>3, CloseIsScaled DEF LabelsInv
      <4>5. (v * m) * (w * n) = (v * n) * (w * m)
        OBVIOUS
      <4>6. /\ features[a][r].ret = <<v * m, w * m>> /\ features[t][r].ret = <<v * n, w * n>>
            /\ <<v * m, w * m>> \in Nat \X Nat /\ <<v * n, w * n>> \in Nat \X Nat
        BY <4>2, <4>4
      <4>7. features[a][r].ret # None /\ features[t][r].ret # None
        BY <4>6, TrainMatrixAssumption
      <4>8. Tied(features[a][r].ret, features[t][r].ret)
        BY <4>5, <4>6 DEF Tied
      <4> QED  BY <4>7, <4>8 DEF SameReturn
    <3> QED  BY <3>1, <3>2
  <2>10. ~MatrixRefused(t) => r \notin Rows(Matrix(t))
    <3> SUFFICES ASSUME ~MatrixRefused(t), r \in Rows(Matrix(t)) PROVE FALSE
      OBVIOUS
    <3>1. published[t] \notin {None, Refused} /\ r \in Rows(published[t])
      BY DEF MatrixRefused, Matrix, BuildTrainMatrix, Rows
    <3>2. r \in LabelRows(t)
      BY <3>1, PublishedFrames DEF Frame
    <3> QED  BY <2>4, <2>5, <3>2 DEF LabelRows
  <2> QED  BY <2>2, <2>4, <2>7, <2>8, <2>9, <2>10
<1>2. TrainSpec => []LabelsInv
  BY FeaturesOnlyRead, LabelsInvHolds, PTL
<1> QED  BY <1>1, <1>2, FeaturesInvHolds, PTL
===============================================================================
