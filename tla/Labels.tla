------------------------------- MODULE Labels -------------------------------
(***************************************************************************)
(* The label frame: adjusted closes (ingest/adjust.py), forward returns    *)
(* and their classes (labels/compute.py, labels/quantiles.py), as a label  *)
(* run computes and validates them (labels/pipeline.py), once per as_of    *)
(* date.                                                                   *)
(*                                                                         *)
(* Every run labels the whole history it can see, so a session is labelled *)
(* again on every later date, from closes that were adjusted again for the *)
(* corporate actions known by then.  The questions are whether a label,    *)
(* once published, can change, and what becomes of a session whose labels  *)
(* the validator refuses.                                                  *)
(*                                                                         *)
(* Sessions are numbered from 1 and are all open.  Isins are numbers, in   *)
(* the order of their codes.  A holding of one share on the first session  *)
(* is worth value[i][s] on session s; a consolidation with ex date e       *)
(* multiplies the raw price by Factor from e on.  Prices are whole and     *)
(* returns are compared as fractions: floating point is left out.          *)
(* Bound: LastSession.                                                     *)
(***************************************************************************)
EXTENDS Integers, FiniteSets

CONSTANTS Isin,          \* names, ordered as numbers
          LastSession,   \* bound: sessions 1 .. LastSession happen
          Horizon,       \* sessions from T to the end of its window
          Value,         \* what a holding can be worth
          Factor,        \* the price factor of a corporate action
          Config,        \* records of policy, top, bottom and pilot
          MaxMissing,    \* bound: rows missing from the whole history
          MaxSplits,     \* bound: corporate actions in the whole history
          None,          \* no row, or nothing published yet
          Refused        \* a run whose frame the validator refused

Session == 1 .. LastSession
Label == {"bullish", "bearish", "neutral"}

ASSUME LabelsAssumption ==
    /\ Isin \subseteq Nat /\ IsFiniteSet(Isin)
    /\ LastSession \in Nat /\ Horizon \in Nat \ {0}
    /\ Value \subseteq Nat \ {0} /\ Factor \in Nat \ {0}
    /\ \A c \in Config :
          /\ c.policy \in {"floor", "ceil", "nearest"}
          /\ c.top \in Nat \X Nat /\ c.top[2] > 0 /\ c.top[1] <= c.top[2]
          /\ c.bottom \in Nat \X Nat /\ c.bottom[2] > 0 /\ c.bottom[1] <= c.bottom[2]
          /\ c.pilot \subseteq Isin
    /\ None \notin Value /\ None # Refused
    /\ \A rows \in SUBSET (Isin \X Session) :
          None \notin [rows -> Label] /\ Refused \notin [rows -> Label]

VARIABLES config,      \* the labels section of the configuration
          value,       \* [Isin -> [Session -> Value or None]]
          exDates,     \* [Isin -> SUBSET Session], the corporate actions
          asOf,        \* the last session that has been ingested
          pc,          \* "idle", "assign", "validate"
          forward,     \* the rows <<isin, session>> with a forward return
          frame,       \* their labels, one session after the other
          published    \* as_of -> frame, Refused or None

vars == <<config, value, exDates, asOf, pc, forward, frame, published>>

NoRows == {}
Rows(f) == DOMAIN f

-----------------------------------------------------------------------------
(* Closes.                                                                 *)

FactorPower[n \in Nat] == IF n = 0 THEN 1 ELSE Factor * FactorPower[n - 1]

\* The close the exchange printed.
CloseRaw(i, s) ==
    value[i][s] * FactorPower[Cardinality({e \in exDates[i] : e <= s})]

CumulativeFactorOnDay(i, s) ==                       \* Mutant: >= for >
    FactorPower[Cardinality({e \in exDates[i] : e >= s})]

\* Every later action is applied to an earlier close, not the one of its day.
CumulativeFactor(i, s) ==
    FactorPower[Cardinality({e \in exDates[i] : e > s})]

CloseAdj(i, s) == CloseRaw(i, s) * CumulativeFactor(i, s)

-----------------------------------------------------------------------------
(* Forward returns, as fractions <<close at T + H, close at T>>.           *)

WindowEnd(t) == t + Horizon

\* session_after finds nothing beyond the last session up to as_of.
Known(t) == WindowEnd(t) <= asOf

HasRow(i, s) == value[i][s] # None

ForwardRowsBefore ==                                 \* Mutant: t_h >= cutoff
    {r \in Isin \X (1 .. asOf) :
        /\ WindowEnd(r[2]) < asOf
        /\ HasRow(r[1], r[2])
        /\ HasRow(r[1], WindowEnd(r[2]))}

ForwardRows ==
    {r \in Isin \X (1 .. asOf) :
        /\ Known(r[2])
        /\ HasRow(r[1], r[2])
        /\ HasRow(r[1], WindowEnd(r[2]))}

\* Mutant: an action beyond the window enters its return.
ForwardReturnUnadjusted(r) ==
    <<CloseRaw(r[1], WindowEnd(r[2])), CloseAdj(r[1], r[2])>>

ForwardReturn(r) ==
    <<CloseAdj(r[1], WindowEnd(r[2])), CloseAdj(r[1], r[2])>>

Above(p, q) == p[1] * q[2] > q[1] * p[2]
Tied(p, q) == p[1] * q[2] = q[1] * p[2]

-----------------------------------------------------------------------------
(* Class sizes.                                                            *)

Floor(n, d) == n \div d
Ceil(n, d) == (n + d - 1) \div d

\* round() of Python: a half goes to the even neighbour.
Nearest(n, d) ==
    IF 2 * (n % d) = d
    THEN (n \div d) + ((n \div d) % 2)
    ELSE (2 * n + d) \div (2 * d)

CutSize(n, quantile) ==
    LET num == n * quantile[1]
        den == quantile[2]
    IN  CASE config.policy = "floor" -> Floor(num, den)
          [] config.policy = "ceil" -> Ceil(num, den)
          [] config.policy = "nearest" -> Nearest(num, den)

TopSize(n) == CutSize(n, config.top)

BottomSizeUnshrunk(n) == CutSize(n, config.bottom)   \* Mutant: no shrink

\* The bottom gives way when the two cuts are more than there is.
BottomSize(n) ==
    IF TopSize(n) + CutSize(n, config.bottom) > n
    THEN n - TopSize(n)
    ELSE CutSize(n, config.bottom)

-----------------------------------------------------------------------------
(* Classes of one session.                                                 *)

\* An empty list of pilot names means every name.
Allowed == IF config.pilot = {} THEN Isin ELSE config.pilot

Cross(t) == {r \in forward : r[2] = t /\ r[1] \in Allowed}

\* How many rows come before r by descending return, then isin.
PlaceFromTop(rows, r) ==
    Cardinality({q \in rows :
        \/ Above(ForwardReturn(q), ForwardReturn(r))
        \/ Tied(ForwardReturn(q), ForwardReturn(r)) /\ q[1] < r[1]})

\* The same by ascending return, then isin.
PlaceFromBottom(rows, r) ==
    Cardinality({q \in rows :
        \/ Above(ForwardReturn(r), ForwardReturn(q))
        \/ Tied(ForwardReturn(q), ForwardReturn(r)) /\ q[1] < r[1]})

\* Bearish is written first and bullish over it.
ClassOf(rows, r) ==
    LET n == Cardinality(rows)
    IN  IF PlaceFromTop(rows, r) < TopSize(n) THEN "bullish"
        ELSE IF PlaceFromBottom(rows, r) < BottomSize(n) THEN "bearish"
        ELSE "neutral"

-----------------------------------------------------------------------------
(* The steps.                                                              *)

LabelsInit ==
    /\ config \in Config
    /\ value = [i \in Isin |-> [s \in Session |-> None]]
    /\ exDates = [i \in Isin |-> {}]
    /\ asOf = 0
    /\ pc = "idle"
    /\ forward = NoRows
    /\ frame = [r \in NoRows |-> "neutral"]
    /\ published = [s \in Session |-> None]

MissingUpTo(s, val) ==
    Cardinality({r \in Isin \X (1 .. s) : val[r[1]][r[2]] = None})

\* The market: one more session, with the corporate actions of its day.
NewSession ==
    /\ pc = "idle"
    /\ asOf < LastSession
    /\ asOf > 0 => published[asOf] # None
    /\ asOf' = asOf + 1
    /\ \E today \in [Isin -> Value \union {None}] :
          /\ value' = [i \in Isin |-> [value[i] EXCEPT ![asOf + 1] = today[i]]]
          /\ MissingUpTo(asOf + 1, value') <= MaxMissing
    /\ \E acted \in SUBSET Isin :
          /\ exDates' = [i \in Isin |-> IF i \in acted
                                       THEN exDates[i] \union {asOf + 1}
                                       ELSE exDates[i]]
          /\ Cardinality({r \in Isin \X Session : r[2] \in exDates'[r[1]]})
                <= MaxSplits
    /\ UNCHANGED <<config, pc, forward, frame, published>>

ComputeForwardReturns ==
    /\ pc = "idle"
    /\ asOf > 0 /\ published[asOf] = None
    /\ forward' = ForwardRows
    /\ frame' = [r \in NoRows |-> "neutral"]
    /\ pc' = "assign"
    /\ UNCHANGED <<config, value, exDates, asOf, published>>

\* The sessions still to be labelled; rows of other names are dropped.
ToAssign == {t \in Session : Cross(t) # {} /\ ~ Cross(t) \subseteq Rows(frame)}

AssignSession ==
    /\ pc = "assign"
    /\ \E t \in ToAssign :
          /\ \A u \in ToAssign : t <= u
          /\ frame' = [r \in Rows(frame) \union Cross(t) |->
                          IF r \in Cross(t) THEN ClassOf(Cross(t), r)
                                            ELSE frame[r]]
    /\ UNCHANGED <<config, value, exDates, asOf, pc, forward, published>>

AssignDone ==
    /\ pc = "assign"
    /\ ToAssign = {}
    /\ pc' = "validate"
    /\ UNCHANGED <<config, value, exDates, asOf, forward, frame, published>>

\* The rows of a session must count as the cut sizes say.
CountsOk(t) ==
    LET rows == {r \in Rows(frame) : r[2] = t}
        n == Cardinality(rows)
        Count(label) == Cardinality({r \in rows : frame[r] = label})
    IN  Count("bullish") = TopSize(n) /\ Count("bearish") = BottomSize(n)

\* Mutant: only the last session is validated.
ValidLastSession ==
    \A r \in Rows(frame) :
        (\A q \in Rows(frame) : q[2] <= r[2]) => CountsOk(r[2])

ValidLabelFrame == \A r \in Rows(frame) : CountsOk(r[2])

\* A frame without rows is published too.
Validate ==
    /\ pc = "validate"
    /\ published' = [published EXCEPT
           ![asOf] = IF ValidLabelFrame THEN frame ELSE Refused]
    /\ pc' = "idle"
    /\ forward' = NoRows
    /\ frame' = [r \in NoRows |-> "neutral"]
    /\ UNCHANGED <<config, value, exDates, asOf>>

\* The bound: all sessions have happened and were labelled.
HistoryEnds ==
    /\ pc = "idle" /\ asOf = LastSession
    /\ asOf > 0 => published[asOf] # None
    /\ UNCHANGED vars

LabelsNext ==
    \/ NewSession
    \/ ComputeForwardReturns
    \/ AssignSession
    \/ AssignDone
    \/ Validate
    \/ HistoryEnds

LabelsSpec == LabelsInit /\ [][LabelsNext]_vars

-----------------------------------------------------------------------------
(* Properties.                                                             *)

IsRefused(a) == published[a] = Refused
Frame(a) == IF published[a] \in {None, Refused} THEN [r \in {} |-> None]
            ELSE published[a]

\* A label, once published, is what every later run publishes for the same
\* name and session, although that run labels again from closes adjusted again
\* (build_l1_equity_eod, compute_forward_returns).
LabelsAreStable ==
    \A a, b \in Session :
        a < b /\ ~ IsRefused(a) /\ ~ IsRefused(b) /\ published[b] # None
            => \A r \in Rows(Frame(a)) :
                  r \in Rows(Frame(b)) /\ Frame(b)[r] = Frame(a)[r]

\* A published frame has a row for every window that is over on its date and
\* priced at both ends, and none for a window that is not over: the label of T
\* needs T + H (compute_forward_returns).
WindowsAreKnownAndComplete ==
    \A a \in Session :
        published[a] \notin {None, Refused}
            => Rows(Frame(a)) =
                  {r \in Isin \X Session :
                      /\ r[1] \in Allowed
                      /\ WindowEnd(r[2]) <= a
                      /\ HasRow(r[1], r[2]) /\ HasRow(r[1], WindowEnd(r[2]))}

Worth(r) == <<value[r[1]][WindowEnd(r[2])], value[r[1]][r[2]]>>

\* What a holder earned decides the class: no name of a session did better than
\* a bullish one without being bullish, none worse than a bearish one without
\* being bearish, whatever corporate actions fell into or after the window
\* (build_l1_equity_eod, assign_labels).
ClassesFollowHoldings ==
    \A a \in Session : \A r, q \in Rows(Frame(a)) :
        r[2] = q[2] /\ Above(Worth(q), Worth(r))
            => /\ Frame(a)[r] = "bullish" => Frame(a)[q] = "bullish"
               /\ Frame(a)[q] = "bearish" => Frame(a)[r] = "bearish"

\* A run is refused only for a session in which two names tie: the cuts alone
\* never overlap, whatever the policy and however few names there are
\* (top_bottom_sizes).
RefusedOnlyOnTies ==
    \A a \in Session :
        IsRefused(a) =>
            \E r, q \in Isin \X Session :
                /\ r[2] = q[2] /\ r[1] # q[1]
                /\ WindowEnd(r[2]) <= a
                /\ \A p \in {r, q} :
                      HasRow(p[1], p[2]) /\ HasRow(p[1], WindowEnd(p[2]))
                /\ Tied(Worth(r), Worth(q))

\* One refused session refuses every later run: the whole history is validated
\* each time and nothing of it can be published (validate_label_frame).
RefusalIsForGood ==
    \A a, b \in Session :
        a < b /\ IsRefused(a) /\ published[b] # None => IsRefused(b)
=============================================================================
