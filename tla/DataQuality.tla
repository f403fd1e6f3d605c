---------------------------- MODULE DataQuality ----------------------------
(***************************************************************************)
(* What stands between the CSV files of data/incoming and the L1 frames    *)
(* (src/stock_engine/ingest: normalize.py, validate.py,                    *)
(* calendar_checks.py, the factors of adjust.py): pure definitions over    *)
(* files that are sets of rows.                                            *)
(*                                                                         *)
(* Data is abstracted to what the gates tell apart.  An ISIN is a number   *)
(* whose order is the alphabetical one, a session is its date, a symbol is *)
(* a model value and may be spelled in more than one way; a cell may be    *)
(* empty (Null) or unreadable (Bad).  "line" keeps two equal lines of a    *)
(* file apart.  Text columns behave as with the pandas of uv.lock          *)
(* (3.0.3): a missing text stays missing, and a calendar column of words   *)
(* is no longer of type object.                                            *)
(***************************************************************************)
EXTENDS Integers, FiniteSets

CONSTANTS Isin,         \* ISINs, in alphabetical order
          Spelling,     \* the texts of symbol cells
          Canonical,    \* Canonical[s]: s stripped and in upper case
          Session,      \* dates
          Lookback,     \* dq.missing_session_lookback, N
          Null, Bad     \* an empty cell, an unreadable one

ASSUME DataQualityAssumption ==
    /\ Isin \subseteq Nat /\ IsFiniteSet(Isin)
    /\ Session \subseteq Nat /\ IsFiniteSet(Session)
    /\ Canonical \in [Spelling -> Spelling]
    /\ Lookback \in Nat
    /\ Null # Bad /\ {Null, Bad} \cap (Nat \cup Spelling) = {}

Symbol == {Canonical[s] : s \in Spelling}

\* datasets.py, PRICE_RETURN_ACTION_TYPES, of which one stands for all.
AdjustingTypes == {"split"}

-----------------------------------------------------------------------------
(* normalize.py                                                            *)

\* pd.to_numeric and pd.to_datetime with errors="coerce".
Coerced(cell) == IF cell = Bad THEN Null ELSE cell

\* str.strip and str.upper leave a missing text missing.
Upper(text) == IF text = Null THEN Null ELSE Canonical[text]

NormalizeEquity(file) ==
    {[r EXCEPT !.symbol = Upper(@), !.session = Coerced(@), !.high = Coerced(@),
               !.low = Coerced(@), !.close = Coerced(@), !.volume = Coerced(@),
               !.value = Coerced(@)] : r \in file}

NormalizeActions(file) ==
    {[r EXCEPT !.exDate = Coerced(@), !.factor = Coerced(@), !.num = Coerced(@),
               !.den = Coerced(@)] : r \in file}

\* A column of words is neither of type object, which would map it, nor a
\* column of truth values: astype("boolean") raises.
CalendarRaises(file) == \E r \in file : r.isOpen \notin {"true", "false", Null}

NormalizeCalendar(file) == {[r EXCEPT !.session = Coerced(@)] : r \in file}

-----------------------------------------------------------------------------
(* validate.py.  A report is the set of the codes it fails with.           *)

Fail(code, condition) == IF condition THEN {code} ELSE {}

\* DataFrame.duplicated, of the key of every row: missing values are equal to each
\* other.
Twice(key) == \E r, s \in DOMAIN key : r # s /\ key[r] = key[s]

OhlcStructure(rows) ==
    Fail("ohlc_high_lt_low",
         \E r \in rows : r.high # Null /\ r.low # Null /\ r.high < r.low)
    \cup Fail("ohlc_close_outside",
              \E r \in rows : /\ r.high # Null /\ r.low # Null /\ r.close # Null
                              /\ r.close > r.high \/ r.close < r.low)
    \cup Fail("negative_volume", \E r \in rows : r.volume # Null /\ r.volume < 0)

EquityKey(r) == <<r.isin, r.session>>
SymbolKey(r) == <<r.symbol, r.session>>

\* Mutant: a price of zero is let through.
NegativeClose(rows) == \E r \in rows : r.close # Null /\ r.close < 0

NonPositiveClose(rows) == \E r \in rows : r.close # Null /\ r.close <= 0

ValidateEquity(rows) ==
    Fail("missing_isin", \E r \in rows : r.isin = Null)
    \cup Fail("missing_close", \E r \in rows : r.close = Null)
    \cup Fail("non_positive_close", NonPositiveClose(rows))
    \cup Fail("invalid_dates", \E r \in rows : r.session = Null)
    \cup Fail("duplicate_keys", Twice([r \in rows |-> EquityKey(r)]))
    \cup Fail("duplicate_symbols", Twice([r \in rows |-> SymbolKey(r)]))
    \cup OhlcStructure(rows)

\* A factor is a fraction, numerator and denominator.
ResolveFactor(r) ==
    IF r.factor # Null THEN <<r.factor, 1>>
    ELSE IF r.num # Null /\ r.den # Null /\ r.den # 0 THEN <<r.num, r.den>>
    ELSE Null

\* Mutant: a factor is asked for, not a positive one.
NoFactor(r) == ResolveFactor(r) = Null

LacksFactor(r) ==
    LET f == ResolveFactor(r) IN f = Null \/ f[1] * f[2] <= 0

ActionKey(r) == <<r.isin, r.exDate, r.type>>

ValidateActions(rows) ==
    Fail("missing_isin", \E r \in rows : r.isin = Null)
    \cup Fail("invalid_dates", \E r \in rows : r.exDate = Null)
    \cup Fail("missing_action_type", \E r \in rows : r.type = Null)
    \cup Fail("duplicate_keys", Twice([r \in rows |-> ActionKey(r)]))
    \cup Fail("missing_ca_factor",
              \E r \in rows : r.type \in AdjustingTypes /\ LacksFactor(r))

CalendarKey(r) == r.session

ValidateCalendar(rows) ==
    Fail("invalid_dates", \E r \in rows : r.session = Null)
    \cup Fail("missing_is_open", \E r \in rows : r.isOpen = Null)
    \cup Fail("duplicate_keys", Twice([r \in rows |-> CalendarKey(r)]))
    \cup Fail("no_open_sessions", \A r \in rows : r.isOpen # "true")

-----------------------------------------------------------------------------
(* calendar_checks.py                                                      *)

OpenSessions(calendar) == {r.session : r \in {c \in calendar : c.isOpen = "true"}}

\* Mutant: an off-by-one in the length of the lookback.
LastButOneOf(sessions, n) == {d \in sessions : Cardinality({e \in sessions : e >= d}) < n}

\* sessions[-n:]
LastOf(sessions, n) == {d \in sessions : Cardinality({e \in sessions : e > d}) < n}

Observed(equity, i) == {r.session : r \in {e \in equity : e.isin = i}}

\* Mutant: a name without a row on asOf is taken for delisted.
HardGapsOfListed(equity, calendar, asOf) ==
    LET recent == LastOf({d \in OpenSessions(calendar) : d <= asOf}, Lookback)
    IN  {gap \in {r.isin : r \in equity} \X recent :
            /\ gap[2] \notin Observed(equity, gap[1])
            /\ asOf \in Observed(equity, gap[1])
            /\ \E first \in Observed(equity, gap[1]) : first <= gap[2]}

\* detect_missing_sessions: the sessions among the last Lookback open ones up
\* to asOf that a name misses although it was seen before.
HardGaps(equity, calendar, asOf) ==
    LET recent == LastOf({d \in OpenSessions(calendar) : d <= asOf}, Lookback)
    IN  {gap \in {r.isin : r \in equity} \X recent :
            /\ gap[2] \notin Observed(equity, gap[1])
            /\ \E first \in Observed(equity, gap[1]) : first <= gap[2]}

NoMissingSessions(equity, calendar, asOf) ==
    /\ \E d \in OpenSessions(calendar) : d <= asOf
    /\ HardGaps(equity, calendar, asOf) = {}

-----------------------------------------------------------------------------
(* adjust.py                                                               *)

ResolvePriceFactor(r) ==
    IF r.factor # Null
    THEN IF r.factor > 0 THEN <<r.factor, 1>> ELSE Null
    ELSE IF r.num # Null /\ r.den # Null /\ r.den # 0 /\ r.num * r.den > 0
         THEN <<r.num, r.den>>
         ELSE Null

\* The events that adjust prices: rows without a factor are left out.
PriceEvents(actions) ==
    {r \in actions : r.type \in AdjustingTypes /\ ResolvePriceFactor(r) # Null}

=============================================================================
