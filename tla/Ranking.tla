------------------------------ MODULE Ranking ------------------------------
(***************************************************************************)
(* From a feature panel to rank rows and from rank rows to the rank frame  *)
(* (src/stock_engine: models/scorer.py, ranking.py, risk_confidence.py,    *)
(* score_row.py, the symbol map of models/io.py, inference/pipeline.py,    *)
(* inference/validate.py): pure definitions with exact arithmetic.  A head *)
(* gives a probability in units of 1 / Unit; scores are compared only, so  *)
(* each is scaled by a constant that makes it whole.                       *)
(***************************************************************************)
EXTENDS FeatureFrame

CONSTANTS Unit,         \* a probability is p / Unit, with p in 0..Unit
          RiskWeight,   \* modeling.risk_weight, in units of
          WeightUnit    \* 1 / WeightUnit

ASSUME RankingAssumption ==
    Unit \in Nat \ {0} /\ RiskWeight \in Nat /\ WeightUnit \in Nat \ {0}

-----------------------------------------------------------------------------
(* risk_confidence.py                                                      *)

\* Whole: the percentile 1.0.  It is divided by the rows of a frame.
Whole == 12

\* rank(pct=True, method="average") of row r in a column, which has a value in the
\* rows of its domain; 0.5 for a row without one.
PctRank(column, r) ==
    LET rows == DOMAIN column
        below == Cardinality({s \in rows : column[s] < column[r]})
        level == Cardinality({s \in rows : column[s] = column[r]})
    IN  IF r \in rows THEN ((2 * below + level + 1) * Whole) \div (2 * Cardinality(rows))
                      ELSE Whole \div 2

\* The rank in volatility: higher is riskier.
VolPart(frame, n, level, r) ==
    PctRank([s \in {f \in frame : n \in f.vol} |-> level[s.isin].vol], r)

\* 1 minus the rank in liquidity: lower is riskier.
LiqPart(frame, n, level, r) ==
    Whole - PctRank([s \in {f \in frame : n \in f.liq} |-> level[s.isin].liq], r)

\* Risk 1.0: a part in volatility and one in liquidity for every window.
FullRisk == 2 * Cardinality(Windows) * Whole

\* heuristic_risk, in units of 1 / FullRisk: the sum of the parts, counted.
HeuristicRisk(frame, level, r) ==
    Cardinality(UNION {{n} \X (1 .. VolPart(frame, n, level, r) + LiqPart(frame, n, level, r)) :
                          n \in Windows})

AbsDiff(x, y) == IF x < y THEN y - x ELSE x - y

\* Mutant: the margin between the probabilities only, without the stronger one.
ConfidenceOfMargin(bullish, bearish) == AbsDiff(bullish, bearish)

\* heuristic_confidence, in units of 1 / (2 * Unit): half margin, half strength.
HeuristicConfidence(bullish, bearish) ==
    AbsDiff(bullish, bearish) + (IF bullish < bearish THEN bearish ELSE bullish)

-----------------------------------------------------------------------------
(* ranking.py, score_row.py, scorer.py                                     *)

\* score_long and score_short, for the head's own probability.
Score(p, confidence, risk) == p * confidence * (WeightUnit * FullRisk - RiskWeight * risk)

\* score_row builds a frame of the one row it is given.
RiskFrame(panel, r) == {r}

\* What score_row returns for a row of the panel.
ScoreRow(panel, r, model) ==
    LET head == model.heads[r.isin]
        risk == HeuristicRisk(RiskFrame(panel, r), model.level, r)
        confidence == HeuristicConfidence(head.bullish, head.bearish)
    IN  [isin |-> r.isin, bullish |-> head.bullish, bearish |-> head.bearish, risk |-> risk,
         long |-> Score(head.bullish, confidence, risk),
         short |-> Score(head.bearish, confidence, risk)]

\* The rank of row r after a sort by score, descending, then isin.
RankBy(score, r) ==
    1 + Cardinality({s \in DOMAIN score : \/ score[s] > score[r]
                                          \/ score[s] = score[r] /\ s.isin < r.isin})

\* load_symbol_map_from_l1, of the file it takes: drop_duplicates keeps the first row
\* of a name, and rows are in the order of their sessions.
SymbolMap(equity) ==
    LET rows == {r \in equity : r.symbol # Null}
    IN  [i \in {r.isin : r \in rows} |->
            (CHOOSE r \in rows : /\ r.isin = i
                                 /\ \A s \in rows : s.isin = i => r.session <= s.session).symbol]

\* score_features_to_rank_rows: a RankRow names its security by symbol only.
RankRows(frame, session, model, symbols) ==
    LET panel == {r \in frame : r.session = session}
        scores == {ScoreRow(panel, r, model) : r \in panel}
    IN  {[symbol |-> IF s.isin \in DOMAIN symbols THEN symbols[s.isin] ELSE s.isin,
          scored |-> s.isin,      \* the isin column of the panel, not a part of the RankRow
          bullish |-> s.bullish, bearish |-> s.bearish, risk |-> s.risk,
          rankLong |-> RankBy([x \in scores |-> x.long], s),
          rankShort |-> RankBy([x \in scores |-> x.short], s)] : s \in scores}

-----------------------------------------------------------------------------
(* inference/pipeline.py, inference/validate.py                            *)

\* {v: k for k, v in isin_to_symbol.items()}: of the ISINs that share a symbol
\* the last one stays.
IsinOf(symbols, symbol) ==
    LET sharing == {i \in DOMAIN symbols : symbols[i] = symbol}
    IN  IF sharing = {} THEN symbol ELSE CHOOSE i \in sharing : \A j \in sharing : j <= i

\* _rank_rows_to_frame.
RankFrame(rows, symbols) ==
    {[isin |-> IsinOf(symbols, r.symbol), symbol |-> r.symbol, scored |-> r.scored,
      bullish |-> r.bullish, bearish |-> r.bearish, risk |-> r.risk,
      rankLong |-> r.rankLong, rankShort |-> r.rankShort] : r \in rows}

RankKey(r) == r.isin

\* Mutant: only the ranks are looked at.
ValidRanksOnly(frame) ==
    /\ frame # {}
    /\ {r.rankLong : r \in frame} = 1..Cardinality(frame)
    /\ {r.rankShort : r \in frame} = 1..Cardinality(frame)

\* validate_rank_frame, for one session, horizon and model version.
ValidRankFrame(frame) ==
    /\ frame # {}
    /\ ~Twice([r \in frame |-> RankKey(r)])
    /\ {r.rankLong : r \in frame} = 1..Cardinality(frame)
    /\ {r.rankShort : r \in frame} = 1..Cardinality(frame)

=============================================================================
