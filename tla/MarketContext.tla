---------------------------- MODULE MarketContext ----------------------------
(* What the nightly job computes from the universe's daily closes, and what a lookup makes of it (market_context.py).
   The closes of a symbol are a record of the figures the code takes from them first:

     long      whether there are the MIN_BARS the job asks for
     ret       the blended return over 3 to 12 months, as a whole number that orders the universe
     ext       the price against its 30-week average: the sign of the extension
     slope     of that average: the sign, 0 within the band that counts as flat *)
EXTENDS Scoring, FiniteSets

CONSTANTS Sector,        \* the universe's sector of a symbol, or Unavailable
          MinRanked      \* the rows below which the job saves nothing (30)

Stage(c) == IF c.ext > 0 THEN (IF c.slope > 0 THEN 2 ELSE 3) ELSE IF c.slope < 0 THEN 4 ELSE 1

\* A bug to compare with: the ties of a return are counted in full.
PercentileOfTies(returns, s) ==
  LET n     == Cardinality(DOMAIN returns)
      below == Cardinality({t \in DOMAIN returns : returns[t] <= returns[s]})
  IN  IF n = 1 THEN 50 ELSE 1 + Rounded(98 * below, n - 1)
\* percentile_ranks: 1 to 99, ties share the middle of their places.
Percentile(returns, s) ==
  LET n     == Cardinality(DOMAIN returns)
      below == Cardinality({t \in DOMAIN returns : returns[t] < returns[s]})
      equal == Cardinality({t \in DOMAIN returns : returns[t] = returns[s]})
      place == Rounded(2 * (n - 1) + 98 * (2 * below + equal - 1), 2 * (n - 1))
  IN  IF n = 1 THEN 50 ELSE IF place < 1 THEN 1 ELSE IF place > 99 THEN 99 ELSE place

\* regime_for, of a breadth in tenths of a percent.
Regime(breadth) == IF breadth >= 600 THEN "bullish" ELSE IF breadth < 400 THEN "bearish" ELSE "neutral"

\* The rows of compute_context: the symbols with too little history are skipped.
Ranked(closes) ==
  LET returns == [s \in {t \in DOMAIN closes : closes[t].long} |-> closes[s].ret]
  IN  {[symbol |-> s, rs |-> Percentile(returns, s), stage |-> Stage(closes[s]), ext |-> closes[s].ext] : s \in DOMAIN returns}

\* The rank at a place of the rows sorted by rank.
RankAt(rows, place) ==
  CHOOSE rank \in {r.rs : r \in rows} :
    /\ Cardinality({r \in rows : r.rs < rank}) < place
    /\ place <= Cardinality({r \in rows : r.rs <= rank})

\* statistics.median of the ranks of a sector's rows, rounded; a sector of fewer than three has none.
SectorRank(rows, sector) ==
  LET mine == {r \in rows : Sector[r.symbol] = sector}
      n    == Cardinality(mine)
  IN  IF n < 3 THEN Unavailable
      ELSE IF n % 2 = 1 THEN RankAt(mine, (n + 1) \div 2) ELSE Rounded(RankAt(mine, n \div 2) + RankAt(mine, n \div 2 + 1), 2)

\* ... and its summary: the breadth of the market, and the strength of each sector.
Summary(rows) ==
  LET n       == Cardinality(rows)
      breadth == IF n = 0 THEN 0 ELSE Rounded(1000 * Cardinality({r \in rows : r.ext > 0}), n)
  IN  [count     |-> n,
       breadth   |-> breadth,
       regime    |-> IF n = 0 THEN "neutral" ELSE Regime(breadth),
       sectors   |-> {[sector |-> Sector[s], rs |-> SectorRank(rows, Sector[s])] : s \in DOMAIN Sector}]

Enough(rows) == Cardinality(rows) >= MinRanked

\* context_for, of the row and the summary it read.
ContextOf(row, latest) ==
  [stage |-> row.stage, rs |-> row.rs, regime |-> latest.regime,
   sector_rs |-> IF Sector[row.symbol] = Unavailable THEN Unavailable
                 ELSE (CHOOSE e \in latest.sectors : e.sector = Sector[row.symbol]).rs]
=============================================================================
