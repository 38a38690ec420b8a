------------------------------- MODULE Scoring -------------------------------
(* The score of a signal (scoring.py): points per factor out of a maximum, their percentage and the verdict.  What the
   other modules of the program found out about the stock is a record of SignalFacts:

     tech        trend, breakout, volume (a ratio, in hundredths), rsi, rel (the sign of the 10-day strength against the
                 Nifty)
     oi          the change in open interest at the strike
     news        the label of the headlines
     stock       tier and rel (the sign of the strength against the sector)
     market      stage, rs, sector_rs and regime: the nightly context
     screener    passed and total
     entry, sl, target   of the signal *)
EXTENDS Integers

CONSTANT Unavailable

Maybe(S) == S \cup {Unavailable}
Signs == {-1, 0, 1}
Technicals == [trend : {"up", "down", "mixed"}, breakout : {"up", "down", "none"}, volume : Nat, rsi : 0..100, rel : Maybe(Signs)]
StockInfo == [tier : {"large", "mid", "small", "unknown"}, rel : Maybe(Signs)]
ContextInfo == [stage : 1..4, rs : 0..100, sector_rs : Maybe(0..100), regime : {"bullish", "bearish", "neutral"}]
Screenings == {s \in [passed : Nat, total : Nat \ {0}] : s.passed <= s.total}
SignalFacts ==
  [tech : Maybe(Technicals), oi : Maybe(Int), news : {"none", "positive", "negative", "neutral"}, stock : Maybe(StockInfo),
   market : Maybe(ContextInfo), screener : Maybe(Screenings), entry : Int, sl : Maybe(Int), target : Maybe(Int)]

ASSUME UnavailableAssumption == Unavailable \notin Int \cup Technicals \cup StockInfo \cup ContextInfo \cup Screenings

Directions == {"bullish", "bearish"}
Opposite(direction) == IF direction = "bullish" THEN "bearish" ELSE "bullish"

\* PE or a sale is a bearish call.
Direction(instrument, action) == IF instrument = "PE" \/ action = "sell" THEN "bearish" ELSE "bullish"

\* round(n / d): to the nearest whole number, a tie to the even one.
Rounded(n, d) ==
  LET whole == n \div d  rest == 2 * (n % d) IN IF rest > d \/ (rest = d /\ whole % 2 = 1) THEN whole + 1 ELSE whole

\* The side of a direction a trend, a breakout or a sign is on.
Favours(direction, way) == way = (IF direction = "bullish" THEN "up" ELSE "down")
SignFavours(direction, sign) == IF direction = "bullish" THEN sign > 0 ELSE sign < 0

TrendPoints(tech, direction) ==
  IF tech = Unavailable THEN 0
  ELSE IF Favours(direction, tech.trend) THEN 25 ELSE IF Favours(Opposite(direction), tech.trend) THEN 0 ELSE 10

BreakoutPoints(tech, direction) ==
  IF tech = Unavailable \/ ~Favours(direction, tech.breakout) THEN 0 ELSE IF tech.volume >= 150 THEN 20 ELSE 10

RsiPoints(tech, direction) ==
  IF tech = Unavailable THEN 0
  ELSE IF (IF direction = "bullish" THEN tech.rsi \in 45..70 ELSE tech.rsi \in 30..55) THEN 10 ELSE 3

StrengthPoints(tech, direction) ==
  IF tech # Unavailable /\ tech.rel # Unavailable /\ SignFavours(direction, tech.rel) THEN 10 ELSE 0

OptionsPoints(oi) == IF oi = Unavailable THEN 0 ELSE IF oi > 0 THEN 10 ELSE 4

NewsPoints(news, direction) ==
  IF news = "none" THEN 0
  ELSE IF news = "neutral" THEN 8
  ELSE IF (news = "positive") = (direction = "bullish") THEN 15 ELSE 3

TierPoints == [large |-> 8, mid |-> 5, small |-> 2, unknown |-> 0]
StockPoints(info, direction) ==
  IF info = Unavailable THEN 0
  ELSE TierPoints[info.tier] + (IF info.rel # Unavailable /\ SignFavours(direction, info.rel) THEN 7 ELSE 0)

\* market_cap_tier, in crores.
Tier(cap) ==
  IF cap = Unavailable \/ cap = 0 THEN "unknown" ELSE IF cap >= 20000 THEN "large" ELSE IF cap >= 5000 THEN "mid" ELSE "small"

\* A bug to compare with: the stage table of a bullish call, whatever the direction.
StagePointsOfBulls(stage, direction) == IF stage = 2 THEN 6 ELSE IF stage = 3 THEN 3 ELSE IF stage = 1 THEN 2 ELSE 0
StagePoints(stage, direction) ==
  IF stage = (IF direction = "bullish" THEN 2 ELSE 4) THEN 6 ELSE IF stage = 3 THEN 3 ELSE IF stage = 1 THEN 2 ELSE 0

Favourable(rank, direction) == IF direction = "bullish" THEN rank ELSE 100 - rank
RankPoints(rank) == IF rank >= 70 THEN 4 ELSE IF rank >= 50 THEN 3 ELSE IF rank >= 30 THEN 1 ELSE 0
SectorPoints(rank) == IF rank >= 60 THEN 3 ELSE IF rank >= 45 THEN 2 ELSE IF rank >= 30 THEN 1 ELSE 0

\* market_context_factor
ContextPoints(market, direction) ==
  StagePoints(market.stage, direction) + RankPoints(Favourable(market.rs, direction))
    + (IF market.sector_rs = Unavailable THEN 1 ELSE SectorPoints(Favourable(market.sector_rs, direction)))
    + (IF market.regime = direction THEN 2 ELSE IF market.regime = Opposite(direction) THEN 0 ELSE 1)
MarketPoints(market, direction) == IF market = Unavailable THEN 0 ELSE ContextPoints(market, direction)

ScreenerPoints(screener) == IF screener = Unavailable THEN 0 ELSE Rounded(20 * screener.passed, screener.total)

\* risk_reward: the stop has to be below the entry, whatever the direction.
HasRiskReward(signal) == signal.sl # Unavailable /\ signal.target # Unavailable /\ signal.entry > signal.sl
RiskRewardPoints(signal) ==
  IF ~HasRiskReward(signal) THEN 0
  ELSE LET risk == signal.entry - signal.sl
           gain == signal.target - signal.entry
           ratio == Rounded(100 * gain, risk)
       IN  IF ratio >= 200 THEN 10 ELSE IF ratio >= 100 THEN 5 ELSE 0

Points(facts, direction) ==
  TrendPoints(facts.tech, direction) + BreakoutPoints(facts.tech, direction) + RsiPoints(facts.tech, direction)
    + StrengthPoints(facts.tech, direction) + OptionsPoints(facts.oi) + NewsPoints(facts.news, direction)
    + StockPoints(facts.stock, direction) + MarketPoints(facts.market, direction) + ScreenerPoints(facts.screener)
    + RiskRewardPoints(facts)

\* A bug to compare with: the nightly context adds points and no maximum.
MaxPointsWithoutContext(facts) == 135
\* The nightly context counts only where there is one.
MaxPoints(facts) == IF facts.market = Unavailable THEN 135 ELSE 150

\* evaluate_signal: the percentage in tenths, and what the reader is told.
Score(facts, direction) == Rounded(1000 * Points(facts, direction), MaxPoints(facts))
Verdict(score) == IF score >= 700 THEN "strong" ELSE IF score >= 500 THEN "moderate" ELSE "weak"
=============================================================================
