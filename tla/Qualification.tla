---------------------------- MODULE Qualification ----------------------------
(* The directional strategy on one stock: the CE and PE condition sets and the class they make together
   (qualification.py), and the screener that scores the same stock when a signal is evaluated (screener.py).  A snapshot
   is a record of

     range, priorRanges           today's high - low, and those of the previous sessions
     open, close, prevClose       of the daily candles
     weekOpen, monthOpen          the close of the running week and month is today's close: both frames are resampled
                                  from the daily one
     sma20, sma50                 of the daily closes
     last15                       the close of the 15-minute candle the caller chose
     liquid                       whether yesterday's volume is above MIN_VOLUME

   Only the order of the prices matters to a condition, so they are small integers. *)
EXTENDS Integers, FiniteSets

CONSTANT MinPrice      \* MIN_PRICE
ASSUME PriceAssumption == MinPrice \in Int

Directions == {"CE", "PE"}
NearQualifiedMaxFailures == 2

\* A bug to compare with: an unchanged price agrees with both directions.
BeatsOrEquals(direction, x, y) == IF direction = "CE" THEN x >= y ELSE x <= y
\* The comparison of every directional condition: mirrored for PE, and strict in both.
Beats(direction, x, y) == IF direction = "CE" THEN x > y ELSE x < y

\* The previous sessions today's range does not exceed: one condition each, the same for both directions.
RangesNotExceeded(s) == {i \in DOMAIN s.priorRanges : ~(s.range > s.priorRanges[i])}

\* A bug to compare with: the month's direction is compared as for CE whatever the direction.
DirectionalMonthUnmirrored(direction, s) ==
  [CLOSE_VS_OPEN |-> Beats(direction, s.close, s.open),
   CLOSE_VS_PREV_CLOSE |-> Beats(direction, s.close, s.prevClose),
   WEEKLY_DIRECTION |-> Beats(direction, s.close, s.weekOpen),
   MONTHLY_DIRECTION |-> Beats("CE", s.close, s.monthOpen),
   SMA_TREND |-> Beats(direction, s.sma20, s.sma50),
   INTRADAY_15M |-> Beats(direction, s.last15, s.prevClose)]
Directional(direction, s) ==
  [CLOSE_VS_OPEN |-> Beats(direction, s.close, s.open),
   CLOSE_VS_PREV_CLOSE |-> Beats(direction, s.close, s.prevClose),
   WEEKLY_DIRECTION |-> Beats(direction, s.close, s.weekOpen),
   MONTHLY_DIRECTION |-> Beats(direction, s.close, s.monthOpen),
   SMA_TREND |-> Beats(direction, s.sma20, s.sma50),
   INTRADAY_15M |-> Beats(direction, s.last15, s.prevClose)]

\* The mandatory filters, the same for both directions.
Shared(s, eligible) ==
  [VOLUME_FLOOR |-> s.liquid, PRICE_FLOOR |-> s.close > MinPrice, FUTURES_ELIGIBLE |-> eligible]

Unmet(conditions) == {c \in DOMAIN conditions : ~conditions[c]}

Failures(direction, s, eligible) ==
  Cardinality(RangesNotExceeded(s)) + Cardinality(Unmet(Directional(direction, s))) + Cardinality(Unmet(Shared(s, eligible)))

Qualifies(direction, s, eligible) == Failures(direction, s, eligible) = 0

\* ce and pe: the failed conditions of either side.
Classify(ce, pe) ==
  IF ce = 0 /\ pe = 0 THEN "DATA_CONFLICT"
  ELSE IF ce = 0 THEN "CE_QUALIFIED"
  ELSE IF pe = 0 THEN "PE_QUALIFIED"
  ELSE IF ce <= NearQualifiedMaxFailures /\ ce <= pe THEN "NEAR_CE"
  ELSE IF pe <= NearQualifiedMaxFailures THEN "NEAR_PE" ELSE "NOT_QUALIFIED"

ClassOf(s) == Classify(Failures("CE", s, TRUE), Failures("PE", s, TRUE))

------------------------------------------------------------------------------
(* The screener: its own reading of the same conditions, one of them for all ranges.  It takes the newest 15-minute
   candle, finished or not, so its last15 is today's last price. *)

ScreenerChecks(direction, s) ==
  [range |-> \A i \in DOMAIN s.priorRanges : s.range > s.priorRanges[i],
   open |-> Beats(direction, s.close, s.open),
   prevClose |-> Beats(direction, s.close, s.prevClose),
   week |-> Beats(direction, s.close, s.weekOpen),
   month |-> Beats(direction, s.close, s.monthOpen),
   volume |-> s.liquid,
   sma |-> Beats(direction, s.sma20, s.sma50),
   intraday |-> Beats(direction, s.close, s.prevClose),
   price |-> s.close > MinPrice]
=============================================================================
