------------------------------ MODULE StockScan ------------------------------
(* One stock of a scan (evaluate_stock and gather_snapshot of qualification.py, called by scanner.py) while the market
   moves: the daily candles and the 15-minute candles are two requests, from the user's broker or from the free source,
   and the clock is read between them.

   Time is counted in parts of a 15-minute candle, CandleTicks to a candle; candle k begins at CandleTicks * k. *)
EXTENDS Qualification, Sequences

CONSTANTS Prices,        \* the prices a stock can have
          Stocks,        \* what does not move while it is scanned: records of the fields of a snapshot
          CandleTicks,   \* the length of a 15-minute candle
          MaxTicks       \* bound: how long the market is followed

StockRecords == [range : Int, priorRanges : Seq(Int), open : Prices, prevClose : Prices, weekOpen : Prices,
                 monthOpen : Prices, sma20 : Prices, sma50 : Prices, liquid : BOOLEAN, eligible : BOOLEAN]
ASSUME ScanAssumption == /\ Prices \subseteq Int /\ \E l, h \in Prices : \A p \in Prices : l <= p /\ p <= h
                         /\ Stocks \subseteq StockRecords
                         /\ CandleTicks \in Nat \ {0} /\ MaxTicks \in Nat

VARIABLES stock,     \* the settled part of the stock's candles
          closes,    \* the closes of the 15-minute candles so far, the last one still forming
          ticks,     \* the time
          scan       \* the evaluation: where it is and what it has read

vars == <<stock, closes, ticks, scan>>

NoScan == [at |-> "idle", close |-> 0, now |-> 0, fetched |-> 0, candles |-> 0,
           last15 |-> 0, candle |-> 0, class |-> "none"]

LastPrice == closes[Len(closes)]
Begin(k) == CandleTicks * k
Forming == ticks \div CandleTicks

\* A stock may have no earlier 15-minute candle than the one that is forming.
Init == /\ stock \in Stocks
        /\ \E first \in {0, 1} : /\ ticks = Begin(first)
                                 /\ closes \in [1..first + 1 -> Prices]
        /\ scan = NoScan

\* The market moves: the price within a candle, or the first price of the next one.
Tick == /\ ticks < MaxTicks /\ scan.at # "done"
        /\ ticks' = ticks + 1
        /\ \E price \in Prices :
             closes' = IF (ticks + 1) \div CandleTicks = Forming THEN [closes EXCEPT ![Len(closes)] = price]
                       ELSE Append(closes, price)
        /\ UNCHANGED <<stock, scan>>

\* Not in the futures segment: no data is fetched.
RefuseIneligible == /\ scan.at = "idle" /\ ~stock.eligible
                    /\ scan' = [scan EXCEPT !.at = "done", !.class = "DATA_UNAVAILABLE"]
                    /\ UNCHANGED <<stock, closes, ticks>>

\* The daily candles, whose last one closes at the last price; the clock is read once they are checked.
FetchDaily == /\ scan.at = "idle" /\ stock.eligible
              /\ scan' = [scan EXCEPT !.at = "daily", !.close = LastPrice, !.now = ticks]
              /\ UNCHANGED <<stock, closes, ticks>>

\* Either request fails, or returns too few or stale candles.
DataUnavailable == /\ scan.at \in {"idle", "daily"} /\ stock.eligible
                   /\ scan' = [scan EXCEPT !.at = "done", !.class = "DATA_UNAVAILABLE"]
                   /\ UNCHANGED <<stock, closes, ticks>>

\* A bug to compare with: the newest candle is taken as it is.
NewestCandle(n, now) == n
\* The newest candle, or the one before it while the newest is still forming; numbered from 1.
LatestCompleted(n, now) == IF now - Begin(n - 1) < CandleTicks /\ n >= 2 THEN n - 1 ELSE n

\* The 15-minute candles, from the source of the daily ones or else from the free one.
FetchIntraday ==
  /\ scan.at = "daily"
  /\ scan' = [scan EXCEPT !.at = "evaluate", !.fetched = ticks, !.candles = Len(closes),
                          !.candle = LatestCompleted(Len(closes), scan.now),
                          !.last15 = closes[LatestCompleted(Len(closes), scan.now)]]
  /\ UNCHANGED <<stock, closes, ticks>>

Snapshot ==
  [range |-> stock.range, priorRanges |-> stock.priorRanges, open |-> stock.open, close |-> scan.close,
   prevClose |-> stock.prevClose, weekOpen |-> stock.weekOpen, monthOpen |-> stock.monthOpen, sma20 |-> stock.sma20,
   sma50 |-> stock.sma50, last15 |-> scan.last15, liquid |-> stock.liquid]

EvaluateStock == /\ scan.at = "evaluate"
                 /\ scan' = [scan EXCEPT !.at = "done", !.class = ClassOf(Snapshot)]
                 /\ UNCHANGED <<stock, closes, ticks>>

Next == Tick \/ RefuseIneligible \/ FetchDaily \/ DataUnavailable \/ FetchIntraday \/ EvaluateStock
Spec == Init /\ [][Next]_vars

------------------------------------------------------------------------------
(* Properties *)

Evaluated == scan.at = "done" /\ scan.class # "DATA_UNAVAILABLE"

\* A stock never qualifies for both sides, however its prices stand and although its two reads are of different moments
\* (qualification.py:6-8): the class is never DATA_CONFLICT, and next to a class that leans to one side the other side
\* fails more conditions than a near miss may.
OneSideOnly ==
  Evaluated =>
    /\ scan.class # "DATA_CONFLICT"
    /\ scan.class \in {"CE_QUALIFIED", "NEAR_CE"} => Failures("PE", Snapshot, TRUE) > NearQualifiedMaxFailures
    /\ scan.class \in {"PE_QUALIFIED", "NEAR_PE"} => Failures("CE", Snapshot, TRUE) > NearQualifiedMaxFailures

Lowest == CHOOSE p \in Prices : \A q \in Prices : p <= q
Highest == CHOOSE p \in Prices : \A q \in Prices : q <= p
\* The same stock in a mirror: every price at the other side of the middle.  Sessions and volumes do not turn.
Mirror(s) ==
  LET turned(price) == Lowest + Highest - price
  IN [range |-> s.range, priorRanges |-> s.priorRanges, open |-> turned(s.open), close |-> turned(s.close),
      prevClose |-> turned(s.prevClose), weekOpen |-> turned(s.weekOpen), monthOpen |-> turned(s.monthOpen),
      sma20 |-> turned(s.sma20), sma50 |-> turned(s.sma50), last15 |-> turned(s.last15), liquid |-> s.liquid]
OtherSide == [CE_QUALIFIED |-> "PE_QUALIFIED", PE_QUALIFIED |-> "CE_QUALIFIED", NEAR_CE |-> "NEAR_PE",
              NEAR_PE |-> "NEAR_CE", NOT_QUALIFIED |-> "NOT_QUALIFIED", DATA_CONFLICT |-> "DATA_CONFLICT"]

\* The two sides are each other's mirror: above the price floor a stock and its mirror image get opposite classes, so
\* that the preference for CE among equals never decides (qualification.py:228-311).
SidesMirror ==
  Evaluated /\ Snapshot.close > MinPrice /\ Mirror(Snapshot).close > MinPrice =>
    ClassOf(Mirror(Snapshot)) = OtherSide[scan.class]

\* The 15-minute close that confirms a stock is of a candle that was finished when it was read, unless the stock has no
\* other, and of no candle older than the last one finished when the clock was read (qualification.py:175-183).
ConfirmedByClosedCandle ==
  scan.at = "evaluate" /\ scan.candles >= 2 =>
    /\ Begin(scan.candle) <= scan.fetched
    /\ Begin(scan.candle + 1) > scan.now

QualifiedAs == [CE |-> "CE_QUALIFIED", PE |-> "PE_QUALIFIED"]
\* The screener confirms what the scanner found: the signal of a qualified stock, evaluated while its daily candle is
\* still the one the scan saw, passes every check of its direction although the two were written apart and read
\* different 15-minute candles (screener.py:27-97, qualification.py:211-291).
ScreenerConfirms ==
  Evaluated => \A direction \in Directions :
    scan.class = QualifiedAs[direction] => Unmet(ScreenerChecks(direction, Snapshot)) = {}
=============================================================================
