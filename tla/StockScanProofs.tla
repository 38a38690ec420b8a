--------------------------- MODULE StockScanProofs ---------------------------
(* What StockScan keeps for any prices, stocks, and length of a candle: nothing qualifies for both sides, the sides mirror
   each other, the screener agrees, and the confirming candle was finished. *)
EXTENDS StockScan, TLAPS, FiniteSetTheorems

------------------------------------------------------------------------------
(* Counting conditions *)

SnapshotType == [range : Int, priorRanges : Seq(Int), open : Int, close : Int, prevClose : Int, weekOpen : Int, monthOpen : Int,
                 sma20 : Int, sma50 : Int, last15 : Int, liquid : BOOLEAN]

DirectionalNames == {"CLOSE_VS_OPEN", "CLOSE_VS_PREV_CLOSE", "WEEKLY_DIRECTION", "MONTHLY_DIRECTION", "SMA_TREND",
                     "INTRADAY_15M"}

LEMMA SixNames == IsFiniteSet(DirectionalNames) /\ Cardinality(DirectionalNames) = 6
<1> DEFINE s1 == {"CLOSE_VS_OPEN"}
           s2 == s1 \cup {"CLOSE_VS_PREV_CLOSE"}
           s3 == s2 \cup {"WEEKLY_DIRECTION"}
           s4 == s3 \cup {"MONTHLY_DIRECTION"}
           s5 == s4 \cup {"SMA_TREND"}
           s6 == s5 \cup {"INTRADAY_15M"}
<1>1. IsFiniteSet(s1) /\ Cardinality(s1) = 1
  BY FS_Singleton
<1>2. "CLOSE_VS_PREV_CLOSE" \notin s1 /\ "WEEKLY_DIRECTION" \notin s2 /\ "MONTHLY_DIRECTION" \notin s3
      /\ "SMA_TREND" \notin s4 /\ "INTRADAY_15M" \notin s5
  OBVIOUS
<1>3. DirectionalNames = s6
  BY DEF DirectionalNames
<1> HIDE DEF s1, s2, s3, s4, s5, s6
<1>4. IsFiniteSet(s2) /\ Cardinality(s2) = 2
  BY <1>1, <1>2, FS_AddElement DEF s2
<1>5. IsFiniteSet(s3) /\ Cardinality(s3) = 3
  BY <1>4, <1>2, FS_AddElement DEF s3
<1>6. IsFiniteSet(s4) /\ Cardinality(s4) = 4
  BY <1>5, <1>2, FS_AddElement DEF s4
<1>7. IsFiniteSet(s5) /\ Cardinality(s5) = 5
  BY <1>6, <1>2, FS_AddElement DEF s5
<1>8. IsFiniteSet(s6) /\ Cardinality(s6) = 6
  BY <1>7, <1>2, FS_AddElement DEF s6
<1>9. QED
  BY <1>3, <1>8

\* The parts of a count are counts.
LEMMA Counts ==
  ASSUME NEW s \in SnapshotType, NEW direction \in Directions, NEW eligible \in BOOLEAN
  PROVE  /\ IsFiniteSet(RangesNotExceeded(s)) /\ Cardinality(RangesNotExceeded(s)) \in Nat
         /\ Unmet(Directional(direction, s)) \subseteq DirectionalNames
         /\ IsFiniteSet(Unmet(Directional(direction, s))) /\ Cardinality(Unmet(Directional(direction, s))) \in Nat
         /\ IsFiniteSet(Unmet(Shared(s, eligible))) /\ Cardinality(Unmet(Shared(s, eligible))) \in Nat
         /\ Failures(direction, s, eligible) \in Nat
<1>1. IsFiniteSet(RangesNotExceeded(s))
  <2>1. s.priorRanges \in Seq(Int)
    BY DEF SnapshotType
  <2>2. RangesNotExceeded(s) \subseteq 1..Len(s.priorRanges) /\ Len(s.priorRanges) \in Nat
    BY <2>1 DEF RangesNotExceeded
  <2>3. IsFiniteSet(1..Len(s.priorRanges))
    BY <2>2, FS_Interval
  <2>4. QED
    BY <2>2, <2>3, FS_Subset
<1>2. Unmet(Directional(direction, s)) \subseteq DirectionalNames
  BY DEF Unmet, Directional, DirectionalNames
<1>3. IsFiniteSet(Unmet(Directional(direction, s)))
  BY <1>2, SixNames, FS_Subset
<1>4. IsFiniteSet(Unmet(Shared(s, eligible)))
  <2>1. Unmet(Shared(s, eligible)) \subseteq {"VOLUME_FLOOR", "PRICE_FLOOR"} \cup {"FUTURES_ELIGIBLE"}
    BY DEF Unmet, Shared
  <2>2. IsFiniteSet({"VOLUME_FLOOR"}) /\ {"VOLUME_FLOOR"} \cup {"PRICE_FLOOR"} = {"VOLUME_FLOOR", "PRICE_FLOOR"}
    BY FS_Singleton
  <2>3. IsFiniteSet({"VOLUME_FLOOR", "PRICE_FLOOR"})
    BY <2>2, FS_AddElement
  <2>4. IsFiniteSet({"VOLUME_FLOOR", "PRICE_FLOOR"} \cup {"FUTURES_ELIGIBLE"})
    BY <2>3, FS_AddElement
  <2>5. QED
    BY <2>1, <2>4, FS_Subset
<1>5. /\ Cardinality(RangesNotExceeded(s)) \in Nat /\ Cardinality(Unmet(Directional(direction, s))) \in Nat
      /\ Cardinality(Unmet(Shared(s, eligible))) \in Nat
  BY <1>1, <1>3, <1>4, FS_CardinalityType
<1>6. QED
  BY <1>1, <1>2, <1>3, <1>4, <1>5 DEF Failures

LEMMA AtLeast ==
  ASSUME NEW s \in SnapshotType, NEW direction \in Directions
  PROVE  Failures(direction, s, TRUE) >= Cardinality(Unmet(Directional(direction, s)))
<1> DEFINE a == Cardinality(RangesNotExceeded(s))
           b == Cardinality(Unmet(Directional(direction, s)))
           c == Cardinality(Unmet(Shared(s, TRUE)))
<1>1. a \in Nat /\ b \in Nat /\ c \in Nat
  BY Counts
<1>2. Failures(direction, s, TRUE) = a + b + c
  BY DEF Failures
<1> HIDE DEF a, b, c
<1>3. a + b + c >= b
  BY <1>1
<1>4. Failures(direction, s, TRUE) >= b
  BY <1>2, <1>3, Zenon
<1>5. QED
  BY <1>4 DEF b

\* No comparison goes both ways, so the sides share the six directional conditions' failures between them.
LEMMA SidesExclude ==
  ASSUME NEW s \in SnapshotType
  PROVE  Failures("CE", s, TRUE) + Failures("PE", s, TRUE) >= 6
<1> DEFINE ce == Unmet(Directional("CE", s))
           pe == Unmet(Directional("PE", s))
<1>1. "CE" \in Directions /\ "PE" \in Directions
  BY DEF Directions
<1>2. ce \cup pe = DirectionalNames
  <2>1. \A c \in DirectionalNames : ~(Directional("CE", s)[c] /\ Directional("PE", s)[c])
    <3>1. \A x, y \in Int : ~(Beats("CE", x, y) /\ Beats("PE", x, y))
      BY DEF Beats
    <3>2. /\ s.open \in Int /\ s.close \in Int /\ s.prevClose \in Int /\ s.weekOpen \in Int /\ s.monthOpen \in Int
          /\ s.sma20 \in Int /\ s.sma50 \in Int /\ s.last15 \in Int
      BY DEF SnapshotType
    <3>3. QED
      BY <3>1, <3>2 DEF DirectionalNames, Directional
  <2>2. DOMAIN Directional("CE", s) = DirectionalNames /\ DOMAIN Directional("PE", s) = DirectionalNames
    BY DEF DirectionalNames, Directional
  <2>3. QED
    BY <2>1, <2>2 DEF Unmet
<1>3. IsFiniteSet(ce) /\ IsFiniteSet(pe) /\ Cardinality(ce) \in Nat /\ Cardinality(pe) \in Nat
  BY <1>1, Counts
<1>4. Cardinality(ce \cup pe) = Cardinality(ce) + Cardinality(pe) - Cardinality(ce \cap pe)
  BY <1>3, FS_Union
<1>5. Cardinality(ce \cap pe) \in Nat
  BY <1>3, FS_Intersection, FS_CardinalityType
<1>6. Cardinality(ce) + Cardinality(pe) >= 6
  <2> HIDE DEF ce, pe
  <2>1. Cardinality(ce) + Cardinality(pe) - Cardinality(ce \cap pe) = 6
    BY <1>2, <1>4, SixNames
  <2>2. QED
    BY <1>3, <1>5, <2>1
<1>7. Failures("CE", s, TRUE) >= Cardinality(ce) /\ Failures("CE", s, TRUE) \in Nat
  BY <1>1, AtLeast, Counts
<1>8. Failures("PE", s, TRUE) >= Cardinality(pe) /\ Failures("PE", s, TRUE) \in Nat
  BY <1>1, AtLeast, Counts
<1> DEFINE m == Cardinality(ce)
           n == Cardinality(pe)
           f == Failures("CE", s, TRUE)
           g == Failures("PE", s, TRUE)
<1>9. f >= m /\ g >= n /\ m + n >= 6 /\ f \in Nat /\ g \in Nat /\ m \in Nat /\ n \in Nat
  BY <1>3, <1>6, <1>7, <1>8, Zenon
<1> HIDE DEF m, n, f, g
<1>10. f + g >= 6
  BY <1>9
<1>11. QED
  BY <1>10 DEF f, g

------------------------------------------------------------------------------
(* Candles and time *)

LEMMA Division ==
  ASSUME NEW t \in Nat, NEW c \in Nat \ {0}
  PROVE  t \div c \in Nat /\ c * (t \div c) <= t /\ t < c * (t \div c + 1)
OBVIOUS

LEMMA Quotient ==
  ASSUME NEW t \in Nat, NEW c \in Nat \ {0}, NEW q \in Nat, c * q <= t, t < c * (q + 1)
  PROVE  t \div c = q
OBVIOUS

LEMMA NextQuotient ==
  ASSUME NEW t \in Nat, NEW c \in Nat \ {0}
  PROVE  (t + 1) \div c = t \div c \/ (t + 1) \div c = t \div c + 1
<1> DEFINE q == t \div c
<1>1. q \in Nat /\ c * q <= t /\ t < c * (q + 1) /\ c * (q + 1) = c * q + c /\ c * (q + 2) = c * q + c + c
  BY Division
<1> HIDE DEF q
<1>2. CASE t + 1 < c * (q + 1)
  <2>1. c * q <= t + 1 /\ t + 1 < c * (q + 1) /\ t + 1 \in Nat
    BY <1>1, <1>2
  <2>2. (t + 1) \div c = q
    BY <1>1, <2>1, Quotient
  <2>3. QED
    BY <2>2 DEF q
<1>3. CASE ~(t + 1 < c * (q + 1))
  <2>1. c * (q + 1) <= t + 1 /\ t + 1 < c * ((q + 1) + 1) /\ q + 1 \in Nat /\ t + 1 \in Nat
    BY <1>1, <1>3
  <2>2. (t + 1) \div c = q + 1
    BY <2>1, Quotient
  <2>3. QED
    BY <2>2 DEF q
<1>4. QED
  BY <1>2, <1>3

------------------------------------------------------------------------------
(* The invariant *)

Places == {"idle", "daily", "evaluate", "done"}
Classes == {"none", "DATA_UNAVAILABLE", "DATA_CONFLICT", "CE_QUALIFIED", "PE_QUALIFIED", "NEAR_CE", "NEAR_PE", "NOT_QUALIFIED"}
ScanRecords == [at : Places, close : Int, now : Nat, fetched : Nat, candles : Nat, last15 : Int, candle : Nat, class : Classes]
TypeInv ==
  /\ stock \in Stocks /\ ticks \in Nat
  /\ closes \in Seq(Prices) /\ Len(closes) = Forming + 1
  /\ scan \in ScanRecords

\* The clock of the evaluation is not ahead of the market's, and a class is that of what was read.
ScanInv ==
  /\ scan.at = "daily" => scan.now <= ticks
  /\ ConfirmedByClosedCandle
  /\ Evaluated => scan.class = ClassOf(Snapshot)

Inv == TypeInv /\ ScanInv

LEMMA ClassIsOne == ASSUME NEW s PROVE ClassOf(s) \in Classes
<1>1. \A ce, pe : Classify(ce, pe) \in Classes
  BY Zenon DEF Classify, Classes
<1>2. QED
  BY <1>1 DEF ClassOf

LEMMA SnapshotTyped == ASSUME TypeInv PROVE Snapshot \in SnapshotType
BY ScanAssumption DEF TypeInv, ScanRecords, Snapshot, SnapshotType, StockRecords

LEMMA Initially == Init => Inv
<1> SUFFICES ASSUME Init PROVE Inv
  OBVIOUS
<1>1. PICK first \in {0, 1} : ticks = Begin(first) /\ closes \in [1..first + 1 -> Prices]
  BY DEF Init
<1>2. CandleTicks \in Nat \ {0} /\ ticks \in Nat
  BY <1>1, ScanAssumption DEF Begin
<1>3. Forming = first
  <2>1. first \in Nat /\ CandleTicks * first <= ticks /\ ticks < CandleTicks * (first + 1)
    BY <1>1, <1>2 DEF Begin
  <2>2. QED
    BY <1>2, <2>1, Quotient DEF Forming
<1>4. closes \in Seq(Prices) /\ Len(closes) = first + 1
  BY <1>1
<1>5. scan = NoScan /\ stock \in Stocks
  BY DEF Init
<1>6. TypeInv
  BY <1>2, <1>3, <1>4, <1>5 DEF NoScan, TypeInv, ScanRecords, Places, Classes
<1>7. QED
  BY <1>5, <1>6 DEF NoScan, Inv, ScanInv, ConfirmedByClosedCandle, Evaluated

LEMMA TickStep == ASSUME Inv, Tick PROVE Inv'
<1>1. ticks \in Nat /\ ticks' = ticks + 1 /\ CandleTicks \in Nat \ {0} /\ UNCHANGED <<stock, scan>>
  BY ScanAssumption DEF Inv, TypeInv, ScanRecords, Tick
<1>2. PICK price \in Prices :
        closes' = IF (ticks + 1) \div CandleTicks = Forming THEN [closes EXCEPT ![Len(closes)] = price]
                  ELSE Append(closes, price)
  BY DEF Tick
<1>3. closes \in Seq(Prices) /\ Len(closes) = Forming + 1 /\ Forming \in Nat
  BY <1>1, Division DEF Inv, TypeInv, ScanRecords, Forming
<1>4. Forming' = (ticks + 1) \div CandleTicks
  BY <1>1 DEF Forming
<1>5. Forming' = Forming \/ Forming' = Forming + 1
  BY <1>1, <1>4, NextQuotient DEF Forming
<1>6. closes' \in Seq(Prices) /\ Len(closes') = Forming' + 1
  BY <1>2, <1>3, <1>4, <1>5
<1>7. TypeInv'
  BY <1>1, <1>6 DEF Inv, TypeInv, ScanRecords
<1>8. ScanInv'
  BY <1>1 DEF Inv, TypeInv, ScanRecords, ScanInv, ConfirmedByClosedCandle, Evaluated, Snapshot, Tick
<1>9. QED
  BY <1>7, <1>8 DEF Inv

LEMMA IntradayStep == ASSUME Inv, FetchIntraday PROVE Inv'
<1> DEFINE n == Len(closes)
           k == LatestCompleted(n, scan.now)
<1>1. ticks \in Nat /\ CandleTicks \in Nat \ {0} /\ scan.now \in Nat /\ scan.now <= ticks /\ closes \in Seq(Prices)
  BY ScanAssumption DEF Inv, TypeInv, ScanRecords, ScanInv, FetchIntraday
<1>2. n = Forming + 1 /\ Forming \in Nat /\ CandleTicks * Forming <= ticks /\ ticks < CandleTicks * (Forming + 1)
  BY <1>1, Division DEF Inv, TypeInv, ScanRecords, Forming
<1>3. n \in Nat /\ n >= 1 /\ Begin(n - 1) <= ticks /\ ticks < Begin(n) /\ Begin(n) = Begin(n - 1) + CandleTicks
      /\ Begin(n) \in Nat /\ Begin(n - 1) \in Nat
  <2>1. n - 1 = Forming
    BY <1>2
  <2>2. QED
    BY <1>1, <1>2, <2>1 DEF Begin
<1>4. k \in 1..n /\ (n >= 2 => k = n - 1)
  BY <1>1, <1>3 DEF LatestCompleted
<1>5. closes[k] \in Int
  <2> HIDE DEF k
  <2>1. closes[k] \in Prices
    BY <1>1, <1>4
  <2>2. QED
    BY <2>1, ScanAssumption
<1>6. /\ scan' = [scan EXCEPT !.at = "evaluate", !.fetched = ticks, !.candles = n, !.candle = k, !.last15 = closes[k]]
      /\ UNCHANGED <<stock, closes, ticks>>
  BY DEF FetchIntraday
<1> HIDE DEF n, k
<1>7. k \in Nat /\ n \in Nat
  BY <1>3, <1>4
<1>8. scan' \in ScanRecords
  BY <1>1, <1>5, <1>6, <1>7 DEF Inv, TypeInv, ScanRecords, Places
<1>9. TypeInv'
  BY <1>6, <1>8 DEF Inv, TypeInv, ScanRecords, Forming
<1>10. /\ scan'.at = "evaluate" /\ scan'.candles = n /\ scan'.candle = k /\ scan'.fetched = ticks /\ scan'.now = scan.now
  BY <1>6 DEF Inv, TypeInv, ScanRecords
<1>11. n >= 2 => Begin(k) <= ticks /\ Begin(k + 1) > scan.now
  <2>1. n >= 2 => k = n - 1 /\ k + 1 = n
    BY <1>3, <1>4
  <2>2. QED
    BY <1>1, <1>3, <2>1
<1>12. ConfirmedByClosedCandle'
  BY <1>10, <1>11 DEF ConfirmedByClosedCandle, Begin
<1>13. QED
  BY <1>9, <1>10, <1>12 DEF Inv, ScanInv, Evaluated

LEMMA Preserved == ASSUME Inv, [Next]_vars PROVE Inv'
<1>1. CASE RefuseIneligible \/ DataUnavailable
  <2>1. /\ scan' = [scan EXCEPT !.at = "done", !.class = "DATA_UNAVAILABLE"]
        /\ UNCHANGED <<stock, closes, ticks>>
    BY <1>1 DEF RefuseIneligible, DataUnavailable
  <2>2. TypeInv'
    BY <2>1 DEF Inv, TypeInv, ScanRecords, Forming, Places, Classes
  <2>3. scan'.at = "done" /\ scan'.class = "DATA_UNAVAILABLE"
    BY <2>1 DEF Inv, TypeInv, ScanRecords
  <2>4. QED
    BY <2>2, <2>3 DEF Inv, ScanInv, ConfirmedByClosedCandle, Evaluated
<1>2. CASE FetchDaily
  <2>1. LastPrice \in Int /\ ticks \in Nat
    <3>1. Forming \in Nat /\ ticks \in Nat
      BY Division, ScanAssumption DEF Inv, TypeInv, ScanRecords, Forming
    <3>2. closes \in Seq(Prices) /\ Len(closes) \in 1..Len(closes)
      BY <3>1 DEF Inv, TypeInv, ScanRecords
    <3>3. closes[Len(closes)] \in Prices
      BY <3>2
    <3>4. QED
      BY <3>1, <3>3, ScanAssumption DEF LastPrice
  <2>2. scan' = [scan EXCEPT !.at = "daily", !.close = LastPrice, !.now = ticks] /\ UNCHANGED <<stock, closes, ticks>>
    BY <1>2 DEF FetchDaily
  <2>3. scan' \in ScanRecords
    BY <2>1, <2>2 DEF Inv, TypeInv, ScanRecords, Places
  <2>4. scan'.at = "daily" /\ scan'.now = ticks
    BY <2>2 DEF Inv, TypeInv, ScanRecords
  <2>5. QED
    BY <2>1, <2>2, <2>3, <2>4 DEF Inv, TypeInv, ScanRecords, ScanInv, ConfirmedByClosedCandle, Evaluated, Forming
<1>3. CASE EvaluateStock
  <2>1. scan' = [scan EXCEPT !.at = "done", !.class = ClassOf(Snapshot)] /\ UNCHANGED <<stock, closes, ticks>>
    BY <1>3 DEF EvaluateStock
  <2>2. TypeInv'
    BY <2>1, ClassIsOne DEF Inv, TypeInv, ScanRecords, Forming, Places
  <2>3. Snapshot' = Snapshot /\ scan'.class = ClassOf(Snapshot) /\ scan'.at = "done"
    BY <2>1 DEF Inv, TypeInv, ScanRecords, Snapshot
  <2>4. ClassOf(Snapshot)' = ClassOf(Snapshot)
    BY <2>3
  <2>5. QED
    BY <2>2, <2>3, <2>4 DEF Inv, ScanInv, ConfirmedByClosedCandle, Evaluated
<1>4. CASE UNCHANGED vars
  BY <1>4 DEF vars, Inv, TypeInv, ScanRecords, ScanInv, ConfirmedByClosedCandle, Evaluated, Forming, Snapshot
<1>5. QED
  BY <1>1, <1>2, <1>3, <1>4, TickStep, IntradayStep DEF Next

LEMMA InvHolds == Spec => []Inv
BY Initially, Preserved, PTL DEF Spec

------------------------------------------------------------------------------
(* The classes *)

\* What the classes of two counts say of them, when the two sides cannot both be near.
LEMMA ClassesOfCounts ==
  ASSUME NEW ce \in Nat, NEW pe \in Nat, ce + pe >= 6
  PROVE  /\ Classify(ce, pe) # "DATA_CONFLICT"
         /\ Classify(ce, pe) \in {"CE_QUALIFIED", "NEAR_CE"} => pe > 2
         /\ Classify(ce, pe) \in {"PE_QUALIFIED", "NEAR_PE"} => ce > 2
         /\ Classify(ce, pe) = "CE_QUALIFIED" => ce = 0
         /\ Classify(ce, pe) = "PE_QUALIFIED" => pe = 0
         /\ Classify(pe, ce) = OtherSide[Classify(ce, pe)]
<1>1. CASE ce = 0
  <2>1. Classify(ce, pe) = "CE_QUALIFIED" /\ Classify(pe, ce) = "PE_QUALIFIED" /\ pe > 2
    BY <1>1 DEF Classify
  <2>2. QED
    BY <1>1, <2>1 DEF OtherSide
<1>2. CASE pe = 0
  <2>1. Classify(ce, pe) = "PE_QUALIFIED" /\ Classify(pe, ce) = "CE_QUALIFIED" /\ ce > 2
    BY <1>2 DEF Classify
  <2>2. QED
    BY <1>2, <2>1 DEF OtherSide
<1>3. CASE ce # 0 /\ ce <= 2
  <2>1. Classify(ce, pe) = "NEAR_CE" /\ Classify(pe, ce) = "NEAR_PE" /\ pe > 2
    BY <1>3 DEF Classify, NearQualifiedMaxFailures
  <2>2. QED
    BY <2>1 DEF OtherSide
<1>4. CASE pe # 0 /\ pe <= 2
  <2>1. Classify(ce, pe) = "NEAR_PE" /\ Classify(pe, ce) = "NEAR_CE" /\ ce > 2
    BY <1>4 DEF Classify, NearQualifiedMaxFailures
  <2>2. QED
    BY <2>1 DEF OtherSide
<1>5. CASE ce > 2 /\ pe > 2
  <2>1. Classify(ce, pe) = "NOT_QUALIFIED" /\ Classify(pe, ce) = "NOT_QUALIFIED"
    BY <1>5 DEF Classify, NearQualifiedMaxFailures
  <2>2. QED
    BY <2>1 DEF OtherSide
<1>6. QED
  BY <1>1, <1>2, <1>3, <1>4, <1>5

LEMMA SidesShareSix ==
  ASSUME NEW s \in SnapshotType
  PROVE  /\ Failures("CE", s, TRUE) \in Nat /\ Failures("PE", s, TRUE) \in Nat
         /\ Failures("CE", s, TRUE) + Failures("PE", s, TRUE) >= 6
<1>1. "CE" \in Directions /\ "PE" \in Directions
  BY DEF Directions
<1>2. QED
  BY <1>1, Counts, SidesExclude

LEMMA SidesKept == Inv => OneSideOnly
<1> SUFFICES ASSUME Inv, Evaluated PROVE OneSideOnly
  BY DEF OneSideOnly
<1> DEFINE ce == Failures("CE", Snapshot, TRUE)
           pe == Failures("PE", Snapshot, TRUE)
<1>1. Snapshot \in SnapshotType
  BY SnapshotTyped DEF Inv
<1>2. ce \in Nat /\ pe \in Nat /\ ce + pe >= 6
  BY <1>1, SidesShareSix
<1>3. scan.class = Classify(ce, pe)
  BY DEF Inv, ScanInv, ClassOf
<1>4. /\ scan.class # "DATA_CONFLICT"
      /\ scan.class \in {"CE_QUALIFIED", "NEAR_CE"} => pe > 2
      /\ scan.class \in {"PE_QUALIFIED", "NEAR_PE"} => ce > 2
  <2> HIDE DEF ce, pe
  <2>1. QED
    BY <1>2, <1>3, ClassesOfCounts
<1>5. QED
  BY <1>4 DEF OneSideOnly, NearQualifiedMaxFailures

\* Turning the prices exchanges the failures of the two sides.
LEMMA Turned ==
  ASSUME NEW s \in SnapshotType, s.close > MinPrice, Mirror(s).close > MinPrice
  PROVE  /\ Mirror(s) \in SnapshotType
         /\ Failures("CE", Mirror(s), TRUE) = Failures("PE", s, TRUE)
         /\ Failures("PE", Mirror(s), TRUE) = Failures("CE", s, TRUE)
<1> DEFINE m == Mirror(s)
           turned(price) == Lowest + Highest - price
<1>1. Lowest \in Int /\ Highest \in Int
  <2>1. PICK l, h \in Prices : \A p \in Prices : l <= p /\ p <= h
    BY ScanAssumption
  <2>2. Lowest \in Prices
    BY <2>1 DEF Lowest
  <2>3. Highest \in Prices
    BY <2>1 DEF Highest
  <2>4. QED
    BY <2>2, <2>3, ScanAssumption
<1>2. /\ m.open = turned(s.open) /\ m.close = turned(s.close) /\ m.prevClose = turned(s.prevClose)
      /\ m.weekOpen = turned(s.weekOpen) /\ m.monthOpen = turned(s.monthOpen) /\ m.sma20 = turned(s.sma20)
      /\ m.sma50 = turned(s.sma50) /\ m.last15 = turned(s.last15)
      /\ m.range = s.range /\ m.priorRanges = s.priorRanges /\ m.liquid = s.liquid
  BY DEF Mirror
<1>3. /\ s.open \in Int /\ s.close \in Int /\ s.prevClose \in Int /\ s.weekOpen \in Int /\ s.monthOpen \in Int
      /\ s.sma20 \in Int /\ s.sma50 \in Int /\ s.last15 \in Int
  BY DEF SnapshotType
<1>4. m \in SnapshotType
  <2>1. \A x \in Int : turned(x) \in Int
    BY <1>1
  <2> HIDE DEF turned
  <2>2. s.range \in Int /\ s.priorRanges \in Seq(Int) /\ s.liquid \in BOOLEAN
    BY DEF SnapshotType
  <2>3. m = [range |-> s.range, priorRanges |-> s.priorRanges, open |-> turned(s.open), close |-> turned(s.close),
             prevClose |-> turned(s.prevClose), weekOpen |-> turned(s.weekOpen), monthOpen |-> turned(s.monthOpen),
             sma20 |-> turned(s.sma20), sma50 |-> turned(s.sma50), last15 |-> turned(s.last15), liquid |-> s.liquid]
    BY DEF Mirror, turned
  <2> HIDE DEF m
  <2>4. QED
    BY <1>3, <2>1, <2>2, <2>3 DEF SnapshotType
<1>5. \A x, y \in Int : /\ Beats("CE", turned(x), turned(y)) = Beats("PE", x, y)
                        /\ Beats("PE", turned(x), turned(y)) = Beats("CE", x, y)
  BY <1>1 DEF Beats
<1>6. Directional("CE", m) = Directional("PE", s) /\ Directional("PE", m) = Directional("CE", s)
  <2> HIDE DEF m, turned
  <2>1. QED
    BY <1>2, <1>3, <1>5 DEF Directional
<1>7. RangesNotExceeded(m) = RangesNotExceeded(s)
  BY <1>2 DEF RangesNotExceeded
<1>8. Shared(m, TRUE) = Shared(s, TRUE)
  <2>1. (m.close > MinPrice) = TRUE /\ (s.close > MinPrice) = TRUE
    OBVIOUS
  <2> HIDE DEF m
  <2>2. QED
    BY <1>2, <2>1, Zenon DEF Shared
<1>9. QED
  BY <1>4, <1>6, <1>7, <1>8 DEF Failures

LEMMA MirrorKept == Inv => SidesMirror
<1> SUFFICES ASSUME Inv, Evaluated, Snapshot.close > MinPrice, Mirror(Snapshot).close > MinPrice
             PROVE  ClassOf(Mirror(Snapshot)) = OtherSide[scan.class]
  BY DEF SidesMirror
<1> DEFINE ce == Failures("CE", Snapshot, TRUE)
           pe == Failures("PE", Snapshot, TRUE)
<1>1. Snapshot \in SnapshotType
  BY SnapshotTyped DEF Inv
<1>2. ce \in Nat /\ pe \in Nat /\ ce + pe >= 6
  BY <1>1, SidesShareSix
<1>3. scan.class = Classify(ce, pe)
  BY DEF Inv, ScanInv, ClassOf
<1>4. ClassOf(Mirror(Snapshot)) = Classify(pe, ce)
  BY <1>1, Turned DEF ClassOf
<1>5. QED
  <2> HIDE DEF ce, pe
  <2>1. QED
    BY <1>2, <1>3, <1>4, ClassesOfCounts

\* A side that fails nothing passes the screener's checks.
LEMMA NoFailures ==
  ASSUME NEW s \in SnapshotType, NEW direction \in Directions, Failures(direction, s, TRUE) = 0
  PROVE  Unmet(ScreenerChecks(direction, s)) = {}
<1> DEFINE a == Cardinality(RangesNotExceeded(s))
           b == Cardinality(Unmet(Directional(direction, s)))
           c == Cardinality(Unmet(Shared(s, TRUE)))
<1>1. a \in Nat /\ b \in Nat /\ c \in Nat
  BY Counts
<1>2. a + b + c = 0
  BY DEF Failures
<1>3. a = 0 /\ b = 0 /\ c = 0
  <2> HIDE DEF a, b, c
  <2>1. QED
    BY <1>1, <1>2
<1>4. IsFiniteSet(RangesNotExceeded(s)) /\ IsFiniteSet(Unmet(Directional(direction, s))) /\ IsFiniteSet(Unmet(Shared(s, TRUE)))
  BY Counts
<1>5. RangesNotExceeded(s) = {} /\ Unmet(Directional(direction, s)) = {} /\ Unmet(Shared(s, TRUE)) = {}
  BY <1>3, <1>4, FS_EmptySet
<1>6. \A i \in DOMAIN s.priorRanges : s.range > s.priorRanges[i]
  BY <1>5 DEF RangesNotExceeded
<1>7. /\ Beats(direction, s.close, s.open) /\ Beats(direction, s.close, s.prevClose)
      /\ Beats(direction, s.close, s.weekOpen) /\ Beats(direction, s.close, s.monthOpen)
      /\ Beats(direction, s.sma20, s.sma50)
  BY <1>5 DEF Unmet, Directional
<1>8. s.liquid /\ s.close > MinPrice
  <2>1. s.liquid \in BOOLEAN /\ s.close \in Int /\ MinPrice \in Int
    BY PriceAssumption DEF SnapshotType
  <2>2. \A f \in {"VOLUME_FLOOR", "PRICE_FLOOR", "FUTURES_ELIGIBLE"} : Shared(s, TRUE)[f]
    BY <1>5 DEF Unmet, Shared
  <2>3. Shared(s, TRUE).VOLUME_FLOOR = s.liquid /\ Shared(s, TRUE).PRICE_FLOOR = (s.close > MinPrice)
    BY <2>1 DEF Shared
  <2>4. QED
    BY <2>2, <2>3, Zenon
<1>9. \A f \in DOMAIN ScreenerChecks(direction, s) : ScreenerChecks(direction, s)[f]
  <2> DEFINE checks == ScreenerChecks(direction, s)
  <2>1. DOMAIN checks = {"range", "open", "prevClose", "week", "month", "volume", "sma", "intraday", "price"}
    BY DEF ScreenerChecks
  <2>2. /\ checks.range /\ checks.open /\ checks.prevClose /\ checks.week /\ checks.month /\ checks.volume
        /\ checks.sma /\ checks.intraday /\ checks.price
    BY <1>6, <1>7, <1>8, Zenon DEF ScreenerChecks
  <2> HIDE DEF checks
  <2>3. \A f \in DOMAIN checks : checks[f]
    BY <2>1, <2>2, Zenon
  <2>4. QED
    BY <2>3 DEF checks
<1>10. QED
  BY <1>9 DEF Unmet

LEMMA ScreenerAgrees == Inv => ScreenerConfirms
<1> SUFFICES ASSUME Inv, Evaluated, NEW direction \in Directions, scan.class = QualifiedAs[direction]
             PROVE  Unmet(ScreenerChecks(direction, Snapshot)) = {}
  BY DEF ScreenerConfirms
<1> DEFINE ce == Failures("CE", Snapshot, TRUE)
           pe == Failures("PE", Snapshot, TRUE)
<1>1. Snapshot \in SnapshotType
  BY SnapshotTyped DEF Inv
<1>2. ce \in Nat /\ pe \in Nat /\ ce + pe >= 6
  BY <1>1, SidesShareSix
<1>3. scan.class = Classify(ce, pe)
  BY DEF Inv, ScanInv, ClassOf
<1>4. (scan.class = "CE_QUALIFIED" => ce = 0) /\ (scan.class = "PE_QUALIFIED" => pe = 0)
  <2> HIDE DEF ce, pe
  <2>1. QED
    BY <1>2, <1>3, ClassesOfCounts
<1>5. Failures(direction, Snapshot, TRUE) = 0
  <2>1. direction = "CE" \/ direction = "PE"
    BY DEF Directions
  <2>2. QualifiedAs["CE"] = "CE_QUALIFIED" /\ QualifiedAs["PE"] = "PE_QUALIFIED"
    BY DEF QualifiedAs
  <2>3. QED
    BY <1>4, <2>1, <2>2, Zenon
<1>6. QED
  BY <1>1, <1>5, NoFailures

------------------------------------------------------------------------------
(* The theorems *)

\* The candle that confirms a stock was finished when it was read (qualification.py:175-183).
THEOREM ConfirmationsAreFinished == Spec => []ConfirmedByClosedCandle
<1>1. Inv => ConfirmedByClosedCandle
  BY DEF Inv, ScanInv
<1>2. QED
  BY InvHolds, <1>1, PTL

\* Nothing qualifies, or nearly does, for both sides (qualification.py:6-8).
THEOREM SidesStayApart == Spec => []OneSideOnly
BY InvHolds, SidesKept, PTL

\* CE and PE are mirror images, whatever the prices (qualification.py:228-311).
THEOREM SidesAreMirrors == Spec => []SidesMirror
BY InvHolds, MirrorKept, PTL

\* The screener confirms what the scanner qualified (screener.py:27-97, qualification.py:211-291).
THEOREM ScreenerNeverDisagrees == Spec => []ScreenerConfirms
BY InvHolds, ScreenerAgrees, PTL
==============================================================================
