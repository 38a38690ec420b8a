--------------------------- MODULE BacktestProofs ---------------------------
(* What a backtest keeps for any universe, candles, periods, pool and holding limit: every trade a worker opens and closes
   is the strategy's, and a completed run is the whole story. *)
EXTENDS Backtest, TLAPS, FiniteSetTheorems

------------------------------------------------------------------------------
(* The walk over one symbol's candles *)

Candles == [bar : Bars, class : DayClasses]
Reasons == {"sl_hit", "target_hit", "time_exit"}
Closed == [trade : Trades, exit : Int, reason : Reasons, holdDays : Nat, gain : Int]
Phases == {"queued", "fetching", "walking", "returned", "raised", "taken"}
Workers == [phase : Phases, candles : Seq(Candles), open : Trades \cup {NoTrade}, prev : DayClasses \cup {"None"},
            trades : Seq(Closed), error : BOOLEAN]

\* The stop and the target are on either side of the entry.
LevelsOk(t) == IF t.direction = "CE" THEN t.sl < t.entry /\ t.entry < t.target ELSE t.target < t.entry /\ t.entry < t.sl

\* An open trade has touched nothing yet, and its time is not up.
OpenOk(h, t) ==
  /\ LevelsOk(t)
  /\ t.entryIndex \in 1..Len(h) /\ Len(h) - t.entryIndex < MaxHoldDays
  /\ \A i \in t.entryIndex + 1..Len(h) : ~Touched(h, t, i)

ClosedOk(h, c) == FirstTouch(h, c) /\ c.trade.entryIndex >= 1 /\ ExitIndex(c) <= Len(h)

Transitions(w) == Opened(w) = {i \in DOMAIN w.candles : Fresh(w.candles, i) /\ ~Carried(w, i)}

WalkInv(w) ==
  /\ w \in Workers
  /\ w.prev = IF w.candles = <<>> \/ w.candles[Len(w.candles)].class = "NO_SNAPSHOT" THEN "None"
              ELSE w.candles[Len(w.candles)].class
  /\ w.open # NoTrade => OpenOk(w.candles, w.open)
  /\ \A c \in Range(w.trades) : ClosedOk(w.candles, c) /\ ~CutShort(c)
  /\ Transitions(w)

LEMMA BarTypes ==
  ASSUME NEW b \in Bars
  PROVE  /\ b.low \in Nat /\ b.high \in Nat /\ b.close \in Nat /\ b.low <= b.close /\ b.close <= b.high
         /\ MinRisk(b.close) \in Nat \ {0}
<1>1. b.low \in Nat /\ b.high \in Nat /\ b.close \in Nat
  BY BacktestAssumption
<1>2. b.low <= b.close /\ b.close <= b.high /\ b.low > 0 /\ b.close % 200 = 0
  BY BacktestAssumption
<1>3. b.close \div 200 \in Nat /\ b.close \div 200 # 0
  BY <1>1, <1>2
<1>4. QED
  BY <1>1, <1>2, <1>3 DEF MinRisk

\* What a candle does to a trade, in terms of the levels it reaches.
LEMMA ExitMeaning ==
  ASSUME NEW h \in Seq(Candles), NEW i \in DOMAIN h, NEW t \in Trades, LevelsOk(t), NEW b, b = h[i].bar
  PROVE  CheckExit(t, b) = IF Passed(h, t, i, t.sl) THEN "sl_hit"
                           ELSE IF Passed(h, t, i, t.target) THEN "target_hit" ELSE "none"
<1>1. b \in Bars
  <2>1. h[i] \in Candles
    OBVIOUS
  <2>2. QED
    BY <2>1 DEF Candles
<1>2. b.low \in Nat /\ b.high \in Nat
  BY <1>1, BarTypes
<1>3. t.direction \in {"CE", "PE"} /\ t.entry \in Int /\ t.sl \in Int /\ t.target \in Int
  BY DEF Trades
<1>4. CASE t.direction = "CE"
  BY <1>2, <1>3, <1>4 DEF LevelsOk, CheckExit, Passed
<1>5. CASE t.direction = "PE"
  BY <1>2, <1>3, <1>5 DEF LevelsOk, CheckExit, Passed
<1>6. QED
  BY <1>3, <1>4, <1>5

LEMMA Appended ==
  ASSUME NEW h \in Seq(Candles), NEW candle \in Candles, NEW g, g = Append(h, candle)
  PROVE  /\ g \in Seq(Candles) /\ Len(h) \in Nat /\ Len(g) = Len(h) + 1 /\ DOMAIN g = 1..(Len(h) + 1) /\ DOMAIN h = 1..Len(h)
         /\ \A j \in 1..Len(h) : g[j] = h[j]
         /\ g[Len(h) + 1] = candle
  OBVIOUS

\* What was closed stays as it was.
LEMMA ClosedStays ==
  ASSUME NEW h \in Seq(Candles), NEW candle \in Candles, NEW g, g = Append(h, candle), NEW c \in Closed, ClosedOk(h, c)
  PROVE  ClosedOk(g, c)
<1>1. c.trade \in Trades /\ c.trade.entryIndex \in Nat /\ c.holdDays \in Nat /\ c.reason \in Reasons
  BY DEF Closed, Trades
<1>2. ExitIndex(c) \in Nat /\ c.trade.entryIndex <= ExitIndex(c) /\ ExitIndex(c) <= Len(h) /\ c.trade.entryIndex >= 1
  BY <1>1 DEF ClosedOk, ExitIndex
<1>3. \A i \in 1..Len(h) : \A price : Passed(g, c.trade, i, price) <=> Passed(h, c.trade, i, price)
  BY Appended DEF Passed
<1>4. \A i \in 1..Len(h) : Touched(g, c.trade, i) <=> Touched(h, c.trade, i)
  BY <1>3 DEF Touched
<1>5. FirstTouch(h, c)
  BY DEF ClosedOk
<1>6. ExitIndex(c) \in 1..Len(h) /\ \A i \in c.trade.entryIndex + 1..ExitIndex(c) - 1 : i \in 1..Len(h)
  <2>1. Len(h) \in Nat
    OBVIOUS
  <2>2. QED
    BY <1>1, <1>2, <2>1
<1>7. FirstTouch(g, c)
  BY <1>3, <1>4, <1>5, <1>6 DEF FirstTouch
<1>8. Len(g) = Len(h) + 1 /\ Len(h) \in Nat
  BY Appended
<1>9. QED
  BY <1>2, <1>7, <1>8 DEF ClosedOk

\* What a worker that has come to the last candle of g makes of an open trade: closed, or still open and untouched.
Outcome(g, t, closed) ==
  \/ closed = <<>> /\ OpenOk(g, t)
  \/ \E c \in Closed : /\ closed = <<c>>
                     /\ c.trade = t /\ ExitIndex(c) = Len(g) /\ ClosedOk(g, c) /\ ~CutShort(c)

\* A candle closes the open trade, or leaves it open and untouched.
LEMMA DayOfTrade ==
  ASSUME NEW h \in Seq(Candles), NEW candle \in Candles, NEW g, g = Append(h, candle),
         NEW t \in Trades, OpenOk(h, t)
  PROVE  Outcome(g, t, ClosedToday(t, candle.bar, Len(g)))
<1> DEFINE i == Len(g)
           e == t.entryIndex
           held == i - e
           day == candle.bar
           reason == CheckExit(t, day)
           atStop == Passed(g, t, i, t.sl)
           atTarget == Passed(g, t, i, t.target)
<1>1. /\ g \in Seq(Candles) /\ i = Len(h) + 1 /\ Len(h) \in Nat /\ i \in DOMAIN g /\ g[i] = candle
      /\ \A j \in 1..Len(h) : g[j] = h[j]
  BY Appended
<1>2. /\ t # NoTrade /\ t.direction \in {"CE", "PE"} /\ t.entry \in Int /\ t.sl \in Int /\ t.target \in Int /\ e \in Nat
  BY BacktestAssumption DEF Trades
<1>3. /\ LevelsOk(t) /\ e \in 1..Len(h) /\ Len(h) - e < MaxHoldDays
      /\ \A j \in e + 1..Len(h) : ~Touched(h, t, j)
  BY DEF OpenOk
<1>4. held \in Nat \ {0} /\ held <= MaxHoldDays /\ MaxHoldDays \in Nat /\ i = e + held
  BY <1>1, <1>2, <1>3, BacktestAssumption
<1>5. \A j \in e + 1..i - 1 : ~Touched(g, t, j)
  <2>1. ASSUME NEW j \in e + 1..i - 1 PROVE ~Touched(g, t, j)
    <3>1. j \in e + 1..Len(h) /\ j \in 1..Len(h)
      BY <1>1, <1>2
    <3>2. ~Touched(h, t, j) /\ g[j] = h[j]
      BY <1>1, <1>3, <3>1
    <3>3. QED
      BY <3>2 DEF Touched, Passed
  <2>2. QED
    BY <2>1
<1>6. reason = IF atStop THEN "sl_hit" ELSE IF atTarget THEN "target_hit" ELSE "none"
  BY <1>1, <1>3, ExitMeaning
<1>7. day \in Bars /\ day.close \in Nat
  BY BarTypes DEF Candles
<1>8. ClosedToday(t, day, i) =
        IF reason # "none" THEN <<CloseTrade(t, IF reason = "sl_hit" THEN t.sl ELSE t.target, reason, held)>>
        ELSE IF held >= MaxHoldDays THEN <<CloseTrade(t, day.close, "time_exit", held)>> ELSE <<>>
  BY <1>2 DEF ClosedToday
<1>9. ASSUME NEW price \in Int, NEW why \in Reasons, NEW c, c = CloseTrade(t, price, why, held)
      PROVE  /\ c \in Closed /\ c.trade = t /\ ExitIndex(c) = i /\ c.reason = why /\ c.holdDays = held
             /\ c.gain = IF t.direction = "CE" THEN price - t.entry ELSE t.entry - price
  BY <1>2, <1>4, <1>9 DEF CloseTrade, Closed, ExitIndex
<1> HIDE DEF i, held, e, day, reason, atStop, atTarget
<1>10. ASSUME NEW c \in Closed, c.trade = t, ExitIndex(c) = i, c.holdDays = held,
              c.reason = "target_hit" => atTarget /\ ~atStop /\ c.gain > 0,
              c.reason = "sl_hit" => atStop /\ c.gain < 0,
              c.reason = "time_exit" => ~atStop /\ ~atTarget
       PROVE  ClosedOk(g, c)
  <2>1. ~atStop /\ ~atTarget => ~Touched(g, t, i)
    BY DEF Touched, atStop, atTarget
  <2>2. FirstTouch(g, c)
    BY <1>4, <1>5, <1>10, <2>1 DEF FirstTouch, atStop, atTarget, e
  <2>3. i <= Len(g) /\ c.trade.entryIndex >= 1
    BY <1>1, <1>3, <1>10 DEF i, e
  <2>4. QED
    BY <1>10, <2>2, <2>3 DEF ClosedOk
<1>11. CASE atStop
  <2> DEFINE c == CloseTrade(t, t.sl, "sl_hit", held)
  <2>1. /\ c \in Closed /\ c.trade = t /\ ExitIndex(c) = i /\ c.reason = "sl_hit" /\ c.holdDays = held
        /\ c.gain = IF t.direction = "CE" THEN t.sl - t.entry ELSE t.entry - t.sl
    BY <1>2, <1>9 DEF Reasons
  <2>2. ClosedToday(t, day, i) = <<c>>
    BY <1>6, <1>8, <1>11
  <2> HIDE DEF c
  <2>3. c.gain < 0
    BY <1>2, <1>3, <2>1 DEF LevelsOk
  <2>4. ClosedOk(g, c)
    BY <1>10, <1>11, <2>1, <2>3
  <2>5. QED
    BY <2>1, <2>2, <2>4 DEF CutShort, Outcome, i, day
<1>12. CASE ~atStop /\ atTarget
  <2> DEFINE c == CloseTrade(t, t.target, "target_hit", held)
  <2>1. /\ c \in Closed /\ c.trade = t /\ ExitIndex(c) = i /\ c.reason = "target_hit" /\ c.holdDays = held
        /\ c.gain = IF t.direction = "CE" THEN t.target - t.entry ELSE t.entry - t.target
    BY <1>2, <1>9 DEF Reasons
  <2>2. ClosedToday(t, day, i) = <<c>>
    BY <1>6, <1>8, <1>12
  <2> HIDE DEF c
  <2>3. c.gain > 0
    BY <1>2, <1>3, <2>1 DEF LevelsOk
  <2>4. ClosedOk(g, c)
    BY <1>10, <1>12, <2>1, <2>3
  <2>5. QED
    BY <2>1, <2>2, <2>4 DEF CutShort, Outcome, i, day
<1>13. CASE ~atStop /\ ~atTarget /\ held >= MaxHoldDays
  <2> DEFINE c == CloseTrade(t, day.close, "time_exit", held)
  <2>1. c \in Closed /\ c.trade = t /\ ExitIndex(c) = i /\ c.reason = "time_exit" /\ c.holdDays = held
    BY <1>7, <1>9 DEF Reasons
  <2>2. ClosedToday(t, day, i) = <<c>>
    BY <1>6, <1>8, <1>13
  <2> HIDE DEF c
  <2>3. ClosedOk(g, c)
    BY <1>10, <1>13, <2>1
  <2>4. ~CutShort(c)
    BY <1>4, <1>13, <2>1 DEF CutShort
  <2>5. QED
    BY <2>1, <2>2, <2>3, <2>4 DEF Outcome, i, day
<1>14. CASE ~atStop /\ ~atTarget /\ ~(held >= MaxHoldDays)
  <2>1. ClosedToday(t, day, i) = <<>>
    BY <1>6, <1>8, <1>14
  <2>2. \A j \in e + 1..i : ~Touched(g, t, j)
    <3>1. ~Touched(g, t, i)
      BY <1>14 DEF Touched, atStop, atTarget
    <3>2. QED
      BY <1>1, <1>3, <1>5, <3>1
  <2>3. e \in 1..i /\ i - e < MaxHoldDays
    BY <1>1, <1>3, <1>4, <1>14
  <2>4. OpenOk(g, t)
    BY <1>3, <2>2, <2>3 DEF OpenOk, i, e
  <2>5. QED
    BY <2>1, <2>4 DEF Outcome, i, day
<1>15. QED
  BY <1>11, <1>12, <1>13, <1>14

\* A trade that opens has its levels on either side of the close of the day.
LEMMA Opens ==
  ASSUME NEW g \in Seq(Candles), Len(g) >= 1, NEW b \in Bars, NEW class \in Qualified,
         NEW t, t = OpenTrade(class, b, Len(g))
  PROVE  t \in Trades /\ t.entryIndex = Len(g) /\ OpenOk(g, t)
<1> DEFINE bullish == class = "CE_QUALIFIED"
           risk == Larger(IF bullish THEN b.close - b.low ELSE b.high - b.close, MinRisk(b.close))
<1>1. b.low \in Nat /\ b.high \in Nat /\ b.close \in Nat /\ MinRisk(b.close) \in Nat \ {0}
  BY BarTypes
<1>2. risk \in Nat \ {0}
  BY <1>1 DEF Larger
<1>3. t = [direction |-> IF bullish THEN "CE" ELSE "PE", entryIndex |-> Len(g), entry |-> b.close,
           sl |-> b.close - (IF bullish THEN 1 ELSE -1) * risk, target |-> b.close + 2 * (IF bullish THEN 1 ELSE -1) * risk]
  BY DEF OpenTrade
<1> HIDE DEF risk
<1>4. CASE bullish
  <2>1. t = [direction |-> "CE", entryIndex |-> Len(g), entry |-> b.close, sl |-> b.close - risk,
             target |-> b.close + 2 * risk]
    BY <1>1, <1>2, <1>3, <1>4
  <2>2. t \in Trades /\ t.entryIndex = Len(g) /\ LevelsOk(t)
    BY <1>1, <1>2, <2>1 DEF Trades, LevelsOk
  <2>3. QED
    BY <2>2, BacktestAssumption DEF OpenOk
<1>5. CASE ~bullish
  <2>1. b.close - (-1) * risk = b.close + risk /\ b.close + 2 * (-1) * risk = b.close - 2 * risk
    BY <1>1, <1>2
  <2>2. t = [direction |-> "PE", entryIndex |-> Len(g), entry |-> b.close, sl |-> b.close + risk,
             target |-> b.close - 2 * risk]
    BY <1>3, <1>5, <2>1
  <2>3. t \in Trades /\ t.entryIndex = Len(g) /\ LevelsOk(t)
    BY <1>1, <1>2, <2>2 DEF Trades, LevelsOk
  <2>4. QED
    BY <2>3, BacktestAssumption DEF OpenOk
<1>6. QED
  BY <1>4, <1>5

\* What a turn of the loop closes, what it leaves open, and whether it opens a trade.
ClosedBy(w, candle) == ClosedToday(w.open, candle.bar, Len(w.candles) + 1)
LeftOpen(w, candle) == IF ClosedBy(w, candle) = <<>> THEN w.open ELSE NoTrade
Turns(w, candle) == LeftOpen(w, candle) = NoTrade /\ candle.class \in Qualified /\ candle.class # w.prev

LEMMA TurnMeaning ==
  ASSUME NEW w \in Workers, NEW candle \in Candles, ClosedBy(w, candle) \in Seq(Closed), NEW v, v = OneDay(w, candle)
  PROVE  /\ v.candles = Append(w.candles, candle) /\ v.trades = w.trades \o ClosedBy(w, candle)
         /\ v.phase = w.phase /\ v.error = w.error
         /\ v.prev = IF candle.class = "NO_SNAPSHOT" THEN w.prev ELSE candle.class
         /\ v.open = IF Turns(w, candle) THEN OpenTrade(candle.class, candle.bar, Len(w.candles) + 1) ELSE LeftOpen(w, candle)
         /\ v.open \in Trades \cup {NoTrade} => v \in Workers
<1> DEFINE closed == ClosedBy(w, candle)
           open == LeftOpen(w, candle)
           turns == Turns(w, candle)
           i == Len(w.candles) + 1
           walked == [w EXCEPT !.candles = Append(w.candles, candle), !.trades = w.trades \o closed]
<1>1. w.candles \in Seq(Candles) /\ w.trades \in Seq(Closed) /\ Append(w.candles, candle) \in Seq(Candles)
  BY Appended DEF Workers
<1>2. DOMAIN w = {"phase", "candles", "open", "prev", "trades", "error"}
  BY DEF Workers
<1>3. candle.class \in DayClasses
  BY DEF Candles
<1>4. v = IF candle.class = "NO_SNAPSHOT" THEN [walked EXCEPT !.open = open]
          ELSE [walked EXCEPT !.prev = candle.class,
                              !.open = IF turns THEN OpenTrade(candle.class, candle.bar, i) ELSE open]
  BY DEF OneDay, Remember, ClosedBy, LeftOpen, Turns
<1>5. candle.class = "NO_SNAPSHOT" => ~turns
  BY DEF Qualified, Turns
<1> HIDE DEF closed, open, turns, i
<1>6. /\ v.candles = Append(w.candles, candle) /\ v.trades = w.trades \o closed /\ v.phase = w.phase /\ v.error = w.error
      /\ v.prev = IF candle.class = "NO_SNAPSHOT" THEN w.prev ELSE candle.class
      /\ v.open = IF turns THEN OpenTrade(candle.class, candle.bar, i) ELSE open
  BY <1>2, <1>4, <1>5
<1>7. ASSUME v.open \in Trades \cup {NoTrade} PROVE v \in Workers
  <2>1. w.trades \o closed \in Seq(Closed)
    BY <1>1 DEF closed
  <2>2. walked \in Workers
    BY <1>1, <2>1 DEF Workers
  <2>3. CASE candle.class = "NO_SNAPSHOT"
    <3>1. v = [walked EXCEPT !.open = v.open]
      BY <1>2, <1>4, <1>6, <2>3
    <3> HIDE DEF walked
    <3>2. QED
      BY <1>7, <2>2, <3>1 DEF Workers
  <2>4. CASE candle.class # "NO_SNAPSHOT"
    <3>1. v = [walked EXCEPT !.prev = candle.class, !.open = v.open]
      BY <1>2, <1>4, <1>6, <2>4
    <3> HIDE DEF walked
    <3>2. QED
      BY <1>3, <1>7, <2>2, <3>1 DEF Workers
  <2>5. QED
    BY <2>3, <2>4
<1>8. QED
  BY <1>6, <1>7 DEF closed, open, turns, i

\* The days that count as fresh turns are the days a trade opens on, one day later as well.
LEMMA TurnTransitions ==
  ASSUME NEW w, w.candles \in Seq(Candles), NEW candle \in Candles, NEW v, v.candles = Append(w.candles, candle),
         Transitions(w),
         w.prev = IF w.candles = <<>> \/ w.candles[Len(w.candles)].class = "NO_SNAPSHOT" THEN "None"
                  ELSE w.candles[Len(w.candles)].class,
         w.open # NoTrade => w.open.entryIndex \in 1..Len(w.candles),
         \A c \in Range(w.trades) : c.trade.entryIndex \in Nat /\ ExitIndex(c) \in Nat /\ ExitIndex(c) <= Len(w.candles),
         Range(v.trades) = Range(w.trades) \cup Range(ClosedBy(w, candle)),
         ClosedBy(w, candle) = <<>> <=> Range(ClosedBy(w, candle)) = {},
         \A c \in Range(ClosedBy(w, candle)) :
           w.open # NoTrade /\ c.trade = w.open /\ ExitIndex(c) = Len(w.candles) + 1 /\ ~CutShort(c),
         Turns(w, candle) => v.open # NoTrade /\ v.open.entryIndex = Len(w.candles) + 1,
         ~Turns(w, candle) => v.open = LeftOpen(w, candle)
  PROVE  Transitions(v)
<1> DEFINE h == w.candles
           g == Append(h, candle)
           n == Len(h)
           ended == Range(ClosedBy(w, candle))
           turns == Turns(w, candle)
<1>1. /\ g \in Seq(Candles) /\ n \in Nat /\ Len(g) = n + 1 /\ DOMAIN g = 1..(n + 1) /\ DOMAIN h = 1..n
      /\ (\A j \in 1..n : g[j] = h[j]) /\ g[n + 1] = candle
  BY Appended
<1>2. /\ v.candles = g /\ w.candles = h
      /\ w.prev = IF h = <<>> \/ h[n].class = "NO_SNAPSHOT" THEN "None" ELSE h[n].class
      /\ w.open # NoTrade => w.open.entryIndex \in 1..n
      /\ \A c \in Range(w.trades) : c.trade.entryIndex \in Nat /\ ExitIndex(c) \in Nat /\ ExitIndex(c) <= n
      /\ Range(v.trades) = Range(w.trades) \cup ended
      /\ \A c \in ended : w.open # NoTrade /\ c.trade = w.open /\ ExitIndex(c) = n + 1 /\ ~CutShort(c)
      /\ turns => v.open # NoTrade /\ v.open.entryIndex = n + 1
  OBVIOUS
<1>3. /\ turns \in BOOLEAN
      /\ turns <=> (w.open = NoTrade \/ ended # {}) /\ candle.class \in Qualified /\ candle.class # w.prev
      /\ ~turns => v.open = IF ended = {} THEN w.open ELSE NoTrade
  BY DEF Turns, LeftOpen
<1> HIDE DEF ended, turns
<1>4. Opened(v) = Opened(w) \cup (IF turns THEN {n + 1} ELSE {})
  <2>1. {c.trade.entryIndex : c \in Range(v.trades)}
          = {c.trade.entryIndex : c \in Range(w.trades)} \cup {c.trade.entryIndex : c \in ended}
    BY <1>2
  <2>2. ended = {} => {c.trade.entryIndex : c \in ended} = {}
    OBVIOUS
  <2>3. ended # {} => {c.trade.entryIndex : c \in ended} = {w.open.entryIndex} /\ w.open # NoTrade
    <3>1. SUFFICES ASSUME ended # {} PROVE {c.trade.entryIndex : c \in ended} = {w.open.entryIndex} /\ w.open # NoTrade
      OBVIOUS
    <3>2. PICK c \in ended : TRUE
      BY <3>1
    <3>3. w.open # NoTrade /\ c.trade = w.open
      BY <1>2, <3>2
    <3>4. QED
      BY <1>2, <3>2, <3>3
  <2> DEFINE old == {c.trade.entryIndex : c \in Range(w.trades)}
             new == {c.trade.entryIndex : c \in ended}
  <2>4. Opened(w) = old \cup (IF w.open = NoTrade THEN {} ELSE {w.open.entryIndex})
    BY DEF Opened
  <2>5. Opened(v) = old \cup new \cup (IF v.open = NoTrade THEN {} ELSE {v.open.entryIndex})
    BY <2>1 DEF Opened
  <2> HIDE DEF old
  <2>6. CASE ended = {}
    <3>1. new = {}
      BY <2>6
    <3> HIDE DEF new
    <3>2. turns => w.open = NoTrade
      BY <1>3, <2>6
    <3>3. QED
      BY <1>2, <1>3, <2>4, <2>5, <2>6, <3>1, <3>2
  <2>7. CASE ended # {}
    <3>1. new = {w.open.entryIndex} /\ w.open # NoTrade
      BY <2>3, <2>7
    <3> HIDE DEF new
    <3>2. QED
      BY <1>2, <1>3, <2>4, <2>5, <2>7, <3>1
  <2>8. QED
    BY <2>6, <2>7
<1>5. ASSUME NEW i \in 1..n PROVE Carried(v, i) <=> Carried(w, i)
  <2> DEFINE Past(c) == c.trade.entryIndex < i /\ (i < ExitIndex(c) \/ (i = ExitIndex(c) /\ CutShort(c)))
  <2>1. /\ Carried(v, i) <=> (v.open # NoTrade /\ v.open.entryIndex < i) \/ (\E c \in Range(w.trades) : Past(c))
                             \/ (\E c \in ended : Past(c))
        /\ Carried(w, i) <=> (w.open # NoTrade /\ w.open.entryIndex < i) \/ (\E c \in Range(w.trades) : Past(c))
    BY <1>2 DEF Carried
  <2>2. \A c \in ended : Past(c) <=> w.open.entryIndex < i
    BY <1>1, <1>2
  <2> HIDE DEF Past
  <2>3. (\E c \in ended : Past(c)) <=> ended # {} /\ w.open # NoTrade /\ w.open.entryIndex < i
    BY <1>2, <2>2
  <2>4. CASE turns
    <3>1. ~(v.open.entryIndex < i)
      BY <1>1, <1>2, <2>4
    <3>2. w.open = NoTrade \/ ended # {}
      BY <1>3, <2>4
    <3>3. QED
      BY <2>1, <2>3, <3>1, <3>2
  <2>5. CASE ~turns
    BY <1>3, <2>1, <2>3, <2>5
  <2>6. QED
    BY <2>4, <2>5
<1>6. Carried(v, n + 1) <=> w.open # NoTrade /\ ended = {}
  <2> DEFINE Past(c) == c.trade.entryIndex < n + 1 /\ (n + 1 < ExitIndex(c) \/ (n + 1 = ExitIndex(c) /\ CutShort(c)))
  <2>1. Carried(v, n + 1) <=> (v.open # NoTrade /\ v.open.entryIndex < n + 1) \/ (\E c \in Range(w.trades) : Past(c))
                              \/ (\E c \in ended : Past(c))
    BY <1>2 DEF Carried
  <2>2. \A c \in ended : ~Past(c)
    BY <1>1, <1>2
  <2>3. \A c \in Range(w.trades) : ~Past(c)
    BY <1>1, <1>2
  <2> HIDE DEF Past
  <2>4. CASE turns
    <3>1. ~(v.open.entryIndex < n + 1)
      BY <1>1, <1>2, <2>4
    <3>2. w.open = NoTrade \/ ended # {}
      BY <1>3, <2>4
    <3>3. QED
      BY <2>1, <2>2, <2>3, <3>1, <3>2
  <2>5. CASE ~turns
    BY <1>1, <1>2, <1>3, <2>1, <2>2, <2>3, <2>5
  <2>6. QED
    BY <2>4, <2>5
<1>7. \A i \in 1..n : Fresh(g, i) <=> Fresh(h, i)
  BY <1>1 DEF Fresh, ClassBefore
<1>8. Fresh(g, n + 1) <=> candle.class \in Qualified /\ candle.class # w.prev
  <2>1. n = 0 <=> h = <<>>
    BY <1>1
  <2>2. ClassBefore(g, n + 1) = w.prev
    <3>1. CASE n = 0
      BY <1>1, <1>2, <2>1, <3>1 DEF ClassBefore
    <3>2. CASE n # 0
      <4>1. n \in 1..n /\ (n + 1) - 1 = n /\ n + 1 # 1
        BY <1>1, <3>2
      <4>2. g[n] = h[n]
        BY <1>1, <4>1
      <4>3. ClassBefore(g, n + 1) = IF h[n].class = "NO_SNAPSHOT" THEN "None" ELSE h[n].class
        BY <4>1, <4>2 DEF ClassBefore
      <4>4. QED
        BY <1>2, <2>1, <3>2, <4>3
    <3>3. QED
      BY <3>1, <3>2
  <2>3. QED
    BY <1>1, <2>2 DEF Fresh
<1>9. Opened(w) = {i \in 1..n : Fresh(h, i) /\ ~Carried(w, i)}
  BY <1>1 DEF Transitions
<1> HIDE DEF n
<1>10. turns <=> Fresh(g, n + 1) /\ ~Carried(v, n + 1)
  BY <1>3, <1>6, <1>8
<1>11. ASSUME NEW i PROVE i \in Opened(v) <=> i \in 1..(n + 1) /\ Fresh(g, i) /\ ~Carried(v, i)
  <2>1. i \in 1..(n + 1) <=> i \in 1..n \/ i = n + 1
    BY <1>1
  <2>2. n + 1 \notin 1..n
    BY <1>1
  <2>3. QED
    BY <1>4, <1>5, <1>7, <1>9, <1>10, <2>1, <2>2
<1>12. Opened(v) = {i \in 1..(n + 1) : Fresh(g, i) /\ ~Carried(v, i)}
  BY <1>11
<1>13. QED
  BY <1>1, <1>2, <1>12 DEF Transitions

LEMMA RangeAppended ==
  ASSUME NEW s \in Seq(Closed), NEW t \in Seq(Closed)
  PROVE  Range(s \o t) = Range(s) \cup Range(t)
<1>1. \A x : x \in Range(s \o t) <=> \E k \in 1..(Len(s) + Len(t)) : (s \o t)[k] = x
  BY DEF Range
<1>2. /\ \A x : x \in Range(s) <=> \E k \in 1..Len(s) : s[k] = x
      /\ \A x : x \in Range(t) <=> \E k \in 1..Len(t) : t[k] = x
  BY DEF Range
<1>3. ASSUME NEW k \in 1..(Len(s) + Len(t)) PROVE (s \o t)[k] \in Range(s) \cup Range(t)
  <2>1. CASE k <= Len(s)
    BY <1>2, <2>1
  <2>2. CASE ~(k <= Len(s))
    <3>1. k - Len(s) \in 1..Len(t) /\ (s \o t)[k] = t[k - Len(s)]
      BY <2>2
    <3>2. QED
      BY <1>2, <3>1
  <2>3. QED
    BY <2>1, <2>2
<1>4. ASSUME NEW k \in 1..Len(s) PROVE s[k] \in Range(s \o t)
  <2>1. k \in 1..(Len(s) + Len(t)) /\ (s \o t)[k] = s[k]
    OBVIOUS
  <2>2. QED
    BY <1>1, <2>1
<1>5. ASSUME NEW k \in 1..Len(t) PROVE t[k] \in Range(s \o t)
  <2>1. k + Len(s) \in 1..(Len(s) + Len(t)) /\ (s \o t)[k + Len(s)] = t[k]
    OBVIOUS
  <2>2. QED
    BY <1>1, <2>1
<1>6. QED
  BY <1>1, <1>2, <1>3, <1>4, <1>5

LEMMA Single == ASSUME NEW c \in Closed PROVE <<c>> \in Seq(Closed) /\ Range(<<c>>) = {c} /\ <<c>> # <<>>
BY DEF Range

LEMMA RangeTypes == ASSUME NEW s \in Seq(Closed), NEW c \in Range(s) PROVE c \in Closed
BY DEF Range

\* A turn of the loop keeps what holds of a worker.
LEMMA WalkDay ==
  ASSUME NEW w, WalkInv(w), NEW candle \in Candles,
         candle.class = "NO_SNAPSHOT" => \A i \in DOMAIN w.candles : w.candles[i].class = "NO_SNAPSHOT",
         NEW v, v = OneDay(w, candle)
  PROVE  WalkInv(v) /\ v.candles = Append(w.candles, candle) /\ v.phase = w.phase /\ v.error = w.error
<1> DEFINE h == w.candles
           g == Append(h, candle)
           i == Len(h) + 1
           closed == ClosedBy(w, candle)
           ended == Range(closed)
           turns == Turns(w, candle)
           new == OpenTrade(candle.class, candle.bar, i)
<1>1. /\ w \in Workers /\ h \in Seq(Candles) /\ w.open \in Trades \cup {NoTrade} /\ w.trades \in Seq(Closed)
  BY DEF WalkInv, Workers
<1>2. /\ g \in Seq(Candles) /\ Len(g) = i /\ Len(h) \in Nat /\ g[i] = candle
      /\ DOMAIN h = 1..Len(h) /\ i >= 1
  BY <1>1, Appended
<1>3. /\ w.prev = IF h = <<>> \/ h[Len(h)].class = "NO_SNAPSHOT" THEN "None" ELSE h[Len(h)].class
      /\ w.open # NoTrade => OpenOk(h, w.open)
      /\ \A c \in Range(w.trades) : ClosedOk(h, c) /\ ~CutShort(c)
      /\ Transitions(w)
  BY DEF WalkInv
<1>4. \/ closed = <<>> /\ (w.open # NoTrade => OpenOk(g, w.open))
      \/ \E c \in Closed : /\ closed = <<c>> /\ w.open # NoTrade
                         /\ c.trade = w.open /\ ExitIndex(c) = i /\ ClosedOk(g, c) /\ ~CutShort(c)
  <2>1. CASE w.open = NoTrade
    BY <2>1 DEF ClosedToday, ClosedBy
  <2>2. CASE w.open # NoTrade
    <3>1. w.open \in Trades /\ OpenOk(h, w.open)
      BY <1>1, <1>3, <2>2
    <3>2. closed = ClosedToday(w.open, candle.bar, Len(g))
      BY <1>2 DEF ClosedBy
    <3>3. g = Append(h, candle)
      OBVIOUS
    <3> HIDE DEF closed, g
    <3>4. Outcome(g, w.open, closed)
      BY <1>1, <3>1, <3>2, <3>3, DayOfTrade
    <3>5. QED
      BY <1>2, <2>2, <3>4 DEF Outcome
  <2>3. QED
    BY <2>1, <2>2
<1>5. /\ closed \in Seq(Closed) /\ (closed = <<>> <=> ended = {})
      /\ closed = <<>> /\ w.open # NoTrade => OpenOk(g, w.open)
      /\ \A c \in ended : w.open # NoTrade /\ c.trade = w.open /\ ExitIndex(c) = i /\ ClosedOk(g, c) /\ ~CutShort(c)
  <2> HIDE DEF closed, g, i
  <2>1. CASE closed = <<>>
    <3>1. closed \in Seq(Closed) /\ ended = {}
      BY <2>1 DEF Range
    <3>2. w.open # NoTrade => OpenOk(g, w.open)
      BY <1>4, <2>1, Single
    <3>3. QED
      BY <2>1, <3>1, <3>2
  <2>2. CASE closed # <<>>
    <3>1. PICK c \in Closed : /\ closed = <<c>> /\ w.open # NoTrade
                              /\ c.trade = w.open /\ ExitIndex(c) = i /\ ClosedOk(g, c) /\ ~CutShort(c)
      BY <1>4, <2>2
    <3>2. closed \in Seq(Closed) /\ ended = {c}
      BY <3>1, Single
    <3>3. QED
      BY <2>2, <3>1, <3>2
  <2>3. QED
    BY <2>1, <2>2
<1>6. turns => /\ new \in Trades /\ new.entryIndex = i /\ OpenOk(g, new) /\ new # NoTrade
  <2>1. candle.bar \in Bars
    BY DEF Candles
  <2>2. turns => candle.class \in Qualified
    BY DEF Turns
  <2>3. QED
    BY <1>2, <2>1, <2>2, Opens, BacktestAssumption
<1>7. /\ v.candles = g /\ v.trades = w.trades \o closed /\ v.phase = w.phase /\ v.error = w.error
      /\ v.prev = IF candle.class = "NO_SNAPSHOT" THEN w.prev ELSE candle.class
      /\ v.open = IF turns THEN new ELSE LeftOpen(w, candle)
      /\ v.open \in Trades \cup {NoTrade} => v \in Workers
  <2>1. w \in Workers /\ ClosedBy(w, candle) \in Seq(Closed)
    BY <1>1, <1>5
  <2> HIDE DEF h, g, i, closed, ended, turns, new
  <2>2. /\ v.candles = Append(w.candles, candle) /\ v.trades = w.trades \o ClosedBy(w, candle)
        /\ v.phase = w.phase /\ v.error = w.error
        /\ v.prev = IF candle.class = "NO_SNAPSHOT" THEN w.prev ELSE candle.class
        /\ v.open = IF Turns(w, candle) THEN OpenTrade(candle.class, candle.bar, Len(w.candles) + 1)
                    ELSE LeftOpen(w, candle)
        /\ v.open \in Trades \cup {NoTrade} => v \in Workers
    BY <2>1, TurnMeaning
  <2>3. QED
    BY <2>2 DEF h, g, i, closed, turns, new
<1>8. Range(v.trades) = Range(w.trades) \cup ended
  BY <1>1, <1>5, <1>7, RangeAppended
<1>9. LeftOpen(w, candle) = IF closed = <<>> THEN w.open ELSE NoTrade
  BY DEF LeftOpen
<1> HIDE DEF closed, ended, turns, new
<1>10. v \in Workers
  BY <1>1, <1>6, <1>7, <1>9
<1>11. v.open # NoTrade => OpenOk(g, v.open)
  BY <1>5, <1>6, <1>7, <1>9
<1>12. \A c \in Range(v.trades) : ClosedOk(g, c) /\ ~CutShort(c)
  <2>1. \A c \in Range(w.trades) : ClosedOk(g, c) /\ ~CutShort(c)
    BY <1>1, <1>3, RangeTypes, ClosedStays
  <2>2. QED
    BY <1>5, <1>8, <2>1
<1>13. v.prev = IF g = <<>> \/ g[Len(g)].class = "NO_SNAPSHOT" THEN "None" ELSE g[Len(g)].class
  <2>1. g # <<>> /\ g[Len(g)] = candle
    BY <1>2
  <2>2. candle.class = "NO_SNAPSHOT" => w.prev = "None"
    BY <1>2, <1>3
  <2>3. QED
    BY <1>7, <2>1, <2>2
<1>14. Transitions(v)
  <2>1. w.open # NoTrade => w.open.entryIndex \in 1..Len(h)
    BY <1>3 DEF OpenOk
  <2>2. \A c \in Range(w.trades) : c.trade.entryIndex \in Nat /\ ExitIndex(c) \in Nat /\ ExitIndex(c) <= Len(h)
    <3>1. ASSUME NEW c \in Range(w.trades)
          PROVE  c.trade.entryIndex \in Nat /\ ExitIndex(c) \in Nat /\ ExitIndex(c) <= Len(h)
      <4>1. c \in Closed
        BY <1>1, RangeTypes
      <4>2. c.trade.entryIndex \in Nat /\ c.holdDays \in Nat
        BY <4>1 DEF Closed, Trades
      <4>3. QED
        BY <1>3, <4>2 DEF ClosedOk, ExitIndex
    <3>2. QED
      BY <3>1
  <2>3. /\ turns => v.open # NoTrade /\ v.open.entryIndex = i
        /\ ~turns => v.open = LeftOpen(w, candle)
    BY <1>6, <1>7
  <2>4. QED
    BY <1>1, <1>3, <1>5, <1>7, <1>8, <2>1, <2>2, <2>3, TurnTransitions DEF closed, ended, turns
<1>15. QED
  BY <1>7, <1>10, <1>11, <1>12, <1>13, <1>14 DEF WalkInv

\* What the walk of a symbol comes to, its last trade closed at the last candle.
WholeWalk(w) == (\A c \in Range(w.trades) : FirstTouch(w.candles, c)) /\ Transitions(w)

LEMMA WalkEnd ==
  ASSUME NEW w, WalkInv(w), w.candles # <<>>,
         NEW v, v = [w EXCEPT !.phase = "returned", !.trades = w.trades \o Leftover(w), !.open = NoTrade]
  PROVE  v \in Workers /\ v.phase = "returned" /\ v.candles = w.candles /\ WholeWalk(v)
<1> DEFINE h == w.candles
           n == Len(h)
           last == Leftover(w)
           t == w.open
           c == CloseTrade(t, h[n].bar.close, "time_exit", n - t.entryIndex)
<1>1. /\ w \in Workers /\ h \in Seq(Candles) /\ t \in Trades \cup {NoTrade} /\ w.trades \in Seq(Closed)
      /\ n \in Nat \ {0} /\ DOMAIN h = 1..n /\ h[n] \in Candles
  BY DEF WalkInv, Workers
<1>2. /\ t # NoTrade => OpenOk(h, t)
      /\ \A d \in Range(w.trades) : ClosedOk(h, d) /\ ~CutShort(d)
      /\ Opened(w) = {i \in DOMAIN h : Fresh(h, i) /\ ~Carried(w, i)}
  BY DEF WalkInv, Transitions
<1>3. ASSUME t # NoTrade
      PROVE  /\ last = <<c>> /\ c \in Closed /\ c.trade = t /\ ExitIndex(c) = n /\ CutShort(c) /\ FirstTouch(h, c)
             /\ t.entryIndex \in 1..n
  <2>1. t \in Trades /\ OpenOk(h, t)
    BY <1>1, <1>2, <1>3
  <2>2. /\ t.entryIndex \in 1..n /\ n - t.entryIndex < MaxHoldDays /\ n - t.entryIndex \in Nat
        /\ \A i \in t.entryIndex + 1..n : ~Touched(h, t, i)
    BY <1>1, <2>1 DEF OpenOk
  <2>3. h[n].bar \in Bars /\ h[n].bar.close \in Nat
    BY <1>1, BarTypes DEF Candles
  <2>4. t.direction \in {"CE", "PE"} /\ t.entry \in Int
    BY <2>1 DEF Trades
  <2>5. /\ c \in Closed /\ c.trade = t /\ ExitIndex(c) = n /\ c.reason = "time_exit" /\ c.holdDays = n - t.entryIndex
    BY <1>1, <2>1, <2>2, <2>3, <2>4 DEF CloseTrade, Closed, Reasons, ExitIndex
  <2>6. last = <<c>>
    BY <1>3 DEF Leftover
  <2> HIDE DEF c, n, h, t, last
  <2>7. CutShort(c)
    BY <2>2, <2>5 DEF CutShort
  <2>8. FirstTouch(h, c)
    <3>1. c.holdDays > 0 => ~Touched(h, t, n)
      BY <1>1, <2>2, <2>5
    <3>2. \A i \in t.entryIndex + 1..n - 1 : ~Touched(h, t, i)
      BY <1>1, <2>2
    <3>3. c.holdDays <= MaxHoldDays
      BY <2>2, <2>5, BacktestAssumption
    <3>4. QED
      BY <2>5, <3>1, <3>2, <3>3 DEF FirstTouch
  <2>9. QED
    BY <2>2, <2>5, <2>6, <2>7, <2>8
<1>4. t = NoTrade => last = <<>>
  BY DEF Leftover
<1> HIDE DEF last, c
<1>5. last \in Seq(Closed) /\ Range(last) = IF t = NoTrade THEN {} ELSE {c}
  <2>1. CASE t = NoTrade
    BY <1>4, <2>1 DEF Range
  <2>2. CASE t # NoTrade
    BY <1>3, <2>2, Single
  <2>3. QED
    BY <2>1, <2>2
<1>6. /\ v \in Workers /\ v.phase = "returned" /\ v.candles = h /\ v.open = NoTrade /\ v.trades = w.trades \o last
  <2>1. w.trades \o last \in Seq(Closed)
    BY <1>1, <1>5
  <2>2. v = [w EXCEPT !.phase = "returned", !.trades = w.trades \o last, !.open = NoTrade]
    BY DEF last
  <2>3. QED
    BY <1>1, <2>1, <2>2 DEF Workers, Phases
<1>7. Range(v.trades) = Range(w.trades) \cup (IF t = NoTrade THEN {} ELSE {c})
  BY <1>1, <1>5, <1>6, RangeAppended
<1>8. \A d \in Range(v.trades) : FirstTouch(h, d)
  BY <1>2, <1>3, <1>7 DEF ClosedOk
<1>9. Opened(v) = Opened(w)
  BY <1>3, <1>6, <1>7 DEF Opened
<1>10. ASSUME NEW i \in 1..n PROVE Carried(v, i) <=> Carried(w, i)
  <2> DEFINE Past(d) == d.trade.entryIndex < i /\ (i < ExitIndex(d) \/ (i = ExitIndex(d) /\ CutShort(d)))
  <2>1. /\ Carried(v, i) <=> \E d \in Range(v.trades) : Past(d)
        /\ Carried(w, i) <=> (t # NoTrade /\ t.entryIndex < i) \/ \E d \in Range(w.trades) : Past(d)
    BY <1>6 DEF Carried
  <2>2. t # NoTrade => (Past(c) <=> t.entryIndex < i)
    BY <1>1, <1>3
  <2> HIDE DEF Past
  <2>3. QED
    BY <1>7, <2>1, <2>2
<1>11. Transitions(v)
  <2>1. {i \in 1..n : Fresh(h, i) /\ ~Carried(v, i)} = {i \in 1..n : Fresh(h, i) /\ ~Carried(w, i)}
    BY <1>10
  <2>2. QED
    BY <1>1, <1>2, <1>6, <1>9, <2>1 DEF Transitions
<1>12. QED
  BY <1>6, <1>8, <1>11 DEF WholeWalk

------------------------------------------------------------------------------
(* A worker *)

WorkerInv(w) ==
  /\ w \in Workers
  /\ w.phase \in {"queued", "fetching", "raised"} =>
       w.candles = <<>> /\ w.open = NoTrade /\ w.prev = "None" /\ w.trades = <<>>
  /\ w.phase = "walking" => WalkInv(w)
  /\ w.phase = "returned" => (w.candles # <<>> => WholeWalk(w))
  /\ w.phase = "taken" => w.candles = <<>>

WorkersInv == worker \in [Symbols -> Workers] /\ \A s \in Symbols : WorkerInv(worker[s])

\* What holds of a worker says what the run promises of its trades.
LEMMA WorkerShows ==
  ASSUME NEW w, WorkerInv(w), w.candles # <<>>
  PROVE  WholeWalk(w)
<1>1. w.phase \in Phases
  BY DEF WorkerInv, Workers
<1>2. CASE w.phase = "walking"
  BY <1>2 DEF WorkerInv, WalkInv, WholeWalk, ClosedOk
<1>3. QED
  BY <1>1, <1>2 DEF WorkerInv, Phases

LEMMA WorkerStart ==
  ASSUME NEW w, w \in Workers, w.candles = <<>>, w.open = NoTrade, w.prev = "None", w.trades = <<>>
  PROVE  WalkInv(w)
<1>1. Range(w.trades) = {} /\ DOMAIN w.candles = {}
  BY DEF Range
<1>2. Opened(w) = {}
  BY <1>1 DEF Opened
<1>3. QED
  BY <1>1, <1>2 DEF WalkInv, Transitions

LEMMA WorkersStep == ASSUME WorkersInv, [Next]_vars PROVE WorkersInv'
<1>1. worker \in [Symbols -> Workers] /\ \A s \in Symbols : worker[s] \in Workers /\ WorkerInv(worker[s])
  BY DEF WorkersInv
<1>2. ASSUME NEW s \in Symbols, NEW v, v \in Workers, WorkerInv(v), worker' = [worker EXCEPT ![s] = v]
      PROVE  WorkersInv'
  BY <1>1, <1>2 DEF WorkersInv
<1>3. CASE UNCHANGED worker
  BY <1>1, <1>3 DEF WorkersInv
<1>4. ASSUME NEW s \in Symbols, Work(s) PROVE WorkersInv'
  <2> DEFINE w == worker[s]
  <2>1. w \in Workers /\ WorkerInv(w)
    BY <1>1
  <2>2. \A p \in Phases : [w EXCEPT !.phase = p] \in Workers
    BY <2>1 DEF Workers
  <2>3. CASE TakeSymbol(s)
    <3> DEFINE v == [w EXCEPT !.phase = "fetching"]
    <3>1. worker' = [worker EXCEPT ![s] = v] /\ w.phase = "queued"
      BY <2>3 DEF TakeSymbol
    <3>2. v \in Workers
      BY <2>2 DEF Phases
    <3>3. WorkerInv(v)
      BY <2>1, <3>1, <3>2 DEF WorkerInv, Workers
    <3>4. QED
      BY <1>2, <3>1, <3>2, <3>3
  <2>4. CASE Fetched(s)
    <3> DEFINE v == [w EXCEPT !.phase = "walking"]
    <3>1. worker' = [worker EXCEPT ![s] = v] /\ w.phase = "fetching"
      BY <2>4 DEF Fetched
    <3>2. v \in Workers /\ v.phase = "walking"
      BY <2>1, <2>2 DEF Phases, Workers
    <3>3. v.candles = <<>> /\ v.open = NoTrade /\ v.prev = "None" /\ v.trades = <<>>
      BY <2>1, <3>1 DEF WorkerInv, Workers
    <3> HIDE DEF v
    <3>4. WalkInv(v)
      BY <3>2, <3>3, WorkerStart
    <3>5. WorkerInv(v)
      BY <3>2, <3>4 DEF WorkerInv
    <3>6. QED
      BY <1>2, <3>1, <3>2, <3>5
  <2>5. CASE FetchFails(s)
    <3> DEFINE v == [w EXCEPT !.phase = "returned", !.error = TRUE]
    <3>1. worker' = [worker EXCEPT ![s] = v] /\ w.phase = "fetching"
      BY <2>5 DEF FetchFails
    <3>2. v \in Workers /\ v.phase = "returned" /\ v.candles = w.candles
      BY <2>1 DEF Phases, Workers
    <3>3. v.candles = <<>>
      BY <2>1, <3>1, <3>2 DEF WorkerInv
    <3> HIDE DEF v
    <3>4. WorkerInv(v)
      BY <3>2, <3>3 DEF WorkerInv
    <3>5. QED
      BY <1>2, <3>1, <3>2, <3>4
  <2>6. CASE WorkerRaises(s)
    <3> DEFINE v == [w EXCEPT !.phase = "raised"]
    <3>1. worker' = [worker EXCEPT ![s] = v] /\ w.phase = "fetching"
      BY <2>6 DEF WorkerRaises
    <3>2. v \in Workers
      BY <2>2 DEF Phases
    <3>3. WorkerInv(v)
      BY <2>1, <3>1, <3>2 DEF WorkerInv, Workers
    <3>4. QED
      BY <1>2, <3>1, <3>2, <3>3
  <2>7. CASE Day(s)
    <3>1. PICK bar \in Bars, class \in DayClasses :
            /\ class = "NO_SNAPSHOT" => \A i \in DOMAIN w.candles : w.candles[i].class = "NO_SNAPSHOT"
            /\ worker' = [worker EXCEPT ![s] = OneDay(worker[s], [bar |-> bar, class |-> class])]
      BY <2>7 DEF Day
    <3> DEFINE candle == [bar |-> bar, class |-> class]
               v == OneDay(w, candle)
    <3>2. candle \in Candles /\ candle.class = class
      BY DEF Candles
    <3>3. w.phase = "walking" /\ WalkInv(w)
      BY <2>1, <2>7 DEF Day, WorkerInv
    <3>4. worker' = [worker EXCEPT ![s] = v]
      BY <3>1
    <3>5. candle.class = "NO_SNAPSHOT" => \A i \in DOMAIN w.candles : w.candles[i].class = "NO_SNAPSHOT"
      BY <3>1
    <3> HIDE DEF candle, w
    <3>6. WalkInv(v) /\ v.phase = "walking"
      BY <3>2, <3>3, <3>5, WalkDay
    <3>7. v \in Workers /\ WorkerInv(v)
      BY <3>6 DEF WorkerInv, WalkInv
    <3> HIDE DEF v
    <3>8. QED
      BY <1>2, <3>4, <3>7
  <2>8. CASE EndOfCandles(s)
    <3> DEFINE v == [w EXCEPT !.phase = "returned", !.trades = w.trades \o Leftover(w), !.open = NoTrade]
    <3>1. worker' = [worker EXCEPT ![s] = v] /\ w.phase = "walking" /\ Len(w.candles) = Horizon[s]
      BY <2>8 DEF EndOfCandles
    <3>2. WalkInv(w)
      BY <2>1, <3>1 DEF WorkerInv
    <3>3. w.candles # <<>>
      <4>1. Horizon[s] # 0
        BY BacktestAssumption
      <4>2. QED
        BY <3>1, <4>1
    <3> HIDE DEF w
    <3>4. v \in Workers /\ v.phase = "returned" /\ WholeWalk(v)
      BY <3>2, <3>3, WalkEnd
    <3> HIDE DEF v
    <3>5. WorkerInv(v)
      BY <3>4 DEF WorkerInv
    <3>6. QED
      BY <1>2, <3>1, <3>4, <3>5
  <2>9. QED
    BY <1>4, <2>3, <2>4, <2>5, <2>6, <2>7, <2>8 DEF Work
<1>5. ASSUME NEW s \in Symbols, TakeResult(s) PROVE WorkersInv'
  <2> DEFINE w == worker[s]
             v == [w EXCEPT !.phase = "taken", !.candles = <<>>, !.prev = "None"]
  <2>1. worker' = [worker EXCEPT ![s] = v]
    BY <1>5 DEF TakeResult
  <2>2. w \in Workers
    BY <1>1
  <2>3. v \in Workers /\ v.phase = "taken" /\ v.candles = <<>>
    <3>1. "taken" \in Phases /\ <<>> \in Seq(Candles) /\ "None" \in DayClasses \cup {"None"}
      BY DEF Phases
    <3>2. QED
      BY <2>2, <3>1 DEF Workers
  <2> HIDE DEF v
  <2>4. WorkerInv(v)
    BY <2>3 DEF WorkerInv
  <2>5. QED
    BY <1>2, <2>1, <2>3, <2>4
<1>6. CASE ProcessDies
  <2> DEFINE v == [phase |-> "queued", candles |-> <<>>, open |-> NoTrade, prev |-> "None", trades |-> <<>>, error |-> FALSE]
  <2>1. worker' = [s \in Symbols |-> v]
    BY <1>6 DEF ProcessDies, NewWorkers
  <2>2. v \in Workers /\ WorkerInv(v)
    BY DEF Workers, Phases, WorkerInv
  <2> HIDE DEF v
  <2>3. QED
    BY <2>1, <2>2 DEF WorkersInv
<1>7. QED
  BY <1>3, <1>4, <1>5, <1>6
     DEF Next, Collect, vars, StartBacktest, SubmitAll, UniverseUnreadable, InsertTrade, InsertFails, EndUnwritten, NextResult, FailRun, FinishRun

LEMMA WorkersInit == ASSUME Init PROVE WorkersInv
<1> DEFINE v == [phase |-> "queued", candles |-> <<>>, open |-> NoTrade, prev |-> "None", trades |-> <<>>, error |-> FALSE]
<1>1. worker = [s \in Symbols |-> v]
  BY DEF Init, NewWorkers
<1>2. v \in Workers /\ WorkerInv(v)
  BY DEF Workers, Phases, WorkerInv
<1> HIDE DEF v
<1>3. QED
  BY <1>1, <1>2 DEF WorkersInv

\* The inductive invariant of the workers: what a worker holds is the walk of the candles it has seen
\* (_simulate_symbol), and its symbol, candles and phase keep their types.
THEOREM WorkersHold == Spec => []WorkersInv
<1>1. WorkersInv /\ [Next]_vars => WorkersInv'
  BY WorkersStep
<1>2. QED
  BY WorkersInit, <1>1, PTL DEF Spec

\* The exit of every trade is the first of its levels that a candle touched, the stop where one candle touched both, or
\* the holding limit; for any candles, period and limit (backtest.py:131-193).
THEOREM ExitsAreFirstTouches == Spec => []ExitIsFirstTouch
<1>1. WorkersInv => ExitIsFirstTouch
  BY WorkerShows DEF WorkersInv, ExitIsFirstTouch, WholeWalk
<1>2. QED
  BY WorkersHold, <1>1, PTL

\* A trade opens on exactly the days whose class turns qualified while no trade is carried through them; for any
\* classes and candles (backtest.py:181-212).
THEOREM TradesFollowTransitions == Spec => []TradesAreTransitions
<1>1. WorkersInv => TradesAreTransitions
  BY WorkerShows DEF WorkersInv, TradesAreTransitions, WholeWalk, Transitions
<1>2. QED
  BY WorkersHold, <1>1, PTL

------------------------------------------------------------------------------
(* The run *)

Row == [symbol : Symbols, closed : Closed]

\* The rows of a symbol stand together in a sequence of rows, and are the given trades.
StoredIn(q, s, trades, from, to) ==
  /\ \A k \in DOMAIN q : q[k].symbol = s <=> from < k /\ k <= to
  /\ to - from = Len(trades)
  /\ \A k \in from + 1..to : q[k] = [symbol |-> s, closed |-> trades[k - from]]

\* The trades of a worker whose result was taken are among the rows, those of any other are not.
Kept(q, s, w) ==
  IF w.phase = "taken" THEN \E from, to \in 0..Len(q) : StoredIn(q, s, w.trades, from, to)
  ELSE \A k \in DOMAIN q : q[k].symbol # s

\* The rows that are written and those still to be written.
Collected == rows \o thread.toWrite

Nothing == rows = <<>> /\ thread.all = <<>> /\ thread.toWrite = <<>> /\ thread.errors = {}
           /\ \A s \in Symbols : worker[s].phase # "taken"

CollectInv ==
  /\ thread.toWrite \in Seq(Row) /\ thread.all = rows
  /\ thread.at = "waiting" => thread.toWrite = <<>>
  /\ thread.errors = {s \in Symbols : worker[s].phase = "taken" /\ worker[s].error}
  /\ \A s \in Symbols : Kept(Collected, s, worker[s])

RunInv ==
  /\ rows \in Seq(Row) /\ DOMAIN thread = {"at", "toWrite", "errors", "all"} /\ DOMAIN run = {"status", "stats"}
  /\ run.status = "completed" => CompletedIsWhole /\ thread.at = "ended"
  /\ run.status = "none" => thread.at = "none"
  /\ thread.at \in {"none", "starting"} => Nothing
  /\ thread.at \in {"waiting", "writing"} => CollectInv

\* Every row is a win, a loss or a time exit.
LEMMA CountsAdd ==
  ASSUME NEW q \in Seq(Row)
  PROVE  Count(q, "target_hit") + Count(q, "sl_hit") + Count(q, "time_exit") = Len(q)
<1> DEFINE D == 1..Len(q)
           A == {k \in DOMAIN q : q[k].closed.reason = "target_hit"}
           B == {k \in DOMAIN q : q[k].closed.reason = "sl_hit"}
           C == {k \in DOMAIN q : q[k].closed.reason = "time_exit"}
<1>1. DOMAIN q = D /\ Len(q) \in Nat /\ \A k \in D : q[k].closed.reason \in Reasons
  <2>1. \A k \in D : q[k] \in Row
    OBVIOUS
  <2>2. QED
    BY <2>1 DEF Row, Closed
<1>2. IsFiniteSet(D) /\ Cardinality(D) = Len(q)
  <2>1. 1 \in Int /\ Len(q) \in Int
    BY <1>1
  <2>2. IsFiniteSet(D) /\ Cardinality(D) = IF 1 > Len(q) THEN 0 ELSE Len(q) - 1 + 1
    BY <2>1, FS_Interval
  <2> HIDE DEF D
  <2>3. QED
    BY <1>1, <2>2
<1>3. A \cup B \cup C = D /\ A \cap B = {} /\ (A \cup B) \cap C = {}
  BY <1>1 DEF Reasons
<1>4. A \subseteq D /\ B \subseteq D /\ C \subseteq D
  BY <1>1
<1>5. Count(q, "target_hit") = Cardinality(A) /\ Count(q, "sl_hit") = Cardinality(B) /\ Count(q, "time_exit") = Cardinality(C)
  BY DEF Count
<1> HIDE DEF A, B, C, D
<1>6. IsFiniteSet(A) /\ IsFiniteSet(B) /\ IsFiniteSet(C)
  BY <1>2, <1>4, FS_Subset
<1>7. Cardinality({}) = 0 /\ Cardinality(A) \in Nat /\ Cardinality(B) \in Nat /\ Cardinality(C) \in Nat
  BY <1>6, FS_EmptySet, FS_CardinalityType
<1>8. IsFiniteSet(A \cup B) /\ Cardinality(A \cup B) = Cardinality(A) + Cardinality(B)
  <2>1. IsFiniteSet(A \cup B) /\ Cardinality(A \cup B) = Cardinality(A) + Cardinality(B) - Cardinality(A \cap B)
    BY <1>6, FS_Union, Zenon
  <2>2. Cardinality(A \cap B) = 0
    BY <1>3, <1>7, Zenon
  <2>3. QED
    BY <1>7, <2>1, <2>2
<1>9. Cardinality(D) = Cardinality(A \cup B) + Cardinality(C)
  <2>1. Cardinality((A \cup B) \cup C) = Cardinality(A \cup B) + Cardinality(C) - Cardinality((A \cup B) \cap C)
    BY <1>6, <1>8, FS_Union, Zenon
  <2>2. Cardinality((A \cup B) \cap C) = 0 /\ Cardinality((A \cup B) \cup C) = Cardinality(D)
    BY <1>3, <1>7, Zenon
  <2>3. QED
    BY <1>7, <1>8, <2>1, <2>2
<1>10. QED
  BY <1>2, <1>5, <1>7, <1>8, <1>9

LEMMA RowsTyped ==
  ASSUME NEW s \in Symbols, worker[s].trades \in Seq(Closed)
  PROVE  /\ RowsOf(s) \in Seq(Row) /\ Len(RowsOf(s)) = Len(worker[s].trades)
         /\ \A k \in 1..Len(worker[s].trades) : RowsOf(s)[k] = [symbol |-> s, closed |-> worker[s].trades[k]]
<1> DEFINE n == Len(worker[s].trades)
<1>1. n \in Nat /\ \A k \in 1..n : worker[s].trades[k] \in Closed
  OBVIOUS
<1>2. RowsOf(s) = [k \in 1..n |-> [symbol |-> s, closed |-> worker[s].trades[k]]]
  BY DEF RowsOf
<1> HIDE DEF n
<1>3. \A k \in 1..n : [symbol |-> s, closed |-> worker[s].trades[k]] \in Row
  BY <1>1 DEF Row
<1>4. RowsOf(s) \in [1..n -> Row]
  BY <1>2, <1>3
<1>5. RowsOf(s) \in Seq(Row) /\ Len(RowsOf(s)) = n
  BY <1>1, <1>4
<1>6. QED
  BY <1>2, <1>5 DEF n

LEMMA Joined == ASSUME NEW q \in Seq(Row), NEW more \in Seq(Row) PROVE Len(q \o more) = Len(q) + Len(more)
OBVIOUS

\* The rows of one more symbol, after all others.
LEMMA KeptMore ==
  ASSUME NEW q \in Seq(Row), NEW s \in Symbols, NEW trades \in Seq(Closed), NEW more \in Seq(Row),
         Len(more) = Len(trades), \A k \in 1..Len(trades) : more[k] = [symbol |-> s, closed |-> trades[k]],
         \A k \in DOMAIN q : q[k].symbol # s,
         NEW r, r = q \o more
  PROVE  /\ \E from, to \in 0..Len(r) : StoredIn(r, s, trades, from, to)
         /\ \A x \in Symbols \ {s} : \A w : Kept(q, x, w) => Kept(r, x, w)
<1> DEFINE n == Len(q)
           m == Len(trades)
<1>1. /\ r \in Seq(Row) /\ Len(r) = n + m /\ n \in Nat /\ m \in Nat /\ DOMAIN r = 1..(n + m) /\ DOMAIN q = 1..n
      /\ \A k \in 1..n : r[k] = q[k]
  <2>1. r \in Seq(Row) /\ n \in Nat /\ m \in Nat /\ Len(more) = m
    OBVIOUS
  <2>2. Len(r) = Len(q) + Len(more)
    BY Joined
  <2>3. DOMAIN r = 1..Len(r) /\ DOMAIN q = 1..n
    BY <2>1
  <2>4. \A k \in 1..n : r[k] = q[k]
    OBVIOUS
  <2>5. QED
    BY <2>1, <2>2, <2>3, <2>4
<1>2. \A k \in n + 1..n + m : r[k] = [symbol |-> s, closed |-> trades[k - n]]
  <2>1. SUFFICES ASSUME NEW k \in n + 1..n + m PROVE r[k] = [symbol |-> s, closed |-> trades[k - n]]
    OBVIOUS
  <2>2. k - n \in 1..m /\ k \in 1..(n + m) /\ ~(k <= n)
    BY <1>1
  <2>3. r[k] = more[k - n]
    BY <2>2
  <2>4. QED
    BY <2>2, <2>3
<1> HIDE DEF n, m
<1>3. ASSUME NEW k \in n + 1..n + m PROVE r[k].symbol = s
  <2>1. r[k] = [symbol |-> s, closed |-> trades[k - n]]
    BY <1>2
  <2>2. QED
    BY <2>1
<1>4. StoredIn(r, s, trades, n, n + m)
  <2>1. ASSUME NEW k \in 1..(n + m) PROVE r[k].symbol = s <=> n < k /\ k <= n + m
    <3>1. CASE k <= n
      <4>1. k \in 1..n /\ ~(n < k)
        BY <1>1, <3>1
      <4>2. k \in DOMAIN q /\ r[k] = q[k]
        BY <1>1, <4>1, Zenon
      <4>3. r[k].symbol # s
        BY <4>2, Zenon
      <4>4. QED
        BY <4>1, <4>3
    <3>2. CASE ~(k <= n)
      <4>1. k \in n + 1..n + m
        BY <1>1, <3>2
      <4>2. QED
        BY <1>1, <1>3, <4>1
    <3>3. QED
      BY <3>1, <3>2
  <2>2. n + m - n = m
    BY <1>1
  <2>3. QED
    BY <1>1, <1>2, <2>1, <2>2 DEF StoredIn, m
<1>5. n \in 0..Len(r) /\ n + m \in 0..Len(r)
  BY <1>1
<1>6. ASSUME NEW x \in Symbols \ {s}, NEW w, Kept(q, x, w) PROVE Kept(r, x, w)
  <2>1. CASE w.phase = "taken"
    <3>1. PICK from \in 0..n, to \in 0..n : StoredIn(q, x, w.trades, from, to)
      BY <1>6, <2>1 DEF Kept, n
    <3>2. \A k \in 1..(n + m) : r[k].symbol = x <=> from < k /\ k <= to
      <4>1. ASSUME NEW k \in 1..(n + m) PROVE r[k].symbol = x <=> from < k /\ k <= to
        <5>1. CASE k <= n
          <6>1. k \in 1..n
            BY <1>1, <5>1
          <6>2. QED
            BY <1>1, <3>1, <6>1 DEF StoredIn
        <5>2. CASE ~(k <= n)
          <6>1. k \in n + 1..n + m
            BY <1>1, <5>2
          <6>2. r[k].symbol # x /\ ~(k <= to)
            BY <1>1, <1>3, <5>2, <6>1
          <6>3. QED
            BY <6>2
        <5>3. QED
          BY <5>1, <5>2
      <4>2. QED
        BY <4>1
    <3>3. \A k \in from + 1..to : r[k] = [symbol |-> x, closed |-> w.trades[k - from]]
      <4>1. \A k \in from + 1..to : k \in 1..n
        BY <1>1
      <4>2. QED
        BY <1>1, <3>1, <4>1 DEF StoredIn
    <3>4. StoredIn(r, x, w.trades, from, to)
      BY <1>1, <3>1, <3>2, <3>3 DEF StoredIn
    <3>5. from \in 0..Len(r) /\ to \in 0..Len(r)
      BY <1>1
    <3>6. QED
      BY <2>1, <3>4, <3>5 DEF Kept
  <2>2. CASE w.phase # "taken"
    <3>1. \A k \in 1..n : q[k].symbol # x
      BY <1>1, <1>6, <2>2 DEF Kept
    <3>2. ASSUME NEW k \in 1..(n + m) PROVE r[k].symbol # x
      <4>1. CASE k <= n
        <5>1. k \in 1..n
          BY <1>1, <4>1
        <5>2. QED
          BY <1>1, <3>1, <5>1
      <4>2. CASE ~(k <= n)
        <5>1. k \in n + 1..n + m
          BY <1>1, <4>2
        <5>2. QED
          BY <1>3, <5>1
      <4>3. QED
        BY <4>1, <4>2
    <3>3. QED
      BY <1>1, <2>2, <3>2 DEF Kept
  <2>3. QED
    BY <2>1, <2>2
<1>7. QED
  BY <1>4, <1>5, <1>6

LEMMA Insert ==
  ASSUME NEW q \in Seq(Row), NEW more \in Seq(Row), more # <<>>
  PROVE  /\ Append(q, Head(more)) \in Seq(Row) /\ Tail(more) \in Seq(Row)
         /\ Append(q, Head(more)) \o Tail(more) = q \o more
<1> DEFINE n == Len(q)
           m == Len(more)
           first == Append(q, Head(more))
           rest == Tail(more)
           a == first \o rest
           b == q \o more
<1>1. n \in Nat /\ m \in Nat \ {0} /\ Head(more) \in Row /\ Head(more) = more[1]
  OBVIOUS
<1>2. /\ first \in Seq(Row) /\ Len(first) = n + 1 /\ first[n + 1] = Head(more)
      /\ \A k \in 1..n : first[k] = q[k]
  BY <1>1
<1>3. /\ rest \in Seq(Row) /\ Len(rest) = m - 1
      /\ \A k \in 1..m - 1 : rest[k] = more[k + 1]
  BY <1>1
<1>4. a \in Seq(Row) /\ b \in Seq(Row) /\ Len(a) = n + m /\ Len(b) = n + m
  <2>1. a \in Seq(Row) /\ Len(a) = Len(first) + Len(rest)
    BY <1>2, <1>3
  <2>2. b \in Seq(Row) /\ Len(b) = n + m
    OBVIOUS
  <2>3. QED
    BY <1>1, <1>2, <1>3, <2>1, <2>2
<1>5. ASSUME NEW k \in 1..n + m PROVE a[k] = b[k]
  <2>1. a[k] = IF k <= n + 1 THEN first[k] ELSE rest[k - (n + 1)]
    <3> HIDE DEF first, rest
    <3>1. k \in 1..(Len(first) + Len(rest))
      BY <1>1, <1>2, <1>3
    <3>2. a[k] = IF k <= Len(first) THEN first[k] ELSE rest[k - Len(first)]
      BY <1>2, <1>3, <3>1
    <3>3. QED
      BY <1>2, <3>2
  <2>2. b[k] = IF k <= n THEN q[k] ELSE more[k - n]
    OBVIOUS
  <2> HIDE DEF a, b, first, rest, n, m
  <2>3. CASE k <= n
    <3>1. k \in 1..n /\ k <= n + 1
      BY <1>1, <2>3
    <3>2. QED
      BY <1>2, <2>1, <2>2, <2>3, <3>1
  <2>4. CASE k = n + 1
    <3>1. ~(k <= n) /\ k - n = 1 /\ k <= n + 1
      BY <1>1, <2>4
    <3>2. QED
      BY <1>1, <1>2, <2>1, <2>2, <2>4, <3>1
  <2>5. CASE k > n + 1
    <3>1. ~(k <= n) /\ ~(k <= n + 1) /\ k - (n + 1) \in 1..m - 1 /\ (k - (n + 1)) + 1 = k - n
      BY <1>1, <2>5
    <3>2. QED
      BY <1>3, <2>1, <2>2, <3>1
  <2>6. QED
    BY <1>1, <2>3, <2>4, <2>5
<1> HIDE DEF a, b, first, rest, n, m
<1>6. a = b
  <2>1. DOMAIN a = 1..(n + m) /\ DOMAIN b = 1..(n + m)
    BY <1>4
  <2>2. a = [k \in 1..(n + m) |-> a[k]] /\ b = [k \in 1..(n + m) |-> b[k]]
    BY <1>4, <2>1
  <2>3. QED
    BY <1>5, <2>2
<1>7. QED
  BY <1>2, <1>3, <1>6 DEF a, b, first, rest

LEMMA NothingMore == ASSUME NEW q \in Seq(Row) PROVE q \o <<>> = q /\ <<>> \o <<>> = <<>>
OBVIOUS

LEMMA WorkKeeps ==
  ASSUME WorkersInv, RunInv, NEW s \in Symbols, Work(s)
  PROVE  RunInv'
<1>1. UNCHANGED <<run, rows, thread>> /\ thread.at \in {"waiting", "writing", "failing"}
  BY DEF Work, Submitted, TakeSymbol, Fetched, FetchFails, WorkerRaises, Day, EndOfCandles
<1>2. worker \in [Symbols -> Workers]
  BY DEF WorkersInv
<1>3. worker[s].phase # "taken" /\ worker'[s].phase # "taken" /\ \A x \in Symbols \ {s} : worker'[x] = worker[x]
  <2>1. worker[s] \in Workers
    BY <1>2
  <2>2. CASE TakeSymbol(s) \/ Fetched(s) \/ FetchFails(s) \/ WorkerRaises(s) \/ EndOfCandles(s)
    BY <1>2, <2>1, <2>2 DEF TakeSymbol, Fetched, FetchFails, WorkerRaises, EndOfCandles, Workers
  <2>3. CASE Day(s)
    <3>1. worker[s].phase = "walking" /\ WalkInv(worker[s])
      BY <2>3 DEF Day, WorkersInv, WorkerInv
    <3>2. PICK bar \in Bars, class \in DayClasses :
            /\ class = "NO_SNAPSHOT" => \A i \in DOMAIN worker[s].candles : worker[s].candles[i].class = "NO_SNAPSHOT"
            /\ worker' = [worker EXCEPT ![s] = OneDay(worker[s], [bar |-> bar, class |-> class])]
      BY <2>3 DEF Day
    <3> DEFINE candle == [bar |-> bar, class |-> class]
    <3>3. candle \in Candles /\ candle.class = class
      BY DEF Candles
    <3>4. worker' = [worker EXCEPT ![s] = OneDay(worker[s], candle)]
      BY <3>2
    <3>5. candle.class = "NO_SNAPSHOT" => \A i \in DOMAIN worker[s].candles : worker[s].candles[i].class = "NO_SNAPSHOT"
      BY <3>2
    <3> HIDE DEF candle
    <3>6. OneDay(worker[s], candle).phase = "walking"
      BY <3>1, <3>3, <3>5, WalkDay
    <3>7. QED
      BY <1>2, <3>1, <3>4, <3>6
  <2>4. QED
    BY <2>2, <2>3 DEF Work
<1>4. run.status # "completed" /\ run.status # "none"
  BY <1>1 DEF RunInv
<1>5. ASSUME CollectInv PROVE CollectInv'
  <2>1. Collected' = Collected
    BY <1>1 DEF Collected
  <2>2. ASSUME NEW x \in Symbols PROVE Kept(Collected, x, worker'[x])
    <3>1. Kept(Collected, x, worker[x])
      BY <1>5 DEF CollectInv
    <3>2. QED
      BY <1>3, <3>1 DEF Kept
  <2>3. {x \in Symbols : worker'[x].phase = "taken" /\ worker'[x].error}
          = {x \in Symbols : worker[x].phase = "taken" /\ worker[x].error}
    BY <1>3
  <2>4. QED
    BY <1>1, <1>5, <2>1, <2>2, <2>3 DEF CollectInv
<1>6. QED
  BY <1>1, <1>4, <1>5 DEF RunInv

LEMMA TakeKeeps ==
  ASSUME WorkersInv, RunInv, NEW s \in Symbols, TakeResult(s)
  PROVE  RunInv'
<1> DEFINE w == worker[s]
           v == [w EXCEPT !.phase = "taken", !.candles = <<>>, !.prev = "None"]
<1>1. /\ thread.at = "waiting" /\ w.phase \in {"returned", "raised"} /\ UNCHANGED <<run, rows>>
      /\ worker' = [worker EXCEPT ![s] = v]
      /\ thread' = IF w.phase = "raised" THEN [thread EXCEPT !.at = "failing"]
                   ELSE [thread EXCEPT !.at = "writing", !.toWrite = RowsOf(s), !.errors = NoteError(s)]
  BY DEF TakeResult
<1>2. /\ worker \in [Symbols -> Workers] /\ w \in Workers /\ w.trades \in Seq(Closed)
      /\ v.phase = "taken" /\ v.trades = w.trades /\ v.error = w.error
  <2>1. worker \in [Symbols -> Workers] /\ w \in Workers
    BY DEF WorkersInv
  <2>2. QED
    BY <2>1 DEF Workers
<1>3. worker'[s] = v /\ \A x \in Symbols \ {s} : worker'[x] = worker[x]
  BY <1>1, <1>2
<1> HIDE DEF v
<1>4. /\ CollectInv /\ rows \in Seq(Row) /\ DOMAIN thread = {"at", "toWrite", "errors", "all"}
      /\ run.status # "completed" /\ run.status # "none" /\ DOMAIN run = {"status", "stats"}
  BY <1>1 DEF RunInv
<1>5. thread.toWrite = <<>> /\ thread.all = rows /\ Collected = rows
  BY <1>1, <1>4, NothingMore DEF CollectInv, Collected
<1>6. CASE w.phase = "raised"
  <2>1. thread'.at = "failing" /\ DOMAIN thread' = DOMAIN thread
    BY <1>1, <1>4, <1>6
  <2>2. QED
    BY <1>1, <1>4, <2>1 DEF RunInv
<1>7. CASE w.phase = "returned"
  <2>1. /\ thread'.at = "writing" /\ thread'.toWrite = RowsOf(s) /\ thread'.errors = NoteError(s)
        /\ thread'.all = thread.all /\ DOMAIN thread' = DOMAIN thread
    BY <1>1, <1>4, <1>7
  <2>2. /\ RowsOf(s) \in Seq(Row) /\ Len(RowsOf(s)) = Len(w.trades)
        /\ \A k \in 1..Len(w.trades) : RowsOf(s)[k] = [symbol |-> s, closed |-> w.trades[k]]
    BY <1>2, RowsTyped
  <2>3. Kept(rows, s, w) /\ \A x \in Symbols \ {s} : Kept(rows, x, worker[x])
    BY <1>4, <1>5 DEF CollectInv
  <2>4. \A k \in DOMAIN rows : rows[k].symbol # s
    BY <1>7, <2>3 DEF Kept
  <2> DEFINE more == RowsOf(s)
             r == rows \o more
  <2>5. Collected' = r
    BY <1>1, <2>1 DEF Collected
  <2>6. /\ \E from, to \in 0..Len(r) : StoredIn(r, s, w.trades, from, to)
        /\ \A x \in Symbols \ {s} : \A z : Kept(rows, x, z) => Kept(r, x, z)
    <3> DEFINE trades == w.trades
    <3>1. trades \in Seq(Closed) /\ more \in Seq(Row) /\ Len(more) = Len(trades)
          /\ \A k \in 1..Len(trades) : more[k] = [symbol |-> s, closed |-> trades[k]]
      BY <1>2, <2>2
    <3> HIDE DEF trades, more
    <3>2. /\ \E from, to \in 0..Len(r) : StoredIn(r, s, trades, from, to)
          /\ \A x \in Symbols \ {s} : \A z : Kept(rows, x, z) => Kept(r, x, z)
      BY <1>4, <2>4, <3>1, KeptMore
    <3>3. QED
      BY <3>2 DEF trades
  <2> HIDE DEF r, more
  <2>7. ASSUME NEW x \in Symbols PROVE Kept(r, x, worker'[x])
    <3>1. CASE x = s
      BY <1>2, <1>3, <2>6, <3>1 DEF Kept
    <3>2. CASE x # s
      BY <1>3, <2>3, <2>6, <3>2
    <3>3. QED
      BY <3>1, <3>2
  <2>8. thread'.errors = {x \in Symbols : worker'[x].phase = "taken" /\ worker'[x].error}
    <3>1. thread.errors = {x \in Symbols : worker[x].phase = "taken" /\ worker[x].error}
      BY <1>4 DEF CollectInv
    <3>2. thread'.errors = IF w.error THEN thread.errors \cup {s} ELSE thread.errors
      BY <2>1 DEF NoteError
    <3>3. \A x \in Symbols \ {s} : worker'[x].phase = "taken" /\ worker'[x].error <=> worker[x].phase = "taken" /\ worker[x].error
      BY <1>3
    <3>4. s \notin thread.errors /\ (worker'[s].phase = "taken" /\ worker'[s].error <=> w.error)
      BY <1>2, <1>3, <1>7, <3>1
    <3>5. \A x : x \in thread'.errors <=> x \in Symbols /\ worker'[x].phase = "taken" /\ worker'[x].error
      BY <3>1, <3>2, <3>3, <3>4
    <3>6. QED
      BY <3>5
  <2>9. CollectInv'
    BY <1>1, <1>5, <2>1, <2>2, <2>5, <2>7, <2>8 DEF CollectInv
  <2>10. QED
    BY <1>1, <1>4, <2>1, <2>9 DEF RunInv
<1>8. QED
  BY <1>1, <1>6, <1>7

LEMMA FinishKeeps == ASSUME WorkersInv, RunInv, FinishRun PROVE RunInv'
<1> DEFINE stats == Aggregate(rows, Cardinality(Symbols), thread.errors)
<1>1. /\ thread.at = "waiting" /\ (\A s \in Symbols : worker[s].phase = "taken") /\ UNCHANGED <<rows, worker>>
      /\ run' = [status |-> "completed", stats |-> Aggregate(thread.all, Cardinality(Symbols), thread.errors)]
      /\ thread' = [thread EXCEPT !.at = "ended"]
  BY DEF FinishRun
<1>2. CollectInv /\ rows \in Seq(Row) /\ DOMAIN thread = {"at", "toWrite", "errors", "all"}
  BY <1>1 DEF RunInv
<1>3. thread.all = rows /\ Collected = rows
  BY <1>1, <1>2, NothingMore DEF CollectInv, Collected
<1>4. run'.status = "completed" /\ run'.stats = stats /\ DOMAIN run' = {"status", "stats"}
  BY <1>1, <1>3
<1>5. stats.errors = thread.errors
  BY DEF Aggregate
<1>6. stats.wins + stats.losses + stats.timeExits = stats.total
  BY <1>2, CountsAdd DEF Aggregate
<1> HIDE DEF stats
<1>7. ASSUME NEW s \in Symbols
      PROVE  /\ worker'[s].error <=> s \in stats.errors
             /\ \E from, to \in 0..Len(rows) : Stored(s, from, to)'
  <2>1. worker'[s].error <=> s \in stats.errors
    BY <1>1, <1>2, <1>5 DEF CollectInv
  <2>2. Kept(rows, s, worker[s])
    BY <1>2, <1>3 DEF CollectInv
  <2>3. PICK from \in 0..Len(rows), to \in 0..Len(rows) : StoredIn(rows, s, worker[s].trades, from, to)
    BY <1>1, <2>2 DEF Kept
  <2>4. worker[s].trades \in Seq(Closed)
    BY DEF WorkersInv, Workers
  <2>5. Stored(s, from, to)
    <3> DEFINE trades == worker[s].trades
    <3>1. \A k \in 1..Len(trades) : RowsOf(s)[k] = [symbol |-> s, closed |-> trades[k]]
      BY <2>4, RowsTyped
    <3>2. /\ \A k \in DOMAIN rows : rows[k].symbol = s <=> from < k /\ k <= to
          /\ to - from = Len(trades)
          /\ \A k \in from + 1..to : rows[k] = [symbol |-> s, closed |-> trades[k - from]]
      BY <2>3 DEF StoredIn
    <3>3. Len(trades) \in Nat
      BY <2>4
    <3> HIDE DEF trades
    <3>4. ASSUME NEW k \in from + 1..to PROVE rows[k] = RowsOf(s)[k - from]
      <4>1. k - from \in 1..Len(trades)
        BY <3>2, <3>3
      <4>2. QED
        BY <3>1, <3>2, <4>1
    <3>5. QED
      BY <3>2, <3>4 DEF Stored, trades
  <2>6. Stored(s, from, to)'
    BY <1>1, <2>5 DEF Stored, RowsOf
  <2>7. QED
    BY <2>1, <2>3, <2>6
<1>8. CompletedIsWhole'
  <2>1. run'.stats = Aggregate(rows', Cardinality(Symbols), run'.stats.errors)
    BY <1>1, <1>4, <1>5 DEF stats
  <2>2. QED
    BY <1>1, <1>4, <1>6, <1>7, <2>1 DEF CompletedIsWhole
<1>9. QED
  BY <1>1, <1>2, <1>4, <1>8 DEF RunInv

LEMMA InsertKeeps == ASSUME RunInv, InsertTrade PROVE RunInv'
<1>1. /\ thread.at = "writing" /\ thread.toWrite # <<>> /\ UNCHANGED <<run, worker>>
      /\ rows' = Append(rows, Head(thread.toWrite))
      /\ thread' = [thread EXCEPT !.toWrite = Tail(thread.toWrite), !.all = Append(thread.all, Head(thread.toWrite))]
  BY DEF InsertTrade
<1>2. /\ CollectInv /\ rows \in Seq(Row) /\ DOMAIN thread = {"at", "toWrite", "errors", "all"}
      /\ run.status # "completed" /\ run.status # "none" /\ DOMAIN run = {"status", "stats"}
  BY <1>1 DEF RunInv
<1>3. thread.toWrite \in Seq(Row) /\ thread.all = rows
  BY <1>2 DEF CollectInv
<1>4. /\ thread'.at = "writing" /\ thread'.toWrite = Tail(thread.toWrite) /\ thread'.errors = thread.errors
      /\ thread'.all = rows' /\ DOMAIN thread' = {"at", "toWrite", "errors", "all"}
  BY <1>1, <1>2, <1>3
<1>5. rows' \in Seq(Row) /\ thread'.toWrite \in Seq(Row) /\ Collected' = Collected
  BY <1>1, <1>2, <1>3, <1>4, Insert DEF Collected
<1>6. CollectInv'
  BY <1>1, <1>2, <1>4, <1>5 DEF CollectInv
<1>7. QED
  BY <1>1, <1>2, <1>4, <1>5, <1>6 DEF RunInv

LEMMA RunStep == ASSUME WorkersInv, RunInv, [Next]_vars PROVE RunInv'
<1>1. /\ rows \in Seq(Row) /\ DOMAIN thread = {"at", "toWrite", "errors", "all"} /\ DOMAIN run = {"status", "stats"}
      /\ run.status = "completed" => thread.at = "ended"
      /\ run.status = "none" => thread.at = "none"
      /\ thread.at \in {"none", "starting"} => Nothing
      /\ thread.at \in {"waiting", "writing"} => CollectInv
  BY DEF RunInv
<1>2. CASE StartBacktest
  <2>1. /\ thread.at = "none" /\ UNCHANGED <<rows, worker>> /\ run' = [run EXCEPT !.status = "running"]
        /\ thread' = [thread EXCEPT !.at = "starting"] /\ Nothing
    BY <1>1, <1>2 DEF StartBacktest
  <2>2. /\ run'.status = "running" /\ DOMAIN run' = {"status", "stats"} /\ thread'.at = "starting"
        /\ DOMAIN thread' = {"at", "toWrite", "errors", "all"}
        /\ thread'.all = thread.all /\ thread'.toWrite = thread.toWrite /\ thread'.errors = thread.errors
    BY <1>1, <2>1
  <2>3. Nothing'
    BY <2>1, <2>2 DEF Nothing
  <2>4. QED
    BY <1>1, <2>1, <2>2, <2>3 DEF RunInv
<1>3. CASE SubmitAll
  <2>1. /\ thread.at = "starting" /\ UNCHANGED <<run, rows, worker>>
        /\ thread' = [thread EXCEPT !.at = "waiting"] /\ Nothing /\ run.status # "none" /\ run.status # "completed"
    BY <1>1, <1>3 DEF SubmitAll
  <2>2. /\ thread'.at = "waiting" /\ DOMAIN thread' = {"at", "toWrite", "errors", "all"}
        /\ thread'.all = <<>> /\ thread'.toWrite = <<>> /\ thread'.errors = {}
    BY <1>1, <2>1 DEF Nothing
  <2>3. Collected' = <<>> /\ rows' = <<>>
    BY <2>1, <2>2, NothingMore DEF Nothing, Collected
  <2>4. \A s \in Symbols : worker'[s].phase # "taken"
    BY <2>1 DEF Nothing
  <2>5. CollectInv'
    BY <2>2, <2>3, <2>4 DEF CollectInv, Kept
  <2>6. QED
    BY <1>1, <2>1, <2>2, <2>5 DEF RunInv
<1>4. CASE NextResult
  <2>1. /\ thread.at = "writing" /\ thread.toWrite = <<>> /\ UNCHANGED <<run, rows, worker>>
        /\ thread' = [thread EXCEPT !.at = "waiting"] /\ CollectInv /\ run.status # "none" /\ run.status # "completed"
    BY <1>1, <1>4 DEF NextResult
  <2>2. /\ thread'.at = "waiting" /\ DOMAIN thread' = {"at", "toWrite", "errors", "all"}
        /\ thread'.all = thread.all /\ thread'.toWrite = thread.toWrite /\ thread'.errors = thread.errors
    BY <1>1, <2>1
  <2>3. CollectInv'
    BY <2>1, <2>2 DEF CollectInv, Collected
  <2>4. QED
    BY <1>1, <2>1, <2>2, <2>3 DEF RunInv
<1>5. CASE UniverseUnreadable \/ InsertFails \/ EndUnwritten
  <2>1. /\ UNCHANGED <<run, rows, worker>> /\ thread.at \in {"starting", "writing", "waiting", "failing"}
        /\ (thread' = [thread EXCEPT !.at = "gone"] \/ thread' = [thread EXCEPT !.at = "failing"])
    BY <1>5 DEF UniverseUnreadable, InsertFails, EndUnwritten
  <2>2. thread'.at \in {"gone", "failing"} /\ DOMAIN thread' = {"at", "toWrite", "errors", "all"}
    BY <1>1, <2>1
  <2>3. QED
    BY <1>1, <2>1, <2>2 DEF RunInv
<1>6. CASE FailRun
  <2>1. /\ UNCHANGED <<rows, worker>> /\ run' = [run EXCEPT !.status = "failed"] /\ thread' = [thread EXCEPT !.at = "ended"]
    BY <1>6 DEF FailRun
  <2>2. run'.status = "failed" /\ DOMAIN run' = {"status", "stats"} /\ thread'.at = "ended"
        /\ DOMAIN thread' = {"at", "toWrite", "errors", "all"}
    BY <1>1, <2>1
  <2>3. QED
    BY <1>1, <2>1, <2>2 DEF RunInv
<1>7. CASE ProcessDies
  <2>1. /\ UNCHANGED <<run, rows>> /\ thread.at \in {"starting", "waiting", "writing", "failing"}
        /\ thread'.at = "gone" /\ DOMAIN thread' = {"at", "toWrite", "errors", "all"}
    BY <1>7 DEF ProcessDies, NewThread
  <2>2. QED
    BY <1>1, <2>1 DEF RunInv
<1>8. CASE UNCHANGED vars
  <2>1. CompletedIsWhole => CompletedIsWhole'
    BY <1>8 DEF vars, CompletedIsWhole, Stored, RowsOf
  <2>2. (Nothing => Nothing') /\ (CollectInv => CollectInv')
    BY <1>8 DEF vars, Nothing, CollectInv, Collected
  <2>3. QED
    BY <1>8, <2>1, <2>2 DEF vars, RunInv
<1>9. QED
  BY <1>2, <1>3, <1>4, <1>5, <1>6, <1>7, <1>8, WorkKeeps, TakeKeeps, InsertKeeps, FinishKeeps DEF Next, Collect

LEMMA RunInit == ASSUME Init PROVE RunInv
<1>1. run = [status |-> "none", stats |-> NoStats] /\ rows = <<>> /\ worker = NewWorkers /\ thread = NewThread
  BY DEF Init
<1>2. /\ DOMAIN thread = {"at", "toWrite", "errors", "all"} /\ thread.at = "none" /\ thread.all = <<>>
      /\ thread.toWrite = <<>> /\ thread.errors = {} /\ DOMAIN run = {"status", "stats"} /\ run.status = "none"
  BY <1>1 DEF NewThread
<1>3. \A s \in Symbols : worker[s].phase # "taken"
  BY <1>1 DEF NewWorkers
<1>4. QED
  BY <1>1, <1>2, <1>3 DEF RunInv, Nothing

\* A run that is marked completed tells the whole story: its totals are those of its rows, every symbol's trades are
\* among them, together and in order, and exactly the symbols whose data failed are named; for any universe, any order
\* in which the workers end, and any failure or death of the process before (backtest.py:262-297).
THEOREM CompletedRunsAreWhole == Spec => []CompletedIsWhole
<1>1. WorkersInv /\ RunInv /\ [Next]_vars => RunInv'
  BY RunStep
<1>2. Init => RunInv
  BY RunInit
<1>3. RunInv => CompletedIsWhole
  BY DEF RunInv, CompletedIsWhole
<1>4. QED
  BY WorkersHold, <1>1, <1>2, <1>3, PTL DEF Spec
=============================================================================
