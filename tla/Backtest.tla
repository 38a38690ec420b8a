------------------------------ MODULE Backtest ------------------------------
(* A backtest of one scanner strategy (backtest.py, the backtest endpoints of main.py and the backtest_* tables of
   db.py).  The request writes the run's row and starts a thread; the thread gives every symbol to a pool of workers,
   takes their workers in the order they end, writes the trades one row at a time and at the end the totals.

   A worker walks its symbol's daily candles day by day: Day is one turn of that loop and EndOfCandles what follows it.
   A candle keeps its low, high and close (in paise) and the class the strategy gives that day; which conditions make
   the class is Qualification's subject.  Candles are chosen as the walk comes to them: they were fetched before it, and
   nothing it does depends on a later one. *)
EXTENDS Integers, Sequences, FiniteSets, SequencesExt

CONSTANTS Symbols,      \* the symbols of the request (no symbol twice)
          Horizon,      \* Horizon[s]: the candles of s in the requested period
          Bars,         \* the candles that exist: records low, high, close
          MaxHoldDays,  \* max_hold_days of the request
          MaxWorkers,   \* the size of the pool
          NoTrade       \* no trade is open

Trades == [direction : {"CE", "PE"}, entryIndex : Nat, entry : Int, sl : Int, target : Int]

ASSUME BacktestAssumption ==
  /\ Horizon \in [Symbols -> Nat \ {0}]
  /\ MaxHoldDays \in Nat \ {0}
  /\ MaxWorkers \in Nat \ {0}
  /\ NoTrade \notin Trades
  /\ Bars \subseteq [low : Nat, high : Nat, close : Nat]
  /\ \A b \in Bars : b.low <= b.close /\ b.close <= b.high /\ b.low > 0 /\ b.close % 200 = 0

VARIABLES run,       \* the backtest_runs row: its status and, when completed, the stats written with it
          rows,      \* the backtest_trades rows of the run, in the order of their ids
          worker,    \* worker[s]: its phase, the candles walked so far, the open trade, the class of the day before,
                     \* the trades closed so far, and whether it returned an error
          thread     \* the thread that collects: where it is, the trades it is writing, errors, all_trades

vars == <<run, rows, worker, thread>>

Qualified == {"CE_QUALIFIED", "PE_QUALIFIED"}
\* NO_SNAPSHOT: not enough history before this day to evaluate the conditions
DayClasses == Qualified \cup {"OTHER", "NO_SNAPSHOT"}

------------------------------------------------------------------------------
(* The walk over one symbol's candles *)

MinRisk(price) == price \div 200       \* MIN_RISK_PCT = 0.5 %
Larger(x, y) == IF x >= y THEN x ELSE y

OpenTrade(class, day, i) ==
  LET bullish == class = "CE_QUALIFIED"
      risk == Larger(IF bullish THEN day.close - day.low ELSE day.high - day.close, MinRisk(day.close))
      ahead == IF bullish THEN 1 ELSE -1
  IN [direction |-> IF bullish THEN "CE" ELSE "PE", entryIndex |-> i, entry |-> day.close,
      sl |-> day.close - ahead * risk, target |-> day.close + 2 * ahead * risk]

\* A bug to compare with: the favourable reading of a candle that spans both levels.
TargetFirst(trade, day) ==
  LET ce == trade.direction = "CE"
  IN IF (ce /\ day.high >= trade.target) \/ (~ce /\ day.low <= trade.target) THEN "target_hit"
     ELSE IF (ce /\ day.low <= trade.sl) \/ (~ce /\ day.high >= trade.sl) THEN "sl_hit" ELSE "none"

CheckExit(trade, day) ==
  LET ce == trade.direction = "CE"
  IN IF (ce /\ day.low <= trade.sl) \/ (~ce /\ day.high >= trade.sl) THEN "sl_hit"
     ELSE IF (ce /\ day.high >= trade.target) \/ (~ce /\ day.low <= trade.target) THEN "target_hit" ELSE "none"

\* gain: the numerator of return_pct
CloseTrade(trade, price, reason, holdDays) ==
  [trade |-> trade, exit |-> price, reason |-> reason, holdDays |-> holdDays,
   gain |-> IF trade.direction = "CE" THEN price - trade.entry ELSE trade.entry - price]

ClosedToday(open, day, i) ==
  LET reason == CheckExit(open, day)
      held == i - open.entryIndex
  IN IF open = NoTrade THEN <<>>
     ELSE IF reason # "none"
     THEN <<CloseTrade(open, IF reason = "sl_hit" THEN open.sl ELSE open.target, reason, held)>>
     ELSE IF held >= MaxHoldDays THEN <<CloseTrade(open, day.close, "time_exit", held)>> ELSE <<>>

\* A bug to compare with: the class is not tracked while a trade is open.
RememberWhenFlat(prev, class, open) == IF open = NoTrade THEN class ELSE prev
\* The class remembered for tomorrow, open trade or not.
Remember(prev, class, open) == class

\* One turn of the loop over the candles: the exit first, then the class of the day.
OneDay(w, candle) ==
  LET i == Len(w.candles) + 1
      closed == ClosedToday(w.open, candle.bar, i)
      open == IF closed = <<>> THEN w.open ELSE NoTrade
      walked == [w EXCEPT !.candles = Append(@, candle), !.trades = @ \o closed]
  IN IF candle.class = "NO_SNAPSHOT" THEN [walked EXCEPT !.open = open]
     ELSE [walked EXCEPT !.prev = Remember(@, candle.class, open),
                         !.open = IF open = NoTrade /\ candle.class \in Qualified /\ candle.class # w.prev
                                  THEN OpenTrade(candle.class, candle.bar, i) ELSE open]

\* The trade still open after the last candle is closed at it.
Leftover(w) ==
  LET n == Len(w.candles)
  IN IF w.open = NoTrade THEN <<>>
     ELSE <<CloseTrade(w.open, w.candles[n].bar.close, "time_exit", n - w.open.entryIndex)>>

------------------------------------------------------------------------------
(* The run *)

NoStats == [total |-> 0, wins |-> 0, losses |-> 0, timeExits |-> 0, scanned |-> 0, errors |-> {}]

\* The rows a trade becomes: the symbol with what the simulation returned.
RowsOf(s) == [k \in 1..Len(worker[s].trades) |-> [symbol |-> s, closed |-> worker[s].trades[k]]]

Count(trades, reason) == Cardinality({k \in DOMAIN trades : trades[k].closed.reason = reason})
Aggregate(trades, scanned, errors) ==
  [total |-> Len(trades), wins |-> Count(trades, "target_hit"), losses |-> Count(trades, "sl_hit"),
   timeExits |-> Count(trades, "time_exit"), scanned |-> scanned, errors |-> errors]

NewWorkers == [s \in Symbols |-> [phase |-> "queued", candles |-> <<>>, open |-> NoTrade, prev |-> "None",
                                  trades |-> <<>>, error |-> FALSE]]
NewThread == [at |-> "none", toWrite |-> <<>>, errors |-> {}, all |-> <<>>]

Init == /\ run = [status |-> "none", stats |-> NoStats]
        /\ rows = <<>>
        /\ worker = NewWorkers
        /\ thread = NewThread

\* POST /api/backtest/run: the row, then the thread.
StartBacktest ==
  /\ run.status = "none"
  /\ run' = [run EXCEPT !.status = "running"]
  /\ thread' = [thread EXCEPT !.at = "starting"]
  /\ UNCHANGED <<rows, worker>>

\* The thread reads the universe and submits every symbol.
SubmitAll == /\ thread.at = "starting"
             /\ thread' = [thread EXCEPT !.at = "waiting"]
             /\ UNCHANGED <<run, rows, worker>>

\* That read stands before the try: when it raises the thread is gone and nothing marks the row.
UniverseUnreadable == /\ thread.at = "starting"
                      /\ thread' = [thread EXCEPT !.at = "gone"]
                      /\ UNCHANGED <<run, rows, worker>>

Submitted == thread.at \in {"waiting", "writing", "failing"}
Busy == {s \in Symbols : worker[s].phase \in {"fetching", "walking"}}
Finished == {s \in Symbols : worker[s].phase \in {"returned", "raised", "taken"}}

TakeSymbol(s) == /\ worker[s].phase = "queued" /\ Cardinality(Busy) < MaxWorkers
                 /\ worker' = [worker EXCEPT ![s].phase = "fetching"]
                 /\ UNCHANGED <<run, rows, thread>>

Fetched(s) == /\ worker[s].phase = "fetching"
              /\ worker' = [worker EXCEPT ![s].phase = "walking"]
              /\ UNCHANGED <<run, rows, thread>>

\* The fetch raised, returned nothing, or returned too few candles: an error is returned.
FetchFails(s) == /\ worker[s].phase = "fetching"
                 /\ worker' = [worker EXCEPT ![s].phase = "returned", ![s].error = TRUE]
                 /\ UNCHANGED <<run, rows, thread>>

\* Anything else raises in the worker and again in the thread that takes its worker.
WorkerRaises(s) == /\ worker[s].phase = "fetching"
                   /\ worker' = [worker EXCEPT ![s].phase = "raised"]
                   /\ UNCHANGED <<run, rows, thread>>

\* Days without a snapshot come before all others.
Day(s) ==
  LET walked == worker[s].candles
  IN /\ worker[s].phase = "walking" /\ Len(walked) < Horizon[s]
     /\ \E bar \in Bars, class \in DayClasses :
          /\ class = "NO_SNAPSHOT" => \A i \in DOMAIN walked : walked[i].class = "NO_SNAPSHOT"
          /\ worker' = [worker EXCEPT ![s] = OneDay(@, [bar |-> bar, class |-> class])]
     /\ UNCHANGED <<run, rows, thread>>

EndOfCandles(s) ==
  /\ worker[s].phase = "walking" /\ Len(worker[s].candles) = Horizon[s]
  /\ worker' = [worker EXCEPT ![s].phase = "returned", ![s].trades = @ \o Leftover(worker[s]), ![s].open = NoTrade]
  /\ UNCHANGED <<run, rows, thread>>

NoteError(s) == IF worker[s].error THEN thread.errors \cup {s} ELSE thread.errors

TakeResult(s) ==
  /\ thread.at = "waiting" /\ worker[s].phase \in {"returned", "raised"}
  /\ worker' = [worker EXCEPT ![s].phase = "taken", ![s].candles = <<>>, ![s].prev = "None"]
  /\ thread' = IF worker[s].phase = "raised" THEN [thread EXCEPT !.at = "failing"]
               ELSE [thread EXCEPT !.at = "writing", !.toWrite = RowsOf(s), !.errors = NoteError(s)]
  /\ UNCHANGED <<run, rows>>

InsertTrade == /\ thread.at = "writing" /\ thread.toWrite # <<>>
               /\ rows' = Append(rows, Head(thread.toWrite))
               /\ thread' = [thread EXCEPT !.toWrite = Tail(@), !.all = Append(@, Head(thread.toWrite))]
               /\ UNCHANGED <<run, worker>>

\* The insert raises: the pool is left, which waits for its workers, and the rows already written stay.
InsertFails == /\ thread.at = "writing" /\ thread.toWrite # <<>>
               /\ thread' = [thread EXCEPT !.at = "failing"]
               /\ UNCHANGED <<run, rows, worker>>

NextResult == /\ thread.at = "writing" /\ thread.toWrite = <<>>
              /\ thread' = [thread EXCEPT !.at = "waiting"]
              /\ UNCHANGED <<run, rows, worker>>

\* A bug to compare with: the exception is swallowed and nothing marks the row.
FailUnmarked == /\ thread.at = "failing" /\ Finished = Symbols
                /\ thread' = [thread EXCEPT !.at = "ended"]
                /\ UNCHANGED <<run, rows, worker>>
FailRun == /\ thread.at = "failing" /\ Finished = Symbols
           /\ run' = [run EXCEPT !.status = "failed"]
           /\ thread' = [thread EXCEPT !.at = "ended"]
           /\ UNCHANGED <<rows, worker>>

\* A bug to compare with: the totals are written when the last worker ends, not when its rows are in.
FinishEarly == /\ thread.at \in {"waiting", "writing"} /\ Finished = Symbols
               /\ run' = [status |-> "completed", stats |-> Aggregate(thread.all, Cardinality(Symbols), thread.errors)]
               /\ UNCHANGED <<rows, worker, thread>>
FinishRun == /\ thread.at = "waiting" /\ \A s \in Symbols : worker[s].phase = "taken"
             /\ run' = [status |-> "completed", stats |-> Aggregate(thread.all, Cardinality(Symbols), thread.errors)]
             /\ thread' = [thread EXCEPT !.at = "ended"]
             /\ UNCHANGED <<rows, worker>>

\* The last write raises, of the failure or of the totals: it stands outside the try, and the row stays as it is.
EndUnwritten == /\ \/ thread.at = "failing" /\ Finished = Symbols
                   \/ thread.at = "waiting" /\ \A s \in Symbols : worker[s].phase = "taken"
                /\ thread' = [thread EXCEPT !.at = "gone"]
                /\ UNCHANGED <<run, rows, worker>>

\* The process ends: the thread is a daemon, its pool dies with it, and nothing takes a run up again.
ProcessDies == /\ thread.at \in {"starting", "waiting", "writing", "failing"}
               /\ thread' = [NewThread EXCEPT !.at = "gone"]
               /\ worker' = NewWorkers
               /\ UNCHANGED <<run, rows>>

Work(s) == /\ Submitted
           /\ TakeSymbol(s) \/ Fetched(s) \/ FetchFails(s) \/ WorkerRaises(s) \/ Day(s) \/ EndOfCandles(s)
Collect == SubmitAll \/ (\E s \in Symbols : TakeResult(s)) \/ InsertTrade \/ NextResult \/ FailRun \/ FinishRun

Next == StartBacktest \/ (\E s \in Symbols : Work(s)) \/ Collect
          \/ UniverseUnreadable \/ InsertFails \/ EndUnwritten \/ ProcessDies

\* Threads run: a worker that can go on does, and so does the collecting thread.
Spec == Init /\ [][Next]_vars /\ WF_vars(Collect) /\ \A s \in Symbols : WF_vars(Work(s))

------------------------------------------------------------------------------
(* Properties *)

ExitIndex(closed) == closed.trade.entryIndex + closed.holdDays

\* By the end of the candles.
CutShort(closed) == closed.reason = "time_exit" /\ closed.holdDays < MaxHoldDays

\* The class of the day before, as the strategy sees it: the first day of a history has none.
ClassBefore(h, i) == IF i = 1 \/ h[i - 1].class = "NO_SNAPSHOT" THEN "None" ELSE h[i - 1].class
Fresh(h, i) == h[i].class \in Qualified /\ h[i].class # ClassBefore(h, i)

\* The days a worker's trades were opened on, and whether one of them is carried through a day.
Opened(w) ==
  {c.trade.entryIndex : c \in Range(w.trades)} \cup (IF w.open = NoTrade THEN {} ELSE {w.open.entryIndex})
Carried(w, i) ==
  \/ w.open # NoTrade /\ w.open.entryIndex < i
  \/ \E c \in Range(w.trades) : c.trade.entryIndex < i /\ (i < ExitIndex(c) \/ (i = ExitIndex(c) /\ CutShort(c)))

\* A trade opens on exactly the days that turn qualified while no trade is carried through them: never inside a streak
\* that was already qualified, also not when the trade of that streak is stopped out in the middle of it, and always on
\* a fresh turn, also on the day another trade closes (backtest.py:181-212).
TradesAreTransitions ==
  \A s \in Symbols :
    LET w == worker[s]  h == w.candles
    IN h # <<>> => Opened(w) = {i \in DOMAIN h : Fresh(h, i) /\ ~Carried(w, i)}

\* Whether a day reaches a level of a trade.
Passed(h, trade, i, price) == IF price < trade.entry THEN h[i].bar.low <= price ELSE h[i].bar.high >= price
Touched(h, trade, i) == Passed(h, trade, i, trade.sl) \/ Passed(h, trade, i, trade.target)

FirstTouch(h, c) ==
  LET t == c.trade
      exit == ExitIndex(c)
  IN /\ \A i \in t.entryIndex + 1..exit - 1 : ~Touched(h, t, i)
     /\ c.holdDays <= MaxHoldDays
     /\ c.reason = "target_hit" => Passed(h, t, exit, t.target) /\ ~Passed(h, t, exit, t.sl) /\ c.gain > 0
     /\ c.reason = "sl_hit" => Passed(h, t, exit, t.sl) /\ c.gain < 0
     /\ c.reason = "time_exit" /\ c.holdDays > 0 => ~Touched(h, t, exit)

\* The exit of a trade is the first level its candles touched, and the stop where one candle touched both: no day before
\* the exit touched either, a win never came from a day that reached the stop, no trade is held past
\* max_hold_days, and a win gains and a stop loses on either side (backtest.py:131-193).
ExitIsFirstTouch ==
  \A s \in Symbols : \A c \in Range(worker[s].trades) : worker[s].candles # <<>> => FirstTouch(worker[s].candles, c)

\* The rows of a symbol stand together, from one row to another, and are its trades in the order they were closed.
Stored(s, from, to) ==
  /\ \A k \in DOMAIN rows : rows[k].symbol = s <=> from < k /\ k <= to
  /\ to - from = Len(worker[s].trades)
  /\ \A k \in from + 1..to : rows[k] = RowsOf(s)[k - from]

\* A completed run tells the whole story: its totals are those of the rows stored under it, every symbol's trades are
\* among them, and the symbols without trades because their data failed are named (backtest.py:262-297).
CompletedIsWhole ==
  run.status = "completed" =>
    /\ run.stats = Aggregate(rows, Cardinality(Symbols), run.stats.errors)
    /\ run.stats.wins + run.stats.losses + run.stats.timeExits = run.stats.total
    /\ \A s \in Symbols :
         /\ worker[s].error <=> s \in run.stats.errors
         /\ \E from, to \in 0..Len(rows) : Stored(s, from, to)

\* A run ends, completed or failed, unless its thread is lost first (backtest.py:262-297).
RunEnds == run.status = "running" ~> (run.status \in {"completed", "failed"} \/ thread.at = "gone")
=============================================================================
