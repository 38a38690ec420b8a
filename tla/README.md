# A verification of SignalEvaluator

SignalEvaluator is a multi-user web server (FastAPI, SQLite, one process) that turns trading
signals -- typed in, read from Telegram channels, pushed by Chartink or produced by its own F&O
scanner -- into scored signal rows, and, when the user asked for it, into paper or real orders
that a background monitor then manages until they are closed.

Every request handler runs in a worker thread and every background job in a thread of its own.
They share nothing but the SQLite database (one connection per statement, `app/db.py`), a few
process-wide dictionaries, and the user's broker account. So one SQL statement, or one call to the
broker, is one atomic step, and anything may happen between two of them. Almost every hard
behaviour of this program comes from that, and the modules here are built around it.

## Inventory

| Component | State | Operations | Talks to |
|---|---|---|---|
| Orders and position monitor (`trading.py`, `db.py`, `main.py:58-64`) | `orders` table, real position at the broker, `signals.outcome`, `sl_alert_sent` | place paper/live order, monitor tick (price, Risk Manager, hit check, exit, outcome, SL alert), manual close, risk-settings edit, the user's own outcome of a signal | broker, quotes, alerts, graduation |
| Risk Manager (`trading.py:517-589`) | none (pure): stop, peak, lock flag of one order | trailing stop, profit lock, hit check, P&L | the monitor |
| Signal intake and auto-trade (`trading.py:192-282`, `scanner_signals.py`, `chartink.py`, `telegram_ingest.py`, `confluence.py`, `graduation.py`) | `signals` table with its unique keys, settings, `channel_graduation` | insert a signal once, general auto-trade with its position limit, dedicated per-source trade, confluence match, graduate or demote a channel | orders, broker, alerts |
| F&O scanner (`scanner.py`, `scanner_signals.py:1-60`) | `scan_runs`, `scanner_results` | run a scan, classify, generate signals on a transition into a qualified class | intake |
| Live price cache (`trading.py:17-88`) | process-wide dictionary, 8 s | look up, fetch, store | broker, NSE, Yahoo |
| Telegram listener (`telegram_ingest.py`, `telegram_client.py`, `telegram_auth.py`) | client per user, set of users with a handler, event-loop thread | start, stop, log in, reset, handle a message | intake |
| Chartink webhook (`chartink.py`, `main.py:583-619`) | `chartink_scans`, `chartink_hits` | log a hit, answer, process in the background | intake |
| Market-context jobs (`market_context.py`, `main.py:99-135`) | `market_context_stock`, `market_context_summary`, `fut_oi_snapshot`, `job_runs`, a lock, the loop's attempts | nightly loop with retries, first pass, manual refresh, look-up | quotes, Kite, scoring |
| Backtest (`backtest.py`) | `backtest_runs`, `backtest_trades`, a thread and its pool | start a run, walk a symbol day by day, collect, total | history, qualification |
| Qualification and scoring (`qualification.py`, `scoring.py`, `technicals.py`, `screener.py`, `stock_score.py`, `options.py`, `news.py`, `strategies.py`, `market.py`) | none (pure functions of market data, some caches) | classify, score | intake, scanner |
| Signal parser (`parser.py`) | none | message text to a signal | intake |
| Broker sessions and adapters (`brokers/`) | `broker_accounts`: credentials, tokens and their dates | save credentials, log in, paste a token, disconnect, choose an adapter; quotes, orders, instruments | orders, market jobs, external |
| Alerts and broadcast (`alerts.py`, `telegram_broadcast.py`) | settings | send a Telegram message | external |
| Accounts and rate limit (`auth.py`, `rate_limit.py`) | `users`, `sessions`, hit times per key | register, log in, limit | requests |
| Per-user settings (`db.py`) | one row per user | read (inserting the default), read-modify-write | everything |
| TradeMind journal (`trademind/`) | `tm_import_jobs`, `tm_executions`, `tm_trades`, `tm_trade_journal`, `tm_rules`, `tm_rule_evaluations` | import a tradebook, group executions, judge by rules, roll back, edit rules, plans and journal | requests |
| F&O universe (`fo_universe.py`) | `fo_stocks` | replace from the exchange's list | scanner |
| Browser client (`static/`) | none the server relies on | render, submit | requests |

What makes each of the stateful parts correct:

* **Orders.** An order is opened once and closed at most once, with one reason and one price. A
  paper exit is at a price that reached the order's own stop or target. The stop never moves back.
  A fired lock and the trail are really in the stored stop. The monitor gives a signal an outcome only
  if its order is closed, and the outcome is the reason it was closed for; the user may give it any
  outcome at any time. The orders table and the broker agree. A stop that stays crossed is acted on.
* **Intake.** A signal is recorded once, traded at most once, within the user's limit of open
  positions; two sources that agree are noticed, whichever arrived first; a channel goes live only
  on a track record.
* **Scanner.** One continuous qualification gives one signal; none is lost.
* **Qualification.** No stock qualifies for both sides; CE and PE are mirror images; what confirms a
  stock was a finished candle; the screener agrees with the scanner.
* **Scoring.** A score is a percentage, and the same for a bullish call and its mirror image.
* **Market jobs.** What is stored of a day is one run's, whole, and never replaced by something older;
  a job is done for a day only if its data is there; in the end of a trading evening it is.
* **Broker sessions.** The broker that has the position is the one that gets the exit.
* **Backtest.** Trades open on fresh turns only and close at the first level touched; a completed run
  is the sum of its rows; a run ends.
* **Journal.** No execution at the broker counts twice, whatever the files overlap, as long as none is
  deleted from under a trade that stays; several files in order give the trades of one; the verdicts of
  a day agree and are those of the trades as they are, on the days an evaluation lists whole.
* **Price cache.** An answer is at most 8 seconds old.
* **Listener.** One handler per user; a message is handled once; none is missed while it runs.

Where it is hard: two actors between one another's statements (monitor, requests, several
intake threads, overlapping scans and jobs), a stale row or setting written back, a real broker call that fails, succeeds
silently or is followed by a crash, caches that outlive what they cached, and rounding at the
boundary of a comparison. `PROJECT.json` lists these hazards at their lines.

## The plan

Most important behaviour first; every module that is proved about has no recursive operator, its
parameters are constants with named assumptions, one action stands for one operation, and its
invariants are conjunctions of named parts.

| # | Module | What it is | State |
|---|---|---|---|
| 1 | `RiskManager` | the arithmetic of one order: trailing stop, profit locks, hit check, P&L | done |
| 2 | `OrderBook` | abstract specification of the orders table | done |
| 3 | `Positions` (extends 1, implements 2) | orders table, monitor, manual close, settings edit, broker | done, proved |
| 4 | `AutoTrade` | events to signals to orders, confluence, graduation | done, proved |
| 5 | `ScannerSignals` | overlapping scans and the signals they make | done, proved |
| 6 | `TradeGrouping`, `TradeJournal` | FIFO grouping, charges and verdicts as operators; imports, rollbacks and edits over them | done, proved |
| 7 | `Backtest` | a run, its thread and pool, and the walk over candles | done, proved |
| 8 | `Qualification`, `StockScan` | the strategy's conditions and the screener's; one evaluation while the market moves | done, proved |
| 9 | `Scoring`, `MarketContext`, `BrokerSessions`, `MarketJobs` | the score of a signal; the ranking; the accounts; composed: the nightly jobs with the sessions they need and the score they lead to | done, proved |
| 10 | `BrokerOrders` (extends `BrokerSessions`) | which broker entry and exit of an order go to | done |
| 11 | `SignalBook` | abstract specification of intake (a signal once, an order per signal at most once), implemented by 4 | done |
| 12 | `TelegramListener` | start, stop, reset and log-in against the event-loop thread; duplicate handlers | later |
| 13 | `PriceCache`, `Settings`, `RateLimit` | the cache under concurrent look-ups; the read-modify-write of settings; the sliding window | later |

The proofs of a module `M` are in `MProofs`.

## Modules and code

Every module's comments name the functions it stands for, and `PROJECT.json` maps each definition
to its lines. The common reading: a *thread* is a program counter with what it holds in its local
variables; an *action* is what happens up to and including the next SQL statement or broker call;
anything read before is kept in the thread's local state and may be stale when it is used.
A crash puts every thread back to idle and keeps what the database and the broker have.

### RiskManager, Positions, OrderBook

`rows` is the orders table; `held` the position the broker really has; `outcome` the outcome of the
signal an order came from, and `synced` and `marked` are history: what the monitor last wrote there, and
whether the outcome now is the user's; `mon` and `seen` the monitor thread and the rows its last `SELECT`
returned; `req` the request threads.

| Code | Model |
|---|---|
| `place_paper_order`, `place_live_order` | `PlacePaper`; `SubmitEntry`, `RecordEntry` |
| `monitor_open_positions`, one tick | `ListPaper`, `ListLive`, `PriceOrder`, `ManageRisk`, `ClosePaperHit`, `SyncOutcome`, `ReadAutoExit`, `SubmitExit`, `CloseLiveHit`, `SendAlert`, `SkipAlert`, `MarkAlertSent`, `EndTick` |
| `close_order` of a request | `BeginClose`, `SubmitClose`, `RecordClose` |
| `POST /orders/{id}/risk-settings` | `BeginEdit`, `ApplyEdit` |
| `POST /api/signals/{id}/outcome` | `SetOutcome`: any outcome, at any time |
| `apply_risk_management`, `_check_hit`, `_calc_pnl` | `ApplyRisk`, `CheckHit`, `CalcPnl` |
| an exception in the tick; a crash | `TickFails`; `Crash` |

Prices are integers in hundredths of a paise, so the rounding of a stop to two decimals is a
rounding to a multiple of 100, half to even; a percentage level finer than a hundredth of a paise
is cut off. Binary floating point itself is not modelled. The answers of a broker are final: filled,
rejected, or lost after it was filled. `held` counts in units of an order's
quantity. An entry price is assumed: the code skips the Risk Manager without one. An element of
`Orders` is one attempt to place an order; that a signal gets one order is the subject of
`AutoTrade`.

`OrderBook` is what any reader of the table relies on: an order is opened once, closed once, with
one reason and one price, and never reopened. `BookSpec` maps its two variables to the status and
exit price of the rows; the code earns it by the `AND status = 'open'` of one `UPDATE`.

### AutoTrade, SignalBook

For one user. `created` is the signals table with its unique keys, `orders` the orders table,
`entered` the real entries, `work` the threads that handle events, and `general`, `dedicated`,
`confluence` the settings the user changes at any time.

| Code | Model |
|---|---|
| Chartink task, Telegram handler, scanner's `_generate_one`, `POST /api/evaluate` | `Receive`, `InsertSignal`, `NextPath`, `WorkerStep` |
| `auto_trade_check` | `ReadGeneral`, `CountOpen` |
| `place_paper_order`, `place_live_order` | `CheckExists`, `SubmitEntry`, `RecordOrder` |
| `_maybe_paper_trade`, `place_order_for_channel` | `ReadDedicated`, `ReadGraduation` |
| `confluence.check_and_trade`, `_record_and_trade` | `ReadConfluence`, `FindMatch`, `InsertConfluence` |
| `channel_reliability`, `check_and_graduate` | `Trades`, `Wins`, `WinRate`, `CheckGraduation` |
| monitor and manual close, as far as they close an order and call the graduation | `CloseHit`, `CloseByHand` |

A score, a symbol with its direction, and whether a signal carries what an order needs are
constants of an event. The wall clock is `window`, which can put recorded signals out of the
confluence window. Because of the status filter (see the findings) no channel graduates in any
reachable state, so the live branch of `place_order_for_channel` is in the model and never taken.

`SignalBook` is what the rest of the program relies on: a signal is recorded once and never taken
out, on grounds that are recorded (none for a source's own signal, a scanner and a Chartink signal
of the same pair for a confluence), and orders are appended, one at most for a signal and only
after it is recorded. `IntakeSpec` maps `recorded` to the keys in `created` and `placed` to the
signals of the rows of `orders`; what becomes of a row later is no step of the book.

### ScannerSignals

For one strategy and a fixed set of users who want its signals. A run is a thread: `StartScan`
(`create_scan_run`), one `ScanStock` per stock, in any order (the pool), `FinishScan`, then for the
calls and after them the puts `LookAt` a stock (`get_previous_classification`), `MakeSignal` per
user and `NextClassification`. `class` is `scanner_results`. `overlaps` is a history variable: the
pairs of runs that have been under way together. The classes that are not qualified are one value,
since nothing here tells them apart; the conditions behind a classification are not modelled. What
becomes of a signal after it is made is `AutoTrade`.

### TradeGrouping, TradeJournal

`history` is what the user executed at the broker; a file is a set of positions in it. `jobs`, `execs`,
`trades`, `journals`, `rules` and `evals` are the tables. The import endpoint is a coroutine that does
not await after it has the file, so one import is under way at a time (`import`), while every other
endpoint may come between two of its commits. `origin`, `erased` and `cut` are history: the row of
`history` each id was given to, the rows a rollback deleted while a trade of another import has them,
and the days an evaluation listed only in part.

| Code | Model |
|---|---|
| `upload_tradebook`, `run_import` | `StartImport`, `InsertExecutions`, `GroupUngrouped`, `InsertTrade`, `LinkExecutions`, `FinishJob` |
| `evaluate_rules_for_recent_trades`, `save_rule_evaluations` | `Newest` (`list_trades`), `EvaluateDays`, `SaveDay`, `RefusedDay`, `EndImport` |
| `rollback_import_job` | `Rollback` |
| rule, plan and journal endpoints | `CreateRule`, `ToggleRule`, `DeleteRule`, `EditPlan`, `SavePlan`, `SaveJournal` |
| an exception or a crash in an import | `ImportDies` |
| `group_into_trades`, `compute_charges`, `evaluate_day_rules`, `evaluate_trade_rules` | `GroupIntoTrades`, `Charges`, `DayCompliant`, `TradeVerdict` |

Amounts are whole: prices in thousands of rupees, net profits in paise. A lot is what is left of an entry, so
`Take` shows at a glance what the open position is made of; an exit that eats several lots is one leg. `MaxListed` is the 5000 of
`list_trades(user_id, limit=5000)`; which trades of one day come first in it is left open. The fingerprint of a row is its
position in `history`; that two different rows have different fingerprints is assumed.

### Backtest

`run` and `rows` are the tables, `worker` the pool's tasks, `thread` the thread that collects.
`StartBacktest`, `SubmitAll` and `UniverseUnreadable` begin a run; `TakeSymbol`, `Fetched`,
`FetchFails`, `WorkerRaises`, `Day` and `EndOfCandles` are `_simulate_symbol`, one `Day` per turn of
its loop; `TakeResult`, `InsertTrade`, `InsertFails`, `NextResult`, `FailRun`, `FinishRun` and `EndUnwritten`, where one of the
last two writes raises, are `_execute_backtest`; `ProcessDies` takes thread and pool. Candles are chosen as the walk comes to
them, since nothing it does depends on a later one. Closes are multiples of 200 paise, so that the floor of half a percent
under the risk is exact.

### Qualification, StockScan

`Directional`, `Shared`, `RangesNotExceeded`, `Classify` and `ScreenerChecks` are the conditions, each
over a record of the prices it compares. Only the order of prices matters to them. `StockScan` is one
`evaluate_stock`: `FetchDaily`, `FetchIntraday`, `EvaluateStock`, `RefuseIneligible`, `DataUnavailable`,
while `Tick` moves the price and the clock between the two reads. A closed market is a market where
`Tick` does not happen. The screener's own 15-minute close is taken as the daily close of the same moment, and
both sources as one: that they differ at the broker is not in the model.

### Scoring, MarketContext, MarketJobs

`Score` is `evaluate_signal`, a sum of one operator per factor over a record of what was found out;
percentages are in tenths. `Ranked`, `Percentile`, `Summary` and `ContextOf` are `compute_context` and
`context_for`. `MarketJobs` runs both jobs: `Boot`, `BootFails`, `LookForDueJobs`, `SkipJob`, `TryJob` and `RetryElapses` are
`_market_context_loop`; `Refresh` is the request; `Acquire`, `Download`, `SaveContext`, `FetchInterest`, `SaveInterest`,
`Mark` and `RunEnds` are `_run_market_job` with the job inside it; `ReadRow` and `Evaluate` are the two
queries of a look-up; `Restart` loses the threads, the attempts and the lock. What a ranking makes of a
downloaded set of closes, and a score of a ranking, are computed in full, so the run checks the jobs,
the ranking and the score together.

### BrokerSessions, BrokerOrders

`accounts` is `broker_accounts`; a callback reads the row (`StartCallback`), talks to the broker, and writes the row it has
read back with the token (`FinishCallback`). `Fresh` is the adapters' idea of a valid token: of today,
or for a pasted Dhan token of the last 24 hours. `Connected` is `get_connected_adapter`. `BrokerSessions` has no `Next` of
its own: `MarketJobs` needs its sessions for the open interest, `BrokerOrders` for entry and exit. In
`BrokerOrders` a position is only the broker of its entry and whether its row is open; the row's life is
`Positions`.

## Runs

| Run | Bounds | Shows |
|---|---|---|
| `positions_paper` | one paper order, buy with or without a stop or sell, 4 prices, one closer, one editor, one fault | `BookSpec`, `StopOnlyTightens`, `PaperExitJustified`, `AlertedOnce` |
| `positions_live` | one live order, long or short, with the percent lock alone or the trail and both locks at once, 4 prices, the automatic exit and one closer, an outcome the user may set, every broker result, one lost answer, one fault | `StopProtects`, `ClosedLiveWasOffset`, `OutcomeOnlyOfClosed` |
| `positions_two` | a paper and a live order, the monitor alone with a user who marks signals, 3 prices, exits the broker rejects, fair | `HitAlertMeansHeld`, `OutcomeMatchesExit`, `BrokerInSync`, `HitIsClosed`, `ExitIsSynced` |
| `autotrade_once` | a scanner row and a Chartink stock that agree, two deliveries, two threads, one fault | `OneOrderPerSignal`, `ConfluenceNotMissed`, `IntakeSpec` |
| `autotrade_limit` | three messages, two threads, a limit of one, one close | `LimitOvershootBounded` |
| `autotrade_live` | a message and a typed signal, four general settings, every broker result, one lost answer, one fault, fair | `EntriesAreKnown`, `QualifiedIsTraded` |
| `scanner_signals` | one stock, two users, four runs, two at a time, one fault | `RepeatMeansOverlap`, `StreakIsSignaled` |
| `journal` | a position closed in part, turned over and closed overnight, and three trades closed on two days, six executions at most; four files, two trades listed, three imports, two troubles: rollbacks, edits or faults | `DayVerdictsAgree`, `VerdictsCurrent`, `NoDoubleCount`, `SplitImportsAgree` |
| `backtest` | two symbols, three candles of four shapes and four classes a day, one worker, fair | `TradesAreTransitions`, `ExitIsFirstTouch`, `CompletedIsWhole`, `RunEnds` |
| `stock_scan` | every order of eight prices over three values, two prior sessions, a candle and a half | `OneSideOnly`, `SidesMirror`, `ConfirmedByClosedCandle`, `ScreenerConfirms` |
| `market` | two days with an instant before and after the jobs' hour, three symbols, one refresh, one look-up, one log-in, one fault, fair | `SnapshotWhole`, `DoneMeansSaved`, `SummaryNotOlder`, `NeverGoesBack`, `ScoresMirror`, `ScoreIsPercentage`, `NightlyRuns`, types |
| `broker_exit` | one position, Kite and Dhan, two log-ins, two days | the finding below |

Why the bounds are enough to be interesting. The races of `Positions` are between one monitor and
one request on one row: the automatic exit and the user's close are the two closers of a live order. A second order
matters only to the tick's loop, which `positions_two` has. In `positions_paper` and `positions_live` four prices let a stop be crossed, a lock be
armed and a trail move twice, for either side. At the lower of the two gains every lock is tighter than the trail, so
that it is the lock that is seen in the stop; at the higher gain the trail has overtaken it. The three prices of `positions_two` are at the stop, the entry and the target. One fault at any point covers each
crash window, and a second would repeat it in a fresh thread. Two threads are the least that pass a
limit or meet in a confluence, and a third message lets the limit be reached before the race. Four
runs let a period be interrupted by a run without a row, overlapped, and resumed. Two stocks do not
interact except through the order they are looked at in. Two imports are the least whose files
overlap, three the least in which an execution is deleted from under a trade and imported again. Two troubles are a
rollback and a fault, an edit and a rollback, or two of a kind, between and within the imports. The four files are empty, nested and adjacent; four executions hold an entry, a partial
exit, a flip and an exit on another day, and with two more there are three trades, one more than an evaluation lists:
it then cuts a day or leaves out the oldest ones. Three candles are a first class, a trade and what follows
it; the second symbol of `backtest` is there for the pool and the order of results. Three prices put
every two of a snapshot below, equal or above one another. Two days with two instants are the
least in which a refresh before the hour, a retry after it, and a ranking of the day before all occur; the three
symbols tie at one of the two instants. Of the two instants the universe is strong at one and weak at
the other, so a row of one run is told from a row of the next.

Positions and the market jobs never deadlock; the others stop when their bounded events, runs or
edits are used up, so there deadlock is not checked.

Fairness. `Positions!FairSpec` is weak fairness of the monitor: `_position_monitor_loop`
(`main.py:58-64`) catches whatever a tick raises, sleeps and runs again, for as long as the process
lives. Requests, quotes and faults are not fair. `AutoTrade!FairSpec` is weak fairness of each
thread that has an event: its calls all have a time limit, and nothing waits for a lock. A thread
may still end by an exception, and `QualifiedIsTraded` says so. `Backtest!Spec` is weak fairness of
the collecting thread and of each worker: the pool runs whatever was submitted, and a fetch ends or
fails. The start of a run, the loss of the process and a raising insert or last write are not fair; `RunEnds`
excepts a lost thread, of which nothing marks the row. `MarketJobs!FairSpec` is weak fairness of the
loop, a coroutine that catches what a job raises and sleeps, and of the runs in their threads, which wait only for a
lock every run gives back. Nothing is assumed of the clock or of the users: `NightlyRuns` speaks of an evening
that lasts, and of a loop that was not lost in its first look at the database, which stands outside its `try`.

## Findings

One run ends in a violation, of a statement the repository makes: `broker_exit` (`ClosedIsFlat`).
`_close_live_order` sends the exit to the first broker with a session at that moment
(`trading.py:477`) and never reads the broker the entry went to. After a log-in at a broker of higher
priority, or when the first one's token has expired, the row is closed and the position stays open
where it is, against the docstring at `trading.py:457-459`.

Further behaviour the models have and no run of its own shows. Where a property excludes one of them,
its comment says so.

* The monitor writes the outcome of a signal whose order the user closed in between, since it
  ignores whether its own `UPDATE` matched (`trading.py:615`, against the comment at 619-621).
  Without a manual close `OutcomeMatchesExit` holds (`positions_two`); `OutcomeOnlyOfClosed` holds always.
* What the user says of a signal (`main.py:431-438`) and what the monitor writes are the same columns, and the later
  write stands (`db.py:872`): an exit takes the place of a partial success the user noted, and of the note. The
  properties of outcomes speak of those the monitor wrote, and `ExitIsSynced` says that it does write.
* A manual close and the automatic exit both read "open" and both sell (`trading.py:655`). Without a
  manual close the broker and the table agree (`BrokerInSync`). With one, what `Positions` still keeps is
  `ClosedLiveWasOffset`, and that is for a single broker whose accepted orders are filled: with two brokers it is
  not true either, as `broker_exit` shows, nor of an order that gets an id and is rejected afterwards.
* An edit of the risk settings between the monitor's read and its write has its cleared
  `profit_locked` overwritten (`db.py:1615`, against 1590): a lock that fired under the old settings
  keeps one of the new settings from firing. `StopProtects` is therefore checked without an editor.
* A stop finer than a paise can be replaced by the rounded, looser level (`trading.py:572`, against
  the comment at 531). `StopOnlyTightens` is checked and proved for stops of whole paise (`GridTerms`).
* A broker that executes an exit and loses the answer leaves the row open, and the alert says the
  position is still held (`trading.py:670`, `alerts.py:94`). `HitAlertMeansHeld` is checked without lost answers.
* A broker that executes an entry and loses the answer leaves no order in the table, and the next
  path buys again (`trading.py:342`). `EntriesAreKnown` is stated up to the first lost answer.
* The position limit can be passed, by one order per further thread (`trading.py:206`); the bound
  is exact, checked and proved (`LimitOvershootBounded`).
* The win rate of a channel counts orders of a status that no order is ever given (`db.py:1386`), so
  no channel graduates.
* Two scans under way at once both take a stock for newly qualified (`scanner_signals.py:38`);
  what holds always is `RepeatMeansOverlap`. A signal that raises while a scan's signals are made,
  and a crash there, lose the signals of all the stocks after it (`scanner.py:104-111`);
  `StreakIsSignaled` excludes periods with a broken run.
* The day rules are re-run, by the docstring (`importer.py:78-79`), "for every exit-date touched by trades belonging
  to this user"; what is listed is the newest 5000 trades (`importer.py:82`). A day the limit goes through is judged by the
  trades that are listed, which get the new verdict while the others keep an old one or have none, and the days before
  it are not judged again, also not when the import added trades to them. `DayVerdictsAgree` excepts the days that
  were ever cut so, `VerdictsCurrent` the days that are not within the limit now.
* Rolling an import back removes executions that a later file contained too and skipped as
  duplicates (`trademind/db.py:144-147`): importing that file again is refused, for its job is still completed.
* Rolling an import back also removes executions a later import made a trade of, and the trade stays. When the file is
  imported again, its executions are taken for new and are used by a further trade: three imports reach it.
  `NoDoubleCount` counts what trades use of each execution at the broker, whatever ids it had, and excepts the
  executions deleted so (`erased`); that of all others nothing counts twice is checked and proved.
* An execution that turns a position over in two files stays linked to the trade it closed, so what
  it opened is lost to the next import (`importer.py:35`, 55). `SplitImportsAgree` excludes such histories.
* A refresh before the hour marks the night's job as done (`main.py:469`, `db.py:2416`): the loop does not run it
  again that day. What is stored is then the morning's ranking. `NightlyRuns` says only that the day is done.
* A log-in callback writes back the credentials it read before it talked to the broker
  (`kite.py:58`): credentials saved meanwhile are lost.
* A risk-reward ratio is computed only for a stop below the entry (`scoring.py`), so a signal to
  sell the underlying gets no points for it; `ScoresMirror` leaves the prices of the signal as they are.
* The charges of a short trade take what was sold for bought (`importer.py:41-42`).
* A backtest whose universe cannot be read, whose last write raises, or whose process ends, stays "running" for good
  (`backtest.py:269`, 290-294).
* The loop of the nightly jobs asks whether there is a ranking before its `try` (`main.py:123`): a database error there
  ends it, and no job runs by night until the process is started again. `NightlyRuns` excepts that.
* The first day of a backtest's history has no day before, so a stock that has been qualified for
  weeks opens a trade there (`backtest.py:208-212`).

## Proofs

All theorems hold for every value of the constants that satisfies the named assumptions: any
orders, prices, terms, settings, threads, events, stocks, users, and any bound on faults.

* `PositionsProofs`. `SafetyInv` is types, plus where a placement is (`PlacementInv`), what each
  thread holds (`ThreadInv`: a row it works on exists, has the mode and entry price it thinks), and
  what the broker holds (`HeldInv`: bought at most once, and sold before any thread is about to
  record a close). `ClosedLiveWasOffset` is not inductive alone: it needs that a thread at its
  `UPDATE` of a live row has sold, which `HeldInv` says. `StopsOnlyTighten` needs `SnapshotInv`:
  the monitor's copy of a stop *is* the stored stop until it writes it, because no other writer
  touches that column, and every stored stop is on the rounding grid, so rounding never undoes a
  strict improvement; hence its hypothesis `GridTerms`. `ImplementsOrderBook` is the step
  simulation: each action is an `Open`, a `Close` or a stutter.
  How orders end comes after: `ExitInv` says that each row the monitor has still to handle shows the side, stop and target
  of its copy and was not closed as hit by anyone else (`CopyInv`), that an alert is marked or was paid for by a fault (`AlertInv`), and
  that the outcomes the monitor wrote, over whatever the user did, are the hits of rows that only a manual close had closed before (`OutcomeInv`). `PaperExitsAreJustified`, `AlertsAreCounted` and
  `OutcomesOrManual` follow for any requests and faults. `OutcomesMatchExits`, `BrokerStaysInSync` and `AlertsAreOfHeld` have
  the hypothesis `Closers = {}`, since a manual close between the monitor's read and its write really breaks them (see the
  findings); the latter two speak of a run up to the first fault or lost answer. `StopsProtect` has the hypotheses
  `Editors = {}`, for the same reason, and `GridTerms`; its
  conclusion is `StopProtects` for any settings and prices. Its `RiskInv` says that without edits the monitor's copy is
  the row's whole risk state; the step of the Risk Manager needs that a candidate that does not replace a stop on
  the grid is no tighter than it once rounded (`KeptIsTight`), and that a trail put over a lock only tightens it.
* `AutoTradeProofs`. `IntakeInv` adds to `OneOrderPerSignal` that a signal is on its way to an order in
  one thread only, since only the thread whose `INSERT OR IGNORE` took goes on, and that a thread
  past `get_order_by_signal_id` still finds none; to `ConfluenceIsConfirmed`, what a thread that copies a
  signal has seen. `LimitInv` counts the threads that have found room together with the open
  orders; when one more finds room there is an idle place among the other threads. `EntriesKnown` counts,
  per signal, entries against rows and threads about to insert one: one entry at most, and one of the two for it.
  `ConfluencesAreFound` is the race of two threads that each insert their signal and then look for the
  other's: `HeadingInv` says that of a recorded pair that agrees the confluence is recorded too, or a thread
  has still to look; the later of the two inserts is the step that matters. `ImplementsSignalBook` is the step
  simulation: the two inserts of a signal are a `Record`, an insert of an order is a `Place`, all else is a stutter.
  The grounds of a `Record` are what `PathInv` says the thread has seen, and still there since no step deletes a signal.
* `ScannerSignalsProofs`. `ScanInv` says that runs which were not under way together came one after the
  other, hence the earlier one's rows are final (`RunsInv`), that a signal was news in view of such rows
  when it was made (`NewInv`), and that a run which is alone has, for each qualified stock, a step
  left to do, a previous row that says the same, or its signals (`WorkInv`). `RepeatsMeanOverlaps` is
  an instance of `NewInv`; `StreaksAreSignaled` takes the first run of the period.
* `StockScanProofs`. `Inv` says that there is one 15-minute close per candle begun (`TypeInv`: the number of
  closes follows from the time), that the clock the evaluation read is not ahead of the market's,
  and that a class is that of what was read. `ConfirmationsAreFinished` needs the first two. The
  other theorems rest on counting: no comparison goes both ways, so the sides' failed directional conditions
  together cover all six (`SidesExclude`), and two sides that fail six conditions between them
  cannot both be near (`ClassesOfCounts`); turning the prices exchanges the two counts (`Turned`); and
  a side that fails nothing passes the screener's checks (`NoFailures`). Assumed: `ScanAssumption`
  (prices are integers with a least and a greatest one, a candle has a length) and `PriceAssumption`.
* `MarketJobsProofs`. `JobsInv` says that one run at a time is past the lock (`OneRun`), that a caller
  with a run still has its job on its list (`Queued`), that the summaries stored are of days that have
  begun and of downloads in the order of their days (`StoredInv`), that what a run holds was seen no
  later than now and nothing newer is stored (`RunInv`), and that every row, stored or held by a
  look-up, has a summary at least as new (`RowsInv`, `LookupInv`). `StoresGoForward` needs the lock:
  without `OneRun` a second run could save between the first one's download and its save.
  `MarketsAreNotOlder` needs that days and downloads have the same order, since the summary read is that of the
  latest day. `SnapshotsAreWhole` is inductive with `JobsInv`: a save replaces all rows of its day
  at once, and only with a ranking of enough stocks. For `JobsAreTyped` the ranking has to be computed: a percentile is within 1 to 99 and the
  median of a sector's ranks is one of them or the mean of two. `ScoresAreSymmetric` and `ScoresArePercentages` are about operators: the
  points of each factor are those of its mirror image and within the factor's maximum, so their sum is; the
  invariant is that whatever a look-up found is a `ContextInfo`, so it needs the types of the stored rows. Assumed:
  `JobsAssumption`, `SessionsAssumption`, `DownloadsAssumption` (downloads are of known symbols, of
  which there are finitely many), `FactsAssumption` (the other facts are of the shape `evaluate_signal` is given), and that `None` and
  `Unavailable` are none of the stored values (`NoneAssumption`, `UnavailableAssumption`).
* `BacktestProofs`. `WorkersInv` says of each worker that what it holds is the walk of the candles it has
  seen: its closed trades opened on fresh turns and closed at the first touch, the open one has met
  neither level, and the class it remembers is that of the last day. `TradesFollowTransitions` and `ExitsAreFirstTouches` are
  read off it. `RunInv` adds the collecting thread: the rows inserted, followed by those still to be written of the result at
  hand, are the whole trades of the symbols taken so far, one after the other, and the errors name the
  failed ones; hence `CompletedRunsAreWhole`. Assumed: `BacktestAssumption` (horizons, holding limit and pool are
  positive, prices of a candle are natural, `NoTrade` is no trade).
* `TradeGroupingProofs`. Sums, the lots an exit eats and the grouping are recursive functions; each is
  shown to exist (`RecursionExists`) and to satisfy its equation for one element more, and what is claimed of all
  sequences is a set closed under such steps (`UpTo`, `BySequence`), since a theorem with an operator for its
  hypothesis cannot be instantiated. `Conserved` is the invariant of `Take`: closed trades are balanced, and the open
  one has entered what it exited and its lots, its profit being what the exits got less what the eaten lots cost
  (`Realized`). With what is used of each execution so far (`UsesAll`) it gives `GroupingIsExact`.
  `GroupingInParts` is about a log and a point in it. As long as no execution turns a position over (`Straight`) a trade
  is closed only when its symbol's lots are gone, so what closed trades use of a symbol is everything up to where it
  was last closed (`ClosedAt`, `SettledUntil`); from there on the rest, grouped on its own, goes through the same
  states as everything grouped at once, but for the trades closed before (`Continues`, `RestOfSymbol`).
  `NeverTurned` ties `Straight` to the signs of the running positions, which is how `Flips` says it.
* `TradeJournalProofs`. `JournalInv` says that what an import holds after it judged the trades covers whole
  days, but for those it notes in `cut` (`HeldVerdicts`): of a day and a rule it has all trades or none, with one
  verdict. So a day that is saved replaces whatever was stored of it, and `DaysAgree` holds also when the next day is refused. For
  `VerdictsAreCurrent`, with any limit: a day within the limit is listed whole, since a trade of it that is left out
  would make more trades of that day and later than the limit (`WithinIsListed`); as long as nothing changed since, the
  database accepts what is held, every verdict required is stored or held (`AllJudged`), and a plan's verdicts are of other rules. The sums behind a verdict stay
  opaque; that a plan's edit leaves them alone needs that a day's trades are listed the same way (`PlansLeaveDays`).
  `NothingCountedTwice` needs more than it says: `CountInv` adds to the trades there are those an import has still to insert
  (`NotOverused`), and says that a trade's executions are linked, or gone with a rollback, or about to be linked
  (`TradesAreLinked`). So what `GroupUngrouped` finds unlinked is used by no trade, and it uses each execution once.
  That is said of ids. What it says of the executions at the broker needs `OriginInv`: an id is only ever given to one row
  of the history, the table has a row under one id at a time, and what a trade uses is in the table or in `erased`. So
  the trades that use a row outside `erased` all use it under the one id it has now (`OneExecution`), and its count is that id's.
  `SplitsAgree` rests on `SplitInv`: up to a point n of the executions by id (all of them, unless an import has inserted
  new ones and not grouped them), the linked executions and those of the trades an import has left are the ones the
  trades grouped of the first n use, and these trades are there or pending (`GroupedUpTo`). So `GroupUngrouped` groups
  exactly what is not settled, and `GroupingInParts` says that this makes the missing trades. A rollback, a crash,
  files out of order and a turned position end the claim, as the code does not keep it there. Assumed:
  `HistoriesAssumption`, that the user's executions are what `parse_csv` accepts (a side, a positive quantity and price).

Only model-checked: liveness (`HitIsClosed`, `ExitIsSynced`, `QualifiedIsTraded`, `RunEnds`,
`NightlyRuns`), which is out of the prover's reach. Every safety invariant a run checks has a theorem. The inductive
invariants were model-checked on the instances of the runs before they were proved.

Types, `ScanInv` and `ConfluenceIsConfirmed` have theorems and no run of their own any more: the runs check
properties that need them or, for the last, say them (`IntakeSpec`).

## Not modelled

* In modelled components: orders a broker accepts by id and rejects later (`trading.py:491-506` takes the id for the
  exit, and nothing asks again); position sizing, lots and the daily-loss limit; the resolution of an
  option contract; several strategies and users in one scan (runs of different strategies do not read
  each other's rows); how candles are resampled and averaged; where the facts of a score come
  from (indicators, headlines, option chains); `POST /api/broker/connect`, which stores any
  dictionary under any broker's name; several broker accounts in the journal, how a line of a
  tradebook is parsed, and the compliance and behaviour pages.
* The price cache: `Positions` lets the monitor see any quote or none, which covers what a cached
  answer can be. The Telegram listener, the settings' read-modify-write and the rate limiter are in the plan.
* The Chartink hit log is plain inserts and deletes; what a hit becomes is `AutoTrade`'s.
* The message parser is string processing; broker calls, quotes, news, the ticker, the broadcast and
  the universe's refresh are network input and output; password hashing is a library's; the browser
  client keeps no state the server relies on.
