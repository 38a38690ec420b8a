----------------------------- MODULE MarketJobs -----------------------------
(* The nightly jobs (market_context.py, main.py): the ranking of the F&O universe and the snapshot of the futures' open
   interest, each run by one background loop after its hour, by a refresh on request, and by the loop's first pass where
   there is no ranking yet.  One lock serialises the runs; the marks in job_runs keep the loop from running a job twice
   a day.  The ranking is read by the scoring of signals (Scoring) in two queries.  The snapshot needs a user's Kite
   session (BrokerSessions), and all share the clock; the instants of a day include the two from which the jobs may run.  The
   trading week has holes: Weekend. *)
EXTENDS MarketContext, BrokerSessions

CONSTANTS
  Weekend,        \* days without trading
  OiAfter, ContextAfter,  \* OI_AFTER, CONTEXT_AFTER: the instants from which the jobs may run (15:45, 16:15)
  Downloads,      \* the sets of symbols a download can bring
  Closes(_),      \* what the daily bars of the universe say at an instant
  StaleAfterDays, \* the age at which a ranking is no longer used (7)
  Requests,       \* threads of POST /api/market-context/refresh and its background tasks
  Lookups,        \* threads that evaluate a signal
  Asked,          \* the symbols they ask for, in or out of the universe
  Facts,          \* what else is known of a signal
  MaxFaults

ASSUME JobsAssumption == {OiAfter, ContextAfter} \subseteq 0..MaxSlot /\ StaleAfterDays \in Nat /\ MaxFaults \in Nat
\* The universe is a list in the code: a download brings some of its symbols.
ASSUME DownloadsAssumption == IsFiniteSet(DOMAIN Sector) /\ Downloads \subseteq SUBSET DOMAIN Sector
ASSUME FactsAssumption == Facts \subseteq SignalFacts

Context  == "market_context"
Interest == "fut_oi_snapshot"
Jobs     == {Context, Interest}
Days     == 0..MaxDay
Loop     == "loop"
Callers  == Requests \cup {Loop}

VARIABLES
  todo,       \* of each caller, the jobs it still has to run, in order
  trying,     \* whether the loop is at the lock, for the first of its jobs
  booted,     \* whether the loop has had its look at an empty database: "no", "yes", or "lost" when that look raised
  attempted,  \* the jobs the loop has tried within the last half hour, the oldest first
  run,        \* of each caller, the run it has under way: its job and progress, or None
  stock,      \* market_context_stock
  summary,    \* market_context_summary: of each day, a row or None
  interest,   \* fut_oi_snapshot: of each day, when its rows were fetched, or None
  done,       \* job_runs: of each job the day it was last done, or None
  lookup,     \* of each evaluation under way, the row it has read, or None
  refreshes,  \* the requests that were accepted
  faults      \* crashes and failed runs so far

jobVars == <<todo, trying, booted, attempted, run, stock, summary, interest, done, lookup, refreshes, faults>>
vars == <<clock, brokerVars, jobVars>>

Init ==
  /\ clock = Start /\ BrokerInit
  /\ todo = [c \in Callers |-> <<>>]
  /\ trying = FALSE /\ booted = "no" /\ attempted = <<>> /\ run = [c \in Callers |-> None]
  /\ stock = {} /\ summary = [d \in Days |-> None] /\ interest = [d \in Days |-> None]
  /\ done = [j \in Jobs |-> None]
  /\ lookup = [l \in Lookups |-> None]
  /\ refreshes = {} /\ faults = 0

\* ORDER BY as_of DESC LIMIT 1, of a table with a row per day.
Latest(days) == CHOOSE d \in days : \A e \in days : e <= d
SummaryDays  == {d \in Days : summary[d] # None}
LatestSummary == IF SummaryDays = {} THEN None ELSE summary[Latest(SummaryDays)]

Running(c) == run[c] # None

\* _market_context_lock
Locked == \E c \in Callers : Running(c)

------------------------------------------------------------------------------
(* The loop. *)

\* _market_context_loop up to its while: bootstrap_needed.
Boot ==
  /\ booted = "no"
  /\ booted' = "yes"
  /\ IF LatestSummary = None
     THEN todo' = [todo EXCEPT ![Loop] = <<Context>>] /\ trying' = TRUE
     ELSE UNCHANGED <<todo, trying>>
  /\ UNCHANGED <<clock, brokerVars, attempted, run, stock, summary, interest, done, lookup, refreshes, faults>>

\* That look stands before the try: when it raises the loop is over until the process starts again.
BootFails ==
  /\ booted = "no" /\ faults < MaxFaults
  /\ booted' = "lost" /\ faults' = faults + 1
  /\ UNCHANGED <<clock, brokerVars, todo, trying, attempted, run, stock, summary, interest, done, lookup, refreshes>>

\* due_jobs, of one job.
Due(job) ==
  clock.day \notin Weekend /\ clock.slot >= (IF job = Context THEN ContextAfter ELSE OiAfter) /\ done[job] # clock.day

\* due_jobs
DueJobs == (IF Due(Context) THEN <<Context>> ELSE <<>>) \o (IF Due(Interest) THEN <<Interest>> ELSE <<>>)

Recent(job) == Contains(attempted, job)

\* A look that finds only jobs of the last half hour does nothing.
LookForDueJobs ==
  /\ booted = "yes" /\ todo[Loop] = <<>> /\ (\E job \in Jobs : Due(job) /\ ~Recent(job))
  /\ todo' = [todo EXCEPT ![Loop] = DueJobs]
  /\ UNCHANGED <<clock, brokerVars, trying, booted, attempted, run, stock, summary, interest, done, lookup, refreshes, faults>>

\* An attempt within the last half hour: the next job's turn.
SkipJob ==
  /\ todo[Loop] # <<>> /\ ~trying /\ ~Running(Loop) /\ Recent(Head(todo[Loop]))
  /\ todo' = [todo EXCEPT ![Loop] = Tail(@)]
  /\ UNCHANGED <<clock, brokerVars, trying, booted, attempted, run, stock, summary, interest, done, lookup, refreshes, faults>>

TryJob ==
  /\ todo[Loop] # <<>> /\ ~trying /\ ~Recent(Head(todo[Loop]))
  /\ ~Running(Loop)
  /\ attempted' = Append(attempted, Head(todo[Loop]))
  /\ trying' = TRUE
  /\ UNCHANGED <<clock, brokerVars, todo, booted, run, stock, summary, interest, done, lookup, refreshes, faults>>

\* Half an hour after an attempt; it only matters when the loop looks again.
RetryElapses ==
  /\ todo[Loop] = <<>> /\ attempted # <<>>
  /\ attempted' = Tail(attempted)
  /\ UNCHANGED <<clock, brokerVars, todo, trying, booted, run, stock, summary, interest, done, lookup, refreshes, faults>>

(* refresh_market_context: refused while a run holds the lock; its two tasks run one after the other. *)
Refresh(r) ==
  /\ r \notin refreshes /\ ~Locked
  /\ todo' = [todo EXCEPT ![r] = <<Context, Interest>>]
  /\ refreshes' = refreshes \cup {r}
  /\ UNCHANGED <<clock, brokerVars, trying, booted, attempted, run, stock, summary, interest, done, lookup, faults>>

------------------------------------------------------------------------------
(* A run: _run_market_job, the lock held from its first step to its last. *)

\* The tasks of a request go to the lock one after the other.
AtTheLock(c) == todo[c] # <<>> /\ ~Running(c) /\ (c = Loop => trying)

\* A bug to compare with: nobody waits.
AcquireAtOnce(c) ==
  /\ AtTheLock(c)
  /\ trying' = (trying /\ c # Loop)
  /\ run' = [run EXCEPT ![c] = [job |-> Head(todo[c]), pc |-> "fetch", ranking |-> None, seen |-> None, as_of |-> None]]
  /\ UNCHANGED <<clock, brokerVars, todo, booted, attempted, stock, summary, interest, done, lookup, refreshes, faults>>
Acquire(c) ==
  /\ AtTheLock(c) /\ ~Locked
  /\ trying' = (trying /\ c # Loop)
  /\ run' = [run EXCEPT ![c] = [job |-> Head(todo[c]), pc |-> "fetch", ranking |-> None, seen |-> None, as_of |-> None]]
  /\ UNCHANGED <<clock, brokerVars, todo, booted, attempted, stock, summary, interest, done, lookup, refreshes, faults>>

\* What compute_context makes of every download.
Ranking(got, t) ==
  LET rows == Ranked([s \in got |-> Closes(t)[s]]) IN [got |-> got, rows |-> rows, summary |-> Summary(rows), seen |-> t]
Rankings == {Ranking(got, t) : got \in Downloads, t \in Instant}

\* What is stored of a ranking: its rows of a day and its summary.
StoredRows(ranking, day) ==
  {[symbol |-> r.symbol, rs |-> r.rs, stage |-> r.stage, ext |-> r.ext, as_of |-> day, seen |-> ranking.seen] : r \in ranking.rows}
StoredSummary(ranking) ==
  LET s == ranking.summary
  IN  [count |-> s.count, breadth |-> s.breadth, regime |-> s.regime, sectors |-> s.sectors, seen |-> ranking.seen]

ASSUME NoneAssumption ==
  None \notin Days \cup Instant \cup {StoredSummary(k) : k \in Rankings} \cup UNION {StoredRows(k, d) : k \in Rankings, d \in Days}

\* _download_closes, where some batches may bring nothing, and compute_context.
Download(c) ==
  /\ Running(c) /\ run[c].pc = "fetch" /\ run[c].job = Context
  /\ \E ranking \in Rankings :
       /\ ranking.seen = clock /\ (ranking.got = DOMAIN Sector \/ faults < MaxFaults)
       /\ run' = [run EXCEPT ![c].pc = "save", ![c].ranking = ranking]
       /\ faults' = IF ranking.got = DOMAIN Sector THEN faults ELSE faults + 1
  /\ UNCHANGED <<clock, brokerVars, todo, trying, booted, attempted, stock, summary, interest, done, lookup, refreshes>>

\* A bug to compare with: the day's earlier rows are left where the new run has none.
ReplacedByInsert(day, rows) == {r \in stock : ~(r.as_of = day /\ \E new \in rows : new.symbol = r.symbol)}
\* save_market_context, DELETE: the day's rows.
Replaced(day, rows) == {r \in stock : r.as_of # day}

\* A bug to compare with: the day's first summary stays.
FirstSummary(day, new) == IF summary[day] = None THEN new ELSE summary[day]
\* INSERT OR REPLACE
NewSummary(day, new) == new

\* The end of run_context_job: today is asked for after the download.
SaveContext(c) ==
  /\ Running(c) /\ run[c].pc = "save" /\ run[c].job = Context /\ Enough(run[c].ranking.rows)
  /\ stock' = Replaced(clock.day, run[c].ranking.rows)
                \cup StoredRows(run[c].ranking, clock.day)
  /\ summary' = [summary EXCEPT ![clock.day] = NewSummary(clock.day, StoredSummary(run[c].ranking))]
  /\ run' = [run EXCEPT ![c].pc = "mark", ![c].as_of = clock.day, ![c].ranking = None]
  /\ UNCHANGED <<clock, brokerVars, todo, trying, booted, attempted, interest, done, lookup, refreshes, faults>>

\* run_oi_snapshot_job up to the rows: a user who counts as connected and whose session is valid.
FetchInterest(c) ==
  /\ Running(c) /\ run[c].pc = "fetch" /\ run[c].job = Interest
  /\ \E u \in ListedUsers("kite") : ValidSession(u, "kite")
  /\ run' = [run EXCEPT ![c].pc = "save", ![c].seen = clock]
  /\ UNCHANGED <<clock, brokerVars, todo, trying, booted, attempted, stock, summary, interest, done, lookup, refreshes, faults>>

SaveInterest(c) ==
  /\ Running(c) /\ run[c].pc = "save" /\ run[c].job = Interest
  /\ interest' = [interest EXCEPT ![clock.day] = run[c].seen]
  /\ run' = [run EXCEPT ![c].pc = "mark", ![c].as_of = clock.day, ![c].seen = None]
  /\ UNCHANGED <<clock, brokerVars, todo, trying, booted, attempted, stock, summary, done, lookup, refreshes, faults>>

\* A bug to compare with: the day is asked for again.
MarkToday(c) ==
  /\ Running(c) /\ run[c].pc = "mark"
  /\ done' = [done EXCEPT ![run[c].job] = clock.day]
  /\ todo' = [todo EXCEPT ![c] = Tail(@)]
  /\ run' = [run EXCEPT ![c] = None]
  /\ UNCHANGED <<clock, brokerVars, trying, booted, attempted, stock, summary, interest, lookup, refreshes, faults>>
\* set_job_done, and the lock is released.
Mark(c) ==
  /\ Running(c) /\ run[c].pc = "mark"
  /\ done' = [done EXCEPT ![run[c].job] = run[c].as_of]
  /\ todo' = [todo EXCEPT ![c] = Tail(@)]
  /\ run' = [run EXCEPT ![c] = None]
  /\ UNCHANGED <<clock, brokerVars, trying, booted, attempted, stock, summary, interest, lookup, refreshes, faults>>

\* What ends a run early: too few rows, no session, an answer of the broker's.
NothingToSave(c) ==
  IF run[c].job = Context THEN run[c].pc = "save" /\ ~Enough(run[c].ranking.rows)
  ELSE run[c].pc = "fetch" /\ ~(\E u \in ListedUsers("kite") : ValidSession(u, "kite"))

\* A bug to compare with: the lock is kept.
RunEndsLocked(c) ==
  /\ Running(c) /\ (NothingToSave(c) \/ faults < MaxFaults)
  /\ run' = [run EXCEPT ![c].pc = "ended"]
  /\ faults' = IF NothingToSave(c) THEN faults ELSE faults + 1
  /\ UNCHANGED <<clock, brokerVars, todo, trying, booted, attempted, stock, summary, interest, done, lookup, refreshes>>
\* A run that has nothing to save, or that raises wherever it is: the lock is released and the loop goes on.
RunEnds(c) ==
  /\ Running(c) /\ (NothingToSave(c) \/ faults < MaxFaults)
  /\ todo' = [todo EXCEPT ![c] = Tail(@)]
  /\ run' = [run EXCEPT ![c] = None]
  /\ faults' = IF NothingToSave(c) THEN faults ELSE faults + 1
  /\ UNCHANGED <<clock, brokerVars, trying, booted, attempted, stock, summary, interest, done, lookup, refreshes>>

RunStep(c) ==
  Acquire(c) \/ Download(c) \/ SaveContext(c) \/ FetchInterest(c) \/ SaveInterest(c) \/ Mark(c) \/ RunEnds(c)

JobStep ==
  \/ Boot \/ BootFails \/ LookForDueJobs \/ SkipJob \/ TryJob \/ RetryElapses
  \/ (\E r \in Requests : Refresh(r))
  \/ (\E c \in Callers : RunStep(c))

------------------------------------------------------------------------------
(* The evaluation of a signal: context_for, then evaluate_signal. *)

\* get_latest_stock_context
ReadRow(l, symbol) ==
  LET mine == {r \in stock : r.symbol = symbol}
  IN  /\ lookup[l] = None
      /\ lookup' = [lookup EXCEPT ![l] =
           [row |-> IF mine = {} THEN None ELSE CHOOSE r \in mine : \A q \in mine : q.as_of <= r.as_of]]
      /\ UNCHANGED <<clock, brokerVars, todo, trying, booted, attempted, run, stock, summary, interest, done, refreshes, faults>>

Usable(row) == clock.day - row.as_of <= StaleAfterDays

\* context_for, of the row it read and the summary it reads now: nothing for a symbol without a row, before the first
\* ranking, and where the row is too old.
Looked(l) ==
  LET row == lookup[l].row
  IN  IF row = None \/ LatestSummary = None \/ ~Usable(row) THEN Unavailable ELSE ContextOf(row, LatestSummary)

\* get_latest_market_summary: what is known of the signal is now Facts with Looked(l); the score goes with it (AutoTrade).
Evaluate(l) ==
  /\ lookup[l] # None
  /\ lookup' = [lookup EXCEPT ![l] = None]
  /\ UNCHANGED <<clock, brokerVars, todo, trying, booted, attempted, run, stock, summary, interest, done, refreshes, faults>>

LookupStep ==
  \E l \in Lookups : (\E symbol \in Asked : ReadRow(l, symbol)) \/ Evaluate(l)

------------------------------------------------------------------------------
\* The half hour of a retry is over by the next instant.
TimePasses == Tick /\ attempted' = <<>> /\ UNCHANGED <<brokerVars, todo, trying, booted, run, stock, summary, interest, done,
                                                     lookup, refreshes, faults>>

\* The process dies and starts again: the tables and the accounts survive.
Restart ==
  /\ faults < MaxFaults
  /\ todo' = [c \in Callers |-> <<>>]
  /\ trying' = FALSE /\ booted' = "no" /\ attempted' = <<>> /\ run' = [c \in Callers |-> None]
  /\ lookup' = [l \in Lookups |-> None]
  /\ login' = [u \in Users |-> None]
  /\ faults' = faults + 1
  /\ UNCHANGED <<clock, accounts, logins, stock, summary, interest, done, refreshes>>

Next == JobStep \/ LookupStep \/ TimePasses \/ (BrokerStep /\ UNCHANGED jobVars) \/ Restart

Spec == Init /\ [][Next]_vars

(* The loop's coroutine goes on, and so do the threads of the runs.  Nothing is assumed of the clock, of the users, or of
   the evaluation of signals. *)
Fairness ==
  /\ WF_vars(Boot \/ LookForDueJobs \/ SkipJob \/ TryJob \/ RetryElapses)
  /\ WF_vars(\E c \in Callers : RunStep(c))
FairSpec == Spec /\ Fairness

------------------------------------------------------------------------------
TypeOK ==
  /\ BrokerTypeOK
  /\ todo \in [Callers -> Seq(Jobs)] /\ trying \in BOOLEAN
  /\ booted \in {"no", "yes", "lost"} /\ attempted \in Seq(Jobs) /\ refreshes \subseteq Requests /\ faults \in 0..MaxFaults
  /\ \A c \in Callers : Running(c) => run[c].job \in Jobs /\ run[c].pc \in {"fetch", "save", "mark"}
  /\ \A r \in stock : r.as_of \in Days /\ r.rs \in 1..99 /\ r.stage \in 1..4
  /\ interest \in [Days -> Instant \cup {None}] /\ done \in [Jobs -> Days \cup {None}]

(* The rows the table has of a day are all of one ranking's, and the summary is theirs, after every mixture of refreshes,
   nightly runs, failures and crashes (db.py:2430-2460: "Replaces the given day's snapshot atomically"). *)
RowsOn(d) == {r \in stock : r.as_of = d}
SnapshotWhole ==
  \A d \in Days :
    IF summary[d] = None THEN RowsOn(d) = {}
    ELSE \E k \in Rankings :
           /\ Cardinality(k.rows) >= MinRanked
           /\ summary[d] = StoredSummary(k)
           /\ RowsOn(d) = StoredRows(k, d)

(* A job counts as done for a day only if the tables have that day: the loop never passes over a night whose data is
   missing (market_context.py:198-201, 231-234). *)
DoneMeansSaved ==
  /\ done[Context] # None => summary[done[Context]] # None
  /\ done[Interest] # None => interest[done[Interest]] # None

(* Runs that overlap in time never undo each other: what is stored of a day was fetched no earlier than what it
   replaces (main.py:106-107, the lock). *)
NotBefore(s, t) == s.day > t.day \/ (s.day = t.day /\ s.slot >= t.slot)
NeverGoesBack ==
  [][\A d \in Days : /\ summary[d] # None => NotBefore(summary'[d].seen, summary[d].seen)
                     /\ interest[d] # None => NotBefore(interest'[d], interest[d])]_vars

(* The two queries of a lookup straddle a run at most forwards: the breadth of the market a score uses is never older
   than the stock's own row, so a row is never combined with a market of before it (market_context.py:146-151). *)
SummaryNotOlder ==
  \A l \in Lookups : lookup[l] # None /\ lookup[l].row # None =>
    LatestSummary # None /\ NotBefore(LatestSummary.seen, lookup[l].row.seen)

\* The mirror image of what is known of a stock.
MirrorWay == [up |-> "down", down |-> "up", mixed |-> "mixed", none |-> "none"]
MirrorNews == [positive |-> "negative", negative |-> "positive", neutral |-> "neutral", none |-> "none"]
MirrorStage == <<1, 4, 3, 2>>
MirrorRank(rank) == IF rank = Unavailable THEN Unavailable ELSE 100 - rank
MirrorSign(sign) == IF sign = Unavailable THEN Unavailable ELSE -sign
MirrorTech(t) ==
  IF t = Unavailable THEN t
  ELSE [t EXCEPT !.trend = MirrorWay[t.trend], !.breakout = MirrorWay[t.breakout], !.rsi = 100 - t.rsi,
                 !.rel = MirrorSign(t.rel)]
MirrorStock(i) == IF i = Unavailable THEN i ELSE [i EXCEPT !.rel = MirrorSign(i.rel)]
MirrorMarket(m) ==
  IF m = Unavailable THEN m
  ELSE [stage |-> MirrorStage[m.stage], rs |-> MirrorRank(m.rs), sector_rs |-> MirrorRank(m.sector_rs),
        regime |-> IF m.regime = "neutral" THEN "neutral" ELSE Opposite(m.regime)]
Mirror(f) ==
  [f EXCEPT !.tech = MirrorTech(f.tech), !.news = MirrorNews[f.news], !.stock = MirrorStock(f.stock),
            !.market = MirrorMarket(f.market)]

\* What a lookup can come to, and what a signal then scores, seen from both sides.
Contexts == {ContextOf(r, k.summary) : r \in UNION {j.rows : j \in Rankings}, k \in Rankings}
ScoresGiven(context) ==
  {[score |-> Score(f, d), mirrored |-> Score(Mirror(f), Opposite(d))] :
     f \in {[g EXCEPT !.market = context] : g \in Facts}, d \in Directions}
Scores == {[context |-> m, all |-> ScoresGiven(m)] : m \in Contexts \cup {Unavailable}}

\* The scores of the evaluations under way, were they to read the summary now.
Evaluations == LET m == {Looked(l) : l \in {k \in Lookups : lookup[k] # None}} IN {e \in Scores : e.context \in m}

(* A CE and a PE evaluated on mirrored facts score the same: the tables and limits of bullish and bearish calls are
   typed out twice (scoring.py:31-66, 109-240). *)
ScoresMirror == \A e \in Evaluations : \A s \in e.all : s.score = s.mirrored

(* Whatever the context a lookup found, a score is a percentage: the points a factor adds come with its maximum. *)
ScoreIsPercentage == \A e \in Evaluations : \A s \in e.all : s.score \in 0..1000

(* On the evening of a trading day the ranking is computed in the end, and the open interest is saved in the end if a
   user's Kite session stays, whatever failed runs, refreshes and restarts came before, unless the loop is lost in its
   first look at the database and the process is not started again (main.py:118-136). *)
Evening == clock.slot = MaxSlot /\ clock.day \notin Weekend
KiteStays == \E u \in ListedUsers("kite") : ValidSession(u, "kite")
NightlyRuns ==
  <>[](booted # "lost") =>
    /\ <>[]Evening => <>[](done[Context] = clock.day)
    /\ <>[](Evening /\ KiteStays) => <>[](done[Interest] = clock.day)
=============================================================================
