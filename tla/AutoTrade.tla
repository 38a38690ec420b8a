----------------------------- MODULE AutoTrade -----------------------------
(***************************************************************************)
(* From an incoming event to an order, for one user: a scanner row, a      *)
(* stock of a Chartink webhook, a Telegram message or a typed signal is    *)
(* inserted as a signal, once, and then offered in turn to the general     *)
(* auto-trade, to the source's own auto-trade and to the confluence match. *)
(* Every event is handled in a thread of its own, so other threads, the    *)
(* monitor and the user act between any two of its SQL statements and      *)
(* broker calls.                                                           *)
(***************************************************************************)
EXTENDS Integers, Sequences, FiniteSets

CONSTANTS
    Events,           \* what may come in; one key of the signals table each
    Source,           \* per event: "scanner", "chartink", "telegram" or "manual"
    Channel,          \* per event: the channel its signal is filed under
    Pair,             \* per event: the symbol and direction of its signal
    Score,            \* per event: the score it is evaluated to
    Tradable,         \* the events with an entry price and a stop loss
    ConfluenceLabel,  \* the channel of the confluence signals
    NoChannel,
    Workers,          \* the threads events are handled in
    GeneralChoices,   \* what auto_trade_settings may say: [mode, min_score]
    DedicatedChoices, \* what a source's settings may say: [on, min_score]
    ConfluenceChoices,
    OpenLimit,        \* max_open_positions
    MinTrades, MinWinRate, \* auto_graduate_min_trades, auto_graduate_min_win_rate
    BrokerResults,    \* how placing a real order may end
    MaxDeliveries,    \* bound: deliveries of one event
    MaxCloses,        \* bound: orders closed
    MaxWindow,        \* bound: how far the confluence window moves
    MaxLost,          \* bound: real orders executed with the answer lost
    MaxFaults         \* bound: exceptions and crashes

Sources   == {"scanner", "chartink", "telegram", "manual"}
Modes     == {"paper", "live"}
Own(e)        == [event |-> e, kind |-> "own"]
Confluence(e) == [event |-> e, kind |-> "confluence"]
SignalIds == [event : Events, kind : {"own", "confluence"}]
Channels  == {Channel[e] : e \in Events} \cup {ConfluenceLabel}
SourcesWithOwnTrade   == {"scanner", "chartink", "telegram"}
SourcesWithSettings   == {"scanner", "telegram"}
SourcesWithConfluence == {"scanner", "chartink"}

ASSUME EventsAssumption ==
    /\ IsFiniteSet(Events) /\ Events # {}
    /\ Source \in [Events -> Sources]
    /\ Score \in [Events -> Nat]
    /\ DOMAIN Channel = Events /\ DOMAIN Pair = Events
    /\ Tradable \subseteq Events
    /\ NoChannel \notin Channels
ASSUME SettingsAssumption ==
    /\ GeneralChoices \subseteq [mode : Modes \cup {"off"}, min_score : Nat]
    /\ DedicatedChoices \subseteq [on : BOOLEAN, min_score : Nat]
    /\ ConfluenceChoices \subseteq BOOLEAN
    /\ OpenLimit \in Nat /\ MinTrades \in Nat /\ MinWinRate \in 0..100
ASSUME BoundsAssumption ==
    /\ IsFiniteSet(Workers) /\ Workers # {}
    /\ BrokerResults \subseteq {"filled", "rejected", "lost"}
    /\ MaxDeliveries \in Nat /\ MaxCloses \in Nat /\ MaxWindow \in Nat /\ MaxLost \in Nat /\ MaxFaults \in Nat

VARIABLES
    created,    \* the signals table: when a signal was inserted, 0 if it was not
    orders,     \* the orders table
    entered,    \* per signal: the real entry orders the broker executed
    graduated,  \* channel_graduation: "paper" or "live"
    general,    \* auto_trade_settings
    dedicated,  \* per source: scanner or Telegram trade settings
    confluence, \* confluence_settings.enabled
    window,     \* signals inserted at or before this are too old to match
    delivered,  \* per event: how often it came in
    work,       \* the worker threads
    mon,        \* the channel the monitor is about to check for graduation
    faults, lost

vars == <<created, orders, entered, graduated, general, dedicated, confluence,
          window, delivered, work, mon, faults, lost>>
settings == <<general, dedicated, confluence>>

-----------------------------------------------------------------------------
Exits == {"sl_hit", "target_hit", "manual_close"}
Order == [signal : SignalIds, mode : Modes, path : {"general", "dedicated", "confluence"},
          status : Exits \cup {"open"}, won : BOOLEAN]

IsRecorded(s)  == created[s] # 0
ChannelOf(s)   == IF s.kind = "own" THEN Channel[s.event] ELSE ConfluenceLabel
OrderIds       == DOMAIN orders
OrdersOf(s)    == {i \in OrderIds : orders[i].signal = s}
Open(mode)     == {i \in OrderIds : orders[i].mode = mode /\ orders[i].status = "open"}
Now            == Cardinality({s \in SignalIds : IsRecorded(s)}) + 1

Job(pc, s, path, mode) == [pc |-> pc, signal |-> s, path |-> path, mode |-> mode]
AnySignal == CHOOSE s \in SignalIds : TRUE
Idle == Job("idle", AnySignal, "general", "paper")

Init ==
    /\ created = [s \in SignalIds |-> 0]
    /\ orders = <<>>
    /\ entered = [s \in SignalIds |-> 0]
    /\ graduated = [c \in Channels |-> "paper"]
    /\ general \in GeneralChoices
    /\ dedicated \in [SourcesWithSettings -> DedicatedChoices]
    /\ confluence \in ConfluenceChoices
    /\ window = 0
    /\ delivered = [e \in Events |-> 0]
    /\ work = [w \in Workers |-> Idle]
    /\ mon = NoChannel
    /\ faults = 0
    /\ lost = 0

-----------------------------------------------------------------------------
(* The user and the clock.                                                  *)

SaveSettings ==
    /\ \/ general' \in GeneralChoices \ {general} /\ UNCHANGED <<dedicated, confluence>>
       \/ /\ \E src \in SourcesWithSettings, d \in DedicatedChoices :
               d # dedicated[src] /\ dedicated' = [dedicated EXCEPT ![src] = d]
          /\ UNCHANGED <<general, confluence>>
       \/ confluence' \in ConfluenceChoices \ {confluence} /\ UNCHANGED <<general, dedicated>>
    /\ UNCHANGED <<created, orders, entered, graduated, window, delivered, work, mon, faults, lost>>

WindowMoves ==
    /\ window < MaxWindow
    /\ window' = window + 1
    /\ UNCHANGED <<created, orders, entered, graduated, settings, delivered, work, mon, faults, lost>>

-----------------------------------------------------------------------------
(* A worker.  After one path to an order comes the next.                    *)

AfterDedicated(s) == IF Source[s.event] \in SourcesWithConfluence
                     THEN Job("confluence", s, "confluence", "paper") ELSE Idle
AfterGeneral(s)   == IF Source[s.event] \in SourcesWithOwnTrade
                     THEN Job("dedicated", s, "dedicated", "paper") ELSE Idle
NextPath(job) == IF job.path = "general" THEN AfterGeneral(job.signal)
                 ELSE IF job.path = "dedicated" THEN AfterDedicated(job.signal)
                 ELSE Idle

Becomes(w, job) == work' = [work EXCEPT ![w] = job]

\* An event comes in: a Telegram message or a webhook may come in again.
Receive(w, e) ==
    /\ work[w].pc = "idle"
    /\ delivered[e] < IF Source[e] \in {"telegram", "chartink"} THEN MaxDeliveries ELSE 1
    /\ delivered' = [delivered EXCEPT ![e] = @ + 1]
    /\ Becomes(w, Job("insert", Own(e), "general", "paper"))
    /\ UNCHANGED <<created, orders, entered, graduated, settings, window, mon, faults, lost>>

\* insert_signal: INSERT OR IGNORE; without a row of its own the thread is done.
InsertSignal(w) ==
    LET s == work[w].signal
    IN  /\ work[w].pc = "insert"
        /\ IF IsRecorded(s)
           THEN Becomes(w, Idle) /\ UNCHANGED created
           ELSE /\ created' = [created EXCEPT ![s] = Now]
                /\ Becomes(w, [work[w] EXCEPT !.pc = "general"])
        /\ UNCHANGED <<orders, entered, graduated, settings, window, delivered, mon, faults, lost>>

\* Mutant: the switch is not looked at.
ReadGeneralAlways(w) ==
    /\ work[w].pc = "general"
    /\ Becomes(w, [work[w] EXCEPT !.pc = "count", !.mode = general.mode])
    /\ UNCHANGED <<created, orders, entered, graduated, settings, window, delivered, mon, faults, lost>>

\* auto_trade_check: the settings are read once ...
ReadGeneral(w) ==
    LET job == work[w]
    IN  /\ job.pc = "general"
        /\ IF /\ general.mode # "off"
              /\ Score[job.signal.event] >= general.min_score
              /\ job.signal.event \in Tradable
           THEN Becomes(w, [job EXCEPT !.pc = "count", !.mode = general.mode])
           ELSE Becomes(w, NextPath(job))
        /\ UNCHANGED <<created, orders, entered, graduated, settings, window, delivered, mon, faults, lost>>

\* Mutant: one too many.
CountOpenBeyond(w) ==
    LET job == work[w]
    IN  /\ job.pc = "count"
        /\ Becomes(w, IF Cardinality(Open(job.mode)) > OpenLimit THEN NextPath(job)
                      ELSE [job EXCEPT !.pc = "check"])
        /\ UNCHANGED <<created, orders, entered, graduated, settings, window, delivered, mon, faults, lost>>

\* ... and then count_open_positions.
CountOpen(w) ==
    LET job == work[w]
    IN  /\ job.pc = "count"
        /\ Becomes(w, IF Cardinality(Open(job.mode)) >= OpenLimit THEN NextPath(job)
                      ELSE [job EXCEPT !.pc = "check"])
        /\ UNCHANGED <<created, orders, entered, graduated, settings, window, delivered, mon, faults, lost>>

\* Mutant: every path places its own order.
CheckNothing(w) ==
    LET job == work[w]
    IN  /\ job.pc = "check"
        /\ Becomes(w, [job EXCEPT !.pc = IF job.mode = "live" THEN "submit" ELSE "record"])
        /\ UNCHANGED <<created, orders, entered, graduated, settings, window, delivered, mon, faults, lost>>

\* place_paper_order, place_live_order: order_exists_for_signal comes first.
CheckExists(w) ==
    LET job == work[w]
    IN  /\ job.pc = "check"
        /\ Becomes(w, IF OrdersOf(job.signal) # {} THEN NextPath(job)
                      ELSE [job EXCEPT !.pc = IF job.mode = "live" THEN "submit" ELSE "record"])
        /\ UNCHANGED <<created, orders, entered, graduated, settings, window, delivered, mon, faults, lost>>

\* Mutants: a real order that was not executed is recorded all the same; the
\* thread gives up with it.
SubmitEntryUnchecked(w) ==
    /\ work[w].pc = "submit"
    /\ \E result \in BrokerResults \ {"lost"} :
         entered' = IF result = "rejected" THEN entered
                    ELSE [entered EXCEPT ![work[w].signal] = @ + 1]
    /\ Becomes(w, [work[w] EXCEPT !.pc = "record"])
    /\ UNCHANGED <<created, orders, graduated, settings, window, delivered, mon, faults, lost>>
SubmitEntryOrStop(w) ==
    /\ work[w].pc = "submit"
    /\ \/ /\ entered' = [entered EXCEPT ![work[w].signal] = @ + 1]
          /\ Becomes(w, [work[w] EXCEPT !.pc = "record"])
       \/ Becomes(w, Idle) /\ UNCHANGED entered
    /\ UNCHANGED <<created, orders, graduated, settings, window, delivered, mon, faults, lost>>

(***************************************************************************)
(* The real order.  "rejected" stands for no connected broker, the daily   *)
(* loss limit and an order the broker refused; "lost" for one it executed  *)
(* although the call raised.                                               *)
(***************************************************************************)
SubmitEntry(w) ==
    LET job == work[w]
    IN  /\ job.pc = "submit"
        /\ \E result \in BrokerResults :
             /\ result = "lost" => lost < MaxLost
             /\ lost' = IF result = "lost" THEN lost + 1 ELSE lost
             /\ entered' = IF result = "rejected" THEN entered
                           ELSE [entered EXCEPT ![job.signal] = @ + 1]
             /\ Becomes(w, IF result = "filled" THEN [job EXCEPT !.pc = "record"] ELSE NextPath(job))
        /\ UNCHANGED <<created, orders, graduated, settings, window, delivered, mon, faults>>

\* insert_order.
RecordOrder(w) ==
    LET job == work[w]
    IN  /\ job.pc = "record"
        /\ orders' = Append(orders, [signal |-> job.signal, mode |-> job.mode, path |-> job.path,
                                     status |-> "open", won |-> FALSE])
        /\ Becomes(w, NextPath(job))
        /\ UNCHANGED <<created, entered, graduated, settings, window, delivered, mon, faults, lost>>

\* _maybe_paper_trade of the three sources.  A Chartink scan was read when its
\* webhook came in: what it said may have been edited since.
OwnSettings(src) == IF src = "chartink" THEN DedicatedChoices ELSE {dedicated[src]}

ReadDedicated(w) ==
    LET job == work[w]
    IN  /\ job.pc = "dedicated"
        /\ \E own \in OwnSettings(Source[job.signal.event]) :
             Becomes(w, IF /\ own.on
                           /\ Score[job.signal.event] >= own.min_score
                           /\ job.signal.event \in Tradable
                        THEN [job EXCEPT !.pc = "graduation"] ELSE NextPath(job))
        /\ UNCHANGED <<created, orders, entered, graduated, settings, window, delivered, mon, faults, lost>>

\* place_order_for_channel: a graduated channel trades live.
ReadGraduation(w) ==
    LET job == work[w]
    IN  /\ job.pc = "graduation"
        /\ Becomes(w, [job EXCEPT !.pc = "check", !.mode = graduated[ChannelOf(job.signal)]])
        /\ UNCHANGED <<created, orders, entered, graduated, settings, window, delivered, mon, faults, lost>>

\* Mutant: only a scanner signal looks for the other half.
ReadConfluenceOfScanner(w) ==
    /\ work[w].pc = "confluence"
    /\ Becomes(w, IF confluence /\ Source[work[w].signal.event] = "scanner"
                  THEN [work[w] EXCEPT !.pc = "match"] ELSE Idle)
    /\ UNCHANGED <<created, orders, entered, graduated, settings, window, delivered, mon, faults, lost>>

\* confluence.check_and_trade: the setting ...
ReadConfluence(w) ==
    /\ work[w].pc = "confluence"
    /\ Becomes(w, IF confluence THEN [work[w] EXCEPT !.pc = "match"] ELSE Idle)
    /\ UNCHANGED <<created, orders, entered, graduated, settings, window, delivered, mon, faults, lost>>

\* ... find_recent_signal, the newest of the other source for the same pair ...
OtherSource(e) == IF Source[e] = "scanner" THEN "chartink" ELSE "scanner"
\* Mutant: the source is not compared.
MatchesOfAnySource(e) == {m \in Events : Pair[m] = Pair[e] /\ created[Own(m)] > window}
Matches(e) ==
    {m \in Events : /\ Source[m] = OtherSource(e) /\ Pair[m] = Pair[e]
                    /\ created[Own(m)] > window}
IsNewest(m, ms) == \A n \in ms : created[Own(n)] <= created[Own(m)]

FindMatch(w) ==
    LET e  == work[w].signal.event
        ms == Matches(e)
    IN  /\ work[w].pc = "match"
        /\ \/ ms = {} /\ Becomes(w, Idle)
           \/ \E m \in ms :
                /\ IsNewest(m, ms)
                /\ Becomes(w, [work[w] EXCEPT !.pc = "copy",
                                   !.signal = Own(IF Source[e] = "scanner" THEN e ELSE m)])
        /\ UNCHANGED <<created, orders, entered, graduated, settings, window, delivered, mon, faults, lost>>

\* ... and a signal of its own, keyed on the scanner's.
InsertConfluence(w) ==
    LET s == Confluence(work[w].signal.event)
    IN  /\ work[w].pc = "copy"
        /\ IF IsRecorded(s)
           THEN Becomes(w, Idle) /\ UNCHANGED created
           ELSE /\ created' = [created EXCEPT ![s] = Now]
                /\ Becomes(w, [work[w] EXCEPT !.pc = "graduation", !.signal = s])
        /\ UNCHANGED <<orders, entered, graduated, settings, window, delivered, mon, faults, lost>>

WorkerStep(w) ==
    \/ InsertSignal(w) \/ ReadGeneral(w) \/ CountOpen(w)
    \/ CheckExists(w) \/ SubmitEntry(w) \/ RecordOrder(w)
    \/ ReadDedicated(w) \/ ReadGraduation(w)
    \/ ReadConfluence(w) \/ FindMatch(w) \/ InsertConfluence(w)

-----------------------------------------------------------------------------
(* The monitor closes an order and checks its channel for graduation; the   *)
(* user closes an order.  The status an order gets is the exit's reason.    *)

MayClose(i) ==
    /\ orders[i].status = "open"
    /\ Cardinality({j \in OrderIds : orders[j].status # "open"}) < MaxCloses

CloseHit(i) ==
    /\ mon = NoChannel
    /\ \/ /\ MayClose(i)
          /\ \E hit \in Exits \ {"manual_close"}, won \in BOOLEAN :
               orders' = [orders EXCEPT ![i] = [@ EXCEPT !.status = hit, !.won = won]]
       \* closed by hand since the monitor listed it
       \/ orders[i].status = "manual_close" /\ UNCHANGED orders
    /\ mon' = ChannelOf(orders[i].signal)
    /\ UNCHANGED <<created, entered, graduated, settings, window, delivered, work, faults, lost>>

CloseByHand(i) ==
    /\ MayClose(i)
    /\ \E won \in BOOLEAN :
         orders' = [orders EXCEPT ![i] = [@ EXCEPT !.status = "manual_close", !.won = won]]
    /\ UNCHANGED <<created, entered, graduated, settings, window, delivered, work, mon, faults, lost>>

\* channel_reliability: the paper orders of the channel with status 'closed'.
Trades(c) == {i \in OrderIds : /\ orders[i].status = "closed" /\ orders[i].mode = "paper"
                               /\ ChannelOf(orders[i].signal) = c}
Wins(c)   == {i \in Trades(c) : orders[i].won}
DemoteFloor == 50
\* The win rate is rounded to a tenth of a percent.
WinRate(c) == LET n == Cardinality(Trades(c)) IN (2000 * Cardinality(Wins(c)) + n) \div (2 * n)
WinsAtLeast(c, rate) == WinRate(c) >= 10 * rate

\* check_and_graduate.
GraduationAfter(c, connected) ==
    IF Trades(c) = {} \/ Cardinality(Trades(c)) < MinTrades THEN graduated[c]
    ELSE IF graduated[c] = "paper"
         THEN IF WinsAtLeast(c, MinWinRate) /\ connected THEN "live" ELSE "paper"
         ELSE IF WinsAtLeast(c, DemoteFloor) THEN "live" ELSE "paper"

CheckGraduation ==
    /\ mon # NoChannel
    /\ \E enabled, connected \in BOOLEAN :
         graduated' = IF enabled THEN [graduated EXCEPT ![mon] = GraduationAfter(mon, connected)]
                      ELSE graduated
    /\ mon' = NoChannel
    /\ UNCHANGED <<created, orders, entered, settings, window, delivered, work, faults, lost>>

-----------------------------------------------------------------------------
(* An exception ends the event's thread, except in a source's own trade and *)
(* in the confluence, which catch it.  A crash ends every thread.           *)

WorkerFails(w) ==
    LET job == work[w]
    IN  /\ job.pc # "idle" /\ faults < MaxFaults
        /\ Becomes(w, IF job.path = "dedicated" /\ job.pc # "dedicated" THEN NextPath(job) ELSE Idle)
        /\ faults' = faults + 1
        /\ UNCHANGED <<created, orders, entered, graduated, settings, window, delivered, mon, lost>>

Crash ==
    /\ faults < MaxFaults
    /\ work' = [w \in Workers |-> Idle]
    /\ mon' = NoChannel
    /\ faults' = faults + 1
    /\ UNCHANGED <<created, orders, entered, graduated, settings, window, delivered, lost>>

Next ==
    \/ \E w \in Workers : WorkerStep(w) \/ WorkerFails(w) \/ \E e \in Events : Receive(w, e)
    \/ \E i \in OrderIds : CloseHit(i) \/ CloseByHand(i)
    \/ CheckGraduation
    \/ SaveSettings \/ WindowMoves \/ Crash

Spec == Init /\ [][Next]_vars

\* A thread that has an event runs to its end: every call in it has a time limit.
FairSpec == Spec /\ \A w \in Workers : WF_vars(WorkerStep(w))

-----------------------------------------------------------------------------
Pcs == {"idle", "insert", "general", "count", "check", "submit", "record",
        "dedicated", "graduation", "confluence", "match", "copy"}
Jobs == [pc : Pcs, signal : SignalIds, mode : Modes, path : {"general", "dedicated", "confluence"}]

(* Types: every variable stays in its type.                                 *)
TypeOK ==
    /\ created \in [SignalIds -> Nat]
    /\ orders \in Seq(Order)
    /\ entered \in [SignalIds -> Nat]
    /\ graduated \in [Channels -> Modes]
    /\ general \in GeneralChoices
    /\ dedicated \in [SourcesWithSettings -> DedicatedChoices]
    /\ confluence \in BOOLEAN
    /\ window \in Nat
    /\ delivered \in [Events -> Nat]
    /\ work \in [Workers -> Jobs]
    /\ mon \in Channels \cup {NoChannel}
    /\ faults \in Nat /\ lost \in Nat

(* "One signal should never produce more than one order, no matter how many *)
(* independent auto-trade paths are enabled at once" (db.py:1529), nor how  *)
(* often its event comes in, nor from how many threads a confluence of it   *)
(* is found.                                                                *)
OneOrderPerSignal ==
    \A i, j \in OrderIds : orders[i].signal = orders[j].signal => i = j

\* max_open_positions: what the general auto-trade holds open in a mode.
GeneralOpen(mode) == {i \in Open(mode) : orders[i].path = "general"}

(* The limit is counted before, and the order inserted after, a quote or a  *)
(* broker call: each other thread can add one more order, and no more.      *)
LimitOvershootBounded ==
    \A mode \in Modes :
        Cardinality(GeneralOpen(mode)) <= OpenLimit + Cardinality(Workers) - 1

(* A real order of a signal is known to the table, unless a fault or a lost *)
(* answer came in between.                                                  *)
Recording(s) == {w \in Workers : /\ work[w].pc = "record" /\ work[w].mode = "live"
                                 /\ work[w].signal = s}
EntriesAreKnown ==
    faults = 0 /\ lost = 0 =>
        \A s \in SignalIds :
            entered[s] = Cardinality({i \in OrdersOf(s) : orders[i].mode = "live"})
                         + Cardinality(Recording(s))

(* Once no thread is at work on their pair, a scanner and a Chartink signal *)
(* that agree have made a confluence signal, whichever came first and how-  *)
(* ever their threads interleaved (confluence.py:1-19): for the Chartink    *)
(* signal, of some scanner signal that agrees.                              *)
Busy(e) == \E w \in Workers : work[w].pc # "idle" /\ Pair[work[w].signal.event] = Pair[e]
ConfluenceNotMissed ==
    faults = 0 /\ window = 0 /\ FALSE \notin ConfluenceChoices =>
        \A s, c \in Events :
            /\ Source[s] = "scanner" /\ Source[c] = "chartink" /\ Pair[s] = Pair[c]
            /\ IsRecorded(Own(s)) /\ IsRecorded(Own(c)) /\ ~Busy(c)
            => \E m \in Events : Source[m] = "scanner" /\ Pair[m] = Pair[c] /\ IsRecorded(Confluence(m))

(* A confluence signal stands for two independent sources that agree.       *)
ConfluenceIsConfirmed ==
    \A s \in Events : IsRecorded(Confluence(s)) =>
        /\ Source[s] = "scanner" /\ IsRecorded(Own(s))
        /\ \E c \in Events : Source[c] = "chartink" /\ Pair[c] = Pair[s] /\ IsRecorded(Own(c))

(* AutoTrade implements SignalBook: a signal is recorded once and never     *)
(* taken out, an order comes after it and only once, and a confluence       *)
(* signal comes after a scanner and a Chartink signal that agree.           *)
Supports == [s \in SignalIds |->
                IF s.kind = "own" THEN {{}}
                ELSE {{Own(s.event), Own(c)} :
                         c \in {x \in Events : /\ Source[s.event] = "scanner"
                                               /\ Source[x] = "chartink"
                                               /\ Pair[x] = Pair[s.event]}}]
Intake == INSTANCE SignalBook WITH
              Signals  <- SignalIds,
              Grounds  <- Supports,
              recorded <- {s \in SignalIds : IsRecorded(s)},
              placed   <- [i \in OrderIds |-> orders[i].signal]
IntakeSpec == Intake!Spec

(* A signal that clears its source's own bar is traded in the end, whatever *)
(* became of the general auto-trade before, unless a fault ended its thread.*)
ClearsOwnBar(e) ==
    /\ Source[e] \in SourcesWithOwnTrade /\ e \in Tradable
    /\ \A d \in DedicatedChoices : d.on /\ Score[e] >= d.min_score
QualifiedIsTraded ==
    \A e \in Events :
        ClearsOwnBar(e) /\ IsRecorded(Own(e)) ~> OrdersOf(Own(e)) # {} \/ faults > 0

-----------------------------------------------------------------------------
(***************************************************************************)
(* The inductive invariant behind the theorems of AutoTradeProofs.         *)
(***************************************************************************)
Holding == {"general", "count", "check", "submit", "record", "dedicated", "graduation"}

\* A signal is on its way to an order in one thread only, which finds no order
\* of it until it inserts its own.
WorkInv ==
    /\ \A w \in Workers :
         /\ work[w].pc \notin {"idle", "insert"} => IsRecorded(work[w].signal)
         /\ work[w].pc \in {"idle", "insert"} => work[w].path = "general"
         /\ work[w].pc \in {"submit", "record"} => OrdersOf(work[w].signal) = {}
    /\ \A v, w \in Workers :
         v # w /\ work[v].pc \in Holding /\ work[w].pc \in Holding =>
            work[v].signal # work[w].signal

OrdersInv == \A i \in OrderIds : IsRecorded(orders[i].signal)

\* What a thread knows of its path, and of the signal it works on.
PathInv ==
    \A w \in Workers :
        /\ \/ work[w].path # "confluence" /\ work[w].pc # "idle"
           \/ work[w].pc \in {"confluence", "match", "copy"}
           => work[w].signal.kind = "own"
        /\ work[w].pc \in {"confluence", "match", "copy"} => work[w].path = "confluence"
        /\ work[w].pc \in {"dedicated", "graduation"} => work[w].path # "general"
        /\ work[w].pc \in {"confluence", "match"} =>
                Source[work[w].signal.event] \in SourcesWithConfluence
        /\ work[w].pc = "copy" =>
                /\ Source[work[w].signal.event] = "scanner"
                /\ \E c \in Events : /\ Source[c] = "chartink" /\ IsRecorded(Own(c))
                                     /\ Pair[c] = Pair[work[w].signal.event]

IntakeInv ==
    TypeOK /\ WorkInv /\ OrdersInv /\ PathInv /\ OneOrderPerSignal /\ ConfluenceIsConfirmed

\* The threads that have found the general auto-trade below its limit.
Committed(mode) == {w \in Workers : /\ work[w].pc \in {"check", "submit", "record"}
                                    /\ work[w].path = "general" /\ work[w].mode = mode}
LimitInv ==
    \A mode \in Modes :
        Cardinality(GeneralOpen(mode)) + Cardinality(Committed(mode))
            <= OpenLimit + Cardinality(Workers) - 1

\* The real orders of the broker, one by one: a signal has one as soon as a
\* thread records it or the table holds it.
HasLive(s) == \E i \in OrdersOf(s) : orders[i].mode = "live"
EntryInv ==
    /\ \A w \in Workers : work[w].pc = "submit" => work[w].mode = "live"
    /\ faults = 0 /\ lost = 0 =>
         \A s \in SignalIds : entered[s] = IF HasLive(s) \/ Recording(s) # {} THEN 1 ELSE 0

\* A thread whose source can be confirmed is on its way to look for the match of
\* its pair.
Heading(w, pair) ==
    /\ work[w].pc \notin {"idle", "insert"} /\ work[w].signal.kind = "own"
    /\ Source[work[w].signal.event] \in SourcesWithConfluence
    /\ Pair[work[w].signal.event] = pair
IsConfirmed(pair) ==
    \E m \in Events : Source[m] = "scanner" /\ Pair[m] = pair /\ IsRecorded(Confluence(m))
HeadingInv ==
    /\ confluence \in ConfluenceChoices
    /\ \A w \in Workers : work[w].signal.kind = "own" /\ work[w].path = "confluence"
                          => work[w].pc \in {"confluence", "match", "copy"}
    /\ faults = 0 /\ window = 0 /\ FALSE \notin ConfluenceChoices =>
         \A s, c \in Events :
             /\ Source[s] = "scanner" /\ Source[c] = "chartink" /\ Pair[s] = Pair[c]
             /\ IsRecorded(Own(s)) /\ IsRecorded(Own(c))
             => IsConfirmed(Pair[c]) \/ \E w \in Workers : Heading(w, Pair[c])
=============================================================================
