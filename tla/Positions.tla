----------------------------- MODULE Positions -----------------------------
(***************************************************************************)
(* The orders table and everything that writes it (app/trading.py,         *)
(* app/db.py): placing, the 60-second position monitor, a user's manual    *)
(* close and risk-settings edit, and the positions really held at the      *)
(* broker.  The monitor is one thread; every request runs in a thread of   *)
(* its own, so each SQL statement and each broker call is one atomic step  *)
(* and anything may happen between two of them.                            *)
(***************************************************************************)
EXTENDS RiskManager

CONSTANTS
    Orders,          \* ids of the orders that may come to exist
    LiveOrders,      \* those of mode "live"; the others are "paper"
    NoOrder,         \* no order at all
    Terms,           \* entry terms: [side, qty, entry, sl, target]
    Settings,        \* risk settings an order may be given
    Prices,          \* the prices a quote may have
    Closers,         \* threads of POST /orders/{id}/close requests
    Editors,         \* threads of POST /orders/{id}/risk-settings requests
    AutoExitChoices, \* values live_auto_exit_enabled may be given
    UserOutcomes,    \* outcomes a user may give a signal by hand
    BrokerResults,   \* how a broker call may end
    ProximityPct,    \* sl_proximity_pct of the alert settings
    MaxFaults,       \* bound: crashes and failed ticks
    MaxLost          \* bound: broker orders executed with the answer lost

ASSUME OrdersAssumption ==
    /\ LiveOrders \subseteq Orders
    /\ NoOrder \notin Orders
ASSUME TermsAssumption ==
    /\ Terms \subseteq [side : Sides, qty : Nat \ {0}, entry : Nat \ {0},
                        sl : Int, target : Int]
    /\ Settings \subseteq RiskSettings
ASSUME PricesAssumption ==
    /\ Prices \subseteq Nat \ {0}
ASSUME EnvironmentAssumption ==
    /\ Closers \cap Editors = {}
    /\ AutoExitChoices \subseteq BOOLEAN /\ AutoExitChoices # {}
    /\ UserOutcomes \subseteq {"pending", "partial"} \cup Hits
    /\ BrokerResults \subseteq {"filled", "rejected", "lost"}
    /\ ProximityPct \in Nat /\ MaxFaults \in Nat /\ MaxLost \in Nat

VARIABLES
    rows,      \* the orders table
    stage,     \* per order: how far its placement got
    held,      \* per order: the real net position at the broker, in entry orders
    outcome,   \* per order: signals.outcome of the signal it came from
    synced,    \* history, per order: the outcome the monitor wrote last, Pending if none
    marked,    \* history, per order: the outcome is the user's, not the monitor's
    alerts,    \* per order: SL-proximity alerts sent so far
    market,    \* per order: the current quote of its contract, None if unavailable
    autoExit,  \* auto_trade_settings.live_auto_exit_enabled
    mon,       \* the monitor thread
    seen,      \* the rows its last SELECT returned and it has not handled yet
    req,       \* the request threads
    faults, lost

signals == <<outcome, synced, marked>>
vars == <<rows, stage, held, signals, alerts, market, autoExit, mon, seen, req,
          faults, lost>>

-----------------------------------------------------------------------------
Pending  == "pending"
Outcomes == {Pending, "partial"} \cup Hits
Manual   == "manual_close"
Statuses == {"absent", "open", Manual} \cup Hits

Row == [side : Sides, qty : Nat, entry : Nat, target : Int, sl : Int, peak : Int,
        locked : BOOLEAN, risk : RiskSettings, alerted : BOOLEAN,
        status : Statuses, exit : Int, pnl : Int]

NoRisk == [trail_pct |-> 0, lock_trigger_pct |-> 0, lock_pct |-> 0,
           lock_trigger_amount |-> 0, lock_amount |-> 0]

Absent == [side |-> "buy", qty |-> 0, entry |-> 0, target |-> None, sl |-> None,
           peak |-> None, locked |-> FALSE, risk |-> NoRisk, alerted |-> FALSE,
           status |-> "absent", exit |-> None, pnl |-> 0]

IsOpen(o) == rows[o].status = "open"
IsLive(o) == o \in LiveOrders

\* insert_order: an open row, its peak at the entry price.
NewRow(t, s) ==
    [side |-> t.side, qty |-> t.qty, entry |-> t.entry, target |-> t.target,
     sl |-> t.sl, peak |-> t.entry, locked |-> FALSE, risk |-> s,
     alerted |-> FALSE, status |-> "open", exit |-> None, pnl |-> 0]

\* Mutants: the WHERE clause is dropped; the status is written as 'closed'.
CloseRowAgain(row, reason, exit, pnl) ==
    [row EXCEPT !.status = reason, !.exit = exit, !.pnl = pnl]
CloseRowAsClosed(row, reason, exit, pnl) ==
    IF row.status = "open"
    THEN [row EXCEPT !.status = "closed", !.exit = exit, !.pnl = pnl]
    ELSE row

\* db.close_order: UPDATE ... WHERE status = 'open'; the status is the reason.
CloseRow(row, reason, exit, pnl) ==
    IF row.status = "open"
    THEN [row EXCEPT !.status = reason, !.exit = exit, !.pnl = pnl]
    ELSE row

\* update_order_risk_state: no condition on the status.
RiskStateRow(row, risk) ==
    [row EXCEPT !.sl = risk.sl, !.peak = risk.peak, !.locked = risk.locked]

\* update_order_risk_settings: the lock may fire again.
RiskSettingsRow(row, s) == [row EXCEPT !.risk = s, !.locked = FALSE]

\* The exit price of a row: the quote, or the entry price without one.
ExitPrice(row, quote) == IF quote = None THEN row.entry ELSE quote

Idle      == [pc |-> "idle", mode |-> "paper", order |-> NoOrder, row |-> Absent,
              price |-> None, hit |-> NoHit]
Resting   == [pc |-> "idle", order |-> NoOrder, row |-> Absent]
NothingSeen == [o \in Orders |-> Absent]

Init ==
    /\ rows = [o \in Orders |-> Absent]
    /\ stage = [o \in Orders |-> "new"]
    /\ held = [o \in Orders |-> 0]
    /\ outcome = [o \in Orders |-> Pending]
    /\ synced = [o \in Orders |-> Pending]
    /\ marked = [o \in Orders |-> FALSE]
    /\ alerts = [o \in Orders |-> 0]
    /\ market \in [Orders -> Prices \cup {None}]
    /\ autoExit \in AutoExitChoices
    /\ mon = Idle
    /\ seen = NothingSeen
    /\ req = [r \in Closers \cup Editors |-> Resting]
    /\ faults = 0
    /\ lost = 0

-----------------------------------------------------------------------------
(* The environment: quotes move, the user flips the auto-exit setting.      *)

MarketMoves(o) ==
    /\ \E p \in (Prices \cup {None}) \ {market[o]} : market' = [market EXCEPT ![o] = p]
    /\ UNCHANGED <<rows, stage, held, signals, alerts, autoExit, mon, seen, req, faults, lost>>

SetAutoExit ==
    /\ \E b \in AutoExitChoices \ {autoExit} : autoExit' = b
    /\ UNCHANGED <<rows, stage, held, signals, alerts, market, mon, seen, req, faults, lost>>

(***************************************************************************)
(* A broker call for order o that changes the real position by qty.        *)
(* "lost": the broker executed the order and the call raised all the same. *)
(***************************************************************************)
BrokerCall(o, qty, result) ==
    /\ result \in BrokerResults
    /\ result = "lost" => lost < MaxLost
    /\ held' = IF result = "rejected" THEN held ELSE [held EXCEPT ![o] = @ + qty]
    /\ lost' = IF result = "lost" THEN lost + 1 ELSE lost

-----------------------------------------------------------------------------
(* Placing an order: place_paper_order, place_live_order.                   *)

PlacePaper(o) ==
    /\ ~IsLive(o) /\ stage[o] = "new"
    /\ \E t \in Terms, s \in Settings : rows' = [rows EXCEPT ![o] = NewRow(t, s)]
    /\ stage' = [stage EXCEPT ![o] = "placed"]
    /\ UNCHANGED <<held, signals, alerts, market, autoExit, mon, seen, req, faults, lost>>

\* The real entry order comes first.
SubmitEntry(o) ==
    /\ IsLive(o) /\ stage[o] = "new"
    /\ \E result \in BrokerResults :
         /\ BrokerCall(o, 1, result)
         /\ stage' = [stage EXCEPT ![o] = IF result = "filled" THEN "submitted" ELSE "failed"]
    /\ UNCHANGED <<rows, signals, alerts, market, autoExit, mon, seen, req, faults>>

\* Then the row.
RecordEntry(o) ==
    /\ stage[o] = "submitted"
    /\ \E t \in Terms, s \in Settings : rows' = [rows EXCEPT ![o] = NewRow(t, s)]
    /\ stage' = [stage EXCEPT ![o] = "placed"]
    /\ UNCHANGED <<held, signals, alerts, market, autoExit, mon, seen, req, faults, lost>>

Place == \E o \in Orders : PlacePaper(o) \/ SubmitEntry(o) \/ RecordEntry(o)

-----------------------------------------------------------------------------
(* monitor_open_positions: the paper orders, then the live ones.            *)

ToDo == {o \in Orders : seen[o].status = "open"}
\* Mutant: an order that has been alerted about is no longer listed.
ListedUnlessAlerted(live) ==
    [o \in Orders |-> IF IsOpen(o) /\ (IsLive(o) <=> live) /\ ~rows[o].alerted
                       THEN rows[o] ELSE Absent]
Listed(live) == [o \in Orders |-> IF IsOpen(o) /\ (IsLive(o) <=> live)
                                   THEN rows[o] ELSE Absent]
Loop(mode) == [Idle EXCEPT !.pc = "loop", !.mode = mode]

ListPaper ==
    /\ mon.pc = "idle"
    /\ seen' = Listed(FALSE)
    /\ mon' = Loop("paper")
    /\ UNCHANGED <<rows, stage, held, signals, alerts, market, autoExit, req, faults, lost>>

ListLive ==
    /\ mon.pc = "loop" /\ mon.mode = "paper" /\ ToDo = {}
    /\ seen' = Listed(TRUE)
    /\ mon' = Loop("live")
    /\ UNCHANGED <<rows, stage, held, signals, alerts, market, autoExit, req, faults, lost>>

\* The tick is over: sleep for 60 seconds.
EndTick ==
    /\ mon.pc = "loop" /\ mon.mode = "live" /\ ToDo = {}
    /\ mon' = Idle
    /\ UNCHANGED <<rows, stage, held, signals, alerts, market, autoExit, seen, req, faults, lost>>

\* get_live_price for the next order of the list; without a price it is skipped.
PriceOrder(o) ==
    /\ mon.pc = "loop" /\ o \in ToDo
    /\ seen' = [seen EXCEPT ![o] = Absent]
    /\ mon' = IF market[o] = None THEN mon
              ELSE [mon EXCEPT !.pc = "priced", !.order = o, !.row = seen[o], !.price = market[o]]
    /\ UNCHANGED <<rows, stage, held, signals, alerts, market, autoExit, req, faults, lost>>

\* The Risk Manager on the listed row, its write-back and the hit check.
ManageRisk ==
    LET o    == mon.order
        risk == ApplyRisk(mon.row, mon.price)
        row  == RiskStateRow(mon.row, risk)
        hit  == CheckHit(row, mon.price)
    IN  /\ mon.pc = "priced"
        /\ rows' = IF risk.changed THEN [rows EXCEPT ![o] = RiskStateRow(@, risk)] ELSE rows
        /\ mon' = [mon EXCEPT !.row = row, !.hit = hit,
                              !.pc = IF hit = NoHit THEN "alert" ELSE "hit"]
        /\ UNCHANGED <<stage, held, signals, alerts, market, autoExit, seen, req, faults, lost>>

\* Mutant: the price is fetched again for the close.
ClosePaperHitAtQuote ==
    LET o    == mon.order
        exit == ExitPrice(mon.row, market[o])
    IN  /\ mon.pc = "hit" /\ mon.mode = "paper"
        /\ rows' = [rows EXCEPT ![o] = CloseRow(@, mon.hit, exit, CalcPnl(mon.row, exit))]
        /\ mon' = [mon EXCEPT !.pc = "exited"]
        /\ UNCHANGED <<stage, held, signals, alerts, market, autoExit, seen, req, faults, lost>>

\* A paper hit closes the row; the result of the UPDATE is not looked at.
ClosePaperHit ==
    LET o == mon.order
    IN  /\ mon.pc = "hit" /\ mon.mode = "paper"
        /\ rows' = [rows EXCEPT ![o] = CloseRow(@, mon.hit, mon.price, CalcPnl(mon.row, mon.price))]
        /\ mon' = [mon EXCEPT !.pc = "exited"]
        /\ UNCHANGED <<stage, held, signals, alerts, market, autoExit, seen, req, faults, lost>>

\* What update_outcome leaves when the monitor calls it.
WriteOutcome(o, hit) ==
    /\ outcome' = [outcome EXCEPT ![o] = hit]
    /\ synced' = [synced EXCEPT ![o] = hit]
    /\ marked' = [marked EXCEPT ![o] = FALSE]

\* Mutant: only a live exit is synced.
SyncLiveOutcome ==
    /\ mon.pc = "exited"
    /\ IF mon.mode = "live" THEN WriteOutcome(mon.order, mon.hit) ELSE UNCHANGED signals
    /\ mon' = Loop(mon.mode)
    /\ UNCHANGED <<rows, stage, held, alerts, market, autoExit, seen, req, faults, lost>>

\* update_outcome on the order's signal.
SyncOutcome ==
    /\ mon.pc = "exited"
    /\ WriteOutcome(mon.order, mon.hit)
    /\ mon' = Loop(mon.mode)
    /\ UNCHANGED <<rows, stage, held, alerts, market, autoExit, seen, req, faults, lost>>

\* A live hit exits only with live_auto_exit_enabled.
ReadAutoExit ==
    /\ mon.pc = "hit" /\ mon.mode = "live"
    /\ mon' = [mon EXCEPT !.pc = IF autoExit THEN "exiting" ELSE "alert"]
    /\ UNCHANGED <<rows, stage, held, signals, alerts, market, autoExit, seen, req, faults, lost>>

\* Mutants: the result of the exit order is not looked at, before the row is
\* closed; before the outcome is synced.
SubmitExitUnchecked ==
    /\ mon.pc = "exiting"
    /\ \E result \in BrokerResults : BrokerCall(mon.order, -1, result)
    /\ mon' = [mon EXCEPT !.pc = "sold"]
    /\ UNCHANGED <<rows, stage, signals, alerts, market, autoExit, seen, req, faults>>
SubmitExitThenSync ==
    /\ mon.pc = "exiting"
    /\ \E result \in BrokerResults :
         /\ BrokerCall(mon.order, -1, result)
         /\ mon' = [mon EXCEPT !.pc = IF result = "filled" THEN "sold" ELSE "exited"]
    /\ UNCHANGED <<rows, stage, signals, alerts, market, autoExit, seen, req, faults>>

\* _close_live_order: no session and a rejected order are "rejected".
SubmitExit ==
    /\ mon.pc = "exiting"
    /\ \E result \in BrokerResults :
         /\ BrokerCall(mon.order, -1, result)
         /\ mon' = [mon EXCEPT !.pc = IF result = "filled" THEN "sold" ELSE "alert"]
    /\ UNCHANGED <<rows, stage, signals, alerts, market, autoExit, seen, req, faults>>

\* Mutants: the default reason of close_order is left; the `continue' that ends
\* the order's turn after a real exit is missing.
CloseLiveHitAsManual ==
    LET o    == mon.order
        exit == ExitPrice(mon.row, market[o])
    IN  /\ mon.pc = "sold"
        /\ rows' = [rows EXCEPT ![o] = CloseRow(@, Manual, exit, CalcPnl(mon.row, exit))]
        /\ mon' = [mon EXCEPT !.pc = "exited"]
        /\ UNCHANGED <<stage, held, signals, alerts, market, autoExit, seen, req, faults, lost>>
CloseLiveHitThenAlert ==
    LET o    == mon.order
        exit == ExitPrice(mon.row, market[o])
    IN  /\ mon.pc = "sold"
        /\ rows' = [rows EXCEPT ![o] = CloseRow(@, mon.hit, exit, CalcPnl(mon.row, exit))]
        /\ mon' = [mon EXCEPT !.pc = "alert"]
        /\ UNCHANGED <<stage, held, signals, alerts, market, autoExit, seen, req, faults, lost>>

\* The rest of _close_live_order: the row, once the offsetting order is filled.
CloseLiveHit ==
    LET o    == mon.order
        exit == ExitPrice(mon.row, market[o])
    IN  /\ mon.pc = "sold"
        /\ rows' = [rows EXCEPT ![o] = CloseRow(@, mon.hit, exit, CalcPnl(mon.row, exit))]
        /\ mon' = [mon EXCEPT !.pc = "exited"]
        /\ UNCHANGED <<stage, held, signals, alerts, market, autoExit, seen, req, faults, lost>>

(***************************************************************************)
(* maybe_alert_sl_proximity, unless the listed row was alerted before; the *)
(* user's alert setting is free.  The flag is written after the send.      *)
(***************************************************************************)
NearStop(row, price) ==
    /\ Truthy(row.sl)
    /\ (IF price > row.sl THEN price - row.sl ELSE row.sl - price) * 100 <= ProximityPct * row.sl

SendAlert ==
    /\ mon.pc = "alert" /\ ~mon.row.alerted /\ NearStop(mon.row, mon.price)
    /\ alerts' = [alerts EXCEPT ![mon.order] = @ + 1]
    /\ mon' = [mon EXCEPT !.pc = "mark"]
    /\ UNCHANGED <<rows, stage, held, signals, market, autoExit, seen, req, faults, lost>>

SkipAlert ==
    /\ mon.pc = "alert"
    /\ mon' = Loop(mon.mode)
    /\ UNCHANGED <<rows, stage, held, signals, alerts, market, autoExit, seen, req, faults, lost>>

\* Mutant: the flag is not persisted.
MarkNothing ==
    /\ mon.pc = "mark"
    /\ mon' = Loop(mon.mode)
    /\ UNCHANGED <<rows, stage, held, signals, alerts, market, autoExit, seen, req, faults, lost>>

MarkAlertSent ==
    /\ mon.pc = "mark"
    /\ rows' = [rows EXCEPT ![mon.order].alerted = TRUE]
    /\ mon' = Loop(mon.mode)
    /\ UNCHANGED <<stage, held, signals, alerts, market, autoExit, seen, req, faults, lost>>

MonitorStep ==
    \/ ListPaper \/ ListLive \/ EndTick \/ (\E o \in Orders : PriceOrder(o))
    \/ ManageRisk \/ ClosePaperHit \/ SyncOutcome
    \/ ReadAutoExit \/ SubmitExit \/ CloseLiveHit
    \/ SendAlert \/ SkipAlert \/ MarkAlertSent

-----------------------------------------------------------------------------
(* trading.close_order, called by a request thread.                         *)

BeginClose(r, o) ==
    /\ r \in Closers /\ req[r].pc = "idle" /\ IsOpen(o)
    /\ req' = [req EXCEPT ![r] = [pc |-> IF IsLive(o) THEN "closing" ELSE "sold",
                                  order |-> o, row |-> rows[o]]]
    /\ UNCHANGED <<rows, stage, held, signals, alerts, market, autoExit, mon, seen, faults, lost>>

\* _close_live_order for a request: the real offsetting order comes first.
SubmitClose(r) ==
    /\ req[r].pc = "closing"
    /\ \E result \in BrokerResults :
         /\ BrokerCall(req[r].order, -1, result)
         /\ req' = [req EXCEPT ![r] = IF result = "filled" THEN [@ EXCEPT !.pc = "sold"]
                                                           ELSE Resting]
    /\ UNCHANGED <<rows, stage, signals, alerts, market, autoExit, mon, seen, faults>>

RecordClose(r) ==
    LET o    == req[r].order
        exit == ExitPrice(req[r].row, market[o])
    IN  /\ req[r].pc = "sold"
        /\ rows' = [rows EXCEPT ![o] = CloseRow(@, Manual, exit, CalcPnl(req[r].row, exit))]
        /\ req' = [req EXCEPT ![r] = Resting]
        /\ UNCHANGED <<stage, held, signals, alerts, market, autoExit, mon, seen, faults, lost>>

(* save_order_risk_settings: the status is checked, then the row written.   *)

BeginEdit(r, o) ==
    /\ r \in Editors /\ req[r].pc = "idle" /\ IsOpen(o)
    /\ req' = [req EXCEPT ![r] = [Resting EXCEPT !.pc = "editing", !.order = o]]
    /\ UNCHANGED <<rows, stage, held, signals, alerts, market, autoExit, mon, seen, faults, lost>>

ApplyEdit(r) ==
    /\ req[r].pc = "editing"
    /\ \E s \in Settings : rows' = [rows EXCEPT ![req[r].order] = RiskSettingsRow(@, s)]
    /\ req' = [req EXCEPT ![r] = Resting]
    /\ UNCHANGED <<stage, held, signals, alerts, market, autoExit, mon, seen, faults, lost>>

(* set_outcome: one UPDATE of the signal, with no look at the order.         *)

SetOutcome(o) ==
    /\ \E said \in UserOutcomes : outcome' = [outcome EXCEPT ![o] = said]
    /\ marked' = [marked EXCEPT ![o] = TRUE]
    /\ synced' = synced
    /\ UNCHANGED <<rows, stage, held, alerts, market, autoExit, mon, seen, req, faults, lost>>

RequestStep ==
    \E r \in Closers \cup Editors :
        \/ \E o \in Orders : BeginClose(r, o) \/ BeginEdit(r, o)
        \/ SubmitClose(r) \/ RecordClose(r) \/ ApplyEdit(r)

-----------------------------------------------------------------------------
(* Faults.  An exception (a locked database, say) ends the tick: the        *)
(* monitor loop logs it and sleeps; only the live exit catches its own and  *)
(* goes on to the alert.  It ends a request too.  A crash ends every        *)
(* thread; the database and the broker survive.                             *)

TickFails ==
    /\ mon.pc # "idle" /\ faults < MaxFaults
    /\ IF mon.pc \in {"exiting", "sold"}
       THEN /\ mon' = [mon EXCEPT !.pc = "alert"]
            /\ UNCHANGED seen
       ELSE /\ mon' = Idle
            /\ seen' = NothingSeen
    /\ faults' = faults + 1
    /\ UNCHANGED <<rows, stage, held, signals, alerts, market, autoExit, req, lost>>

RequestFails(r) ==
    /\ req[r].pc # "idle" /\ faults < MaxFaults
    /\ req' = [req EXCEPT ![r] = Resting]
    /\ faults' = faults + 1
    /\ UNCHANGED <<rows, stage, held, signals, alerts, market, autoExit, mon, seen, lost>>

Crash ==
    /\ faults < MaxFaults
    /\ mon' = Idle
    /\ seen' = NothingSeen
    /\ req' = [r \in Closers \cup Editors |-> Resting]
    /\ stage' = [o \in Orders |-> IF stage[o] = "submitted" THEN "failed" ELSE stage[o]]
    /\ faults' = faults + 1
    /\ UNCHANGED <<rows, held, signals, alerts, market, autoExit, lost>>

Fault == TickFails \/ Crash \/ (\E r \in Closers \cup Editors : RequestFails(r))

Next ==
    \/ \E o \in Orders : MarketMoves(o) \/ SetOutcome(o)
    \/ SetAutoExit
    \/ Place
    \/ MonitorStep
    \/ RequestStep
    \/ Fault

Spec == Init /\ [][Next]_vars

(***************************************************************************)
(* _position_monitor_loop never stops: it runs a tick, catches what the    *)
(* tick raises, sleeps, and runs the next one.  Nothing else is fair.      *)
(***************************************************************************)
FairSpec == Spec /\ WF_vars(MonitorStep)

-----------------------------------------------------------------------------
Monitor == [pc : {"idle", "loop", "priced", "hit", "exiting", "sold", "exited", "alert", "mark"},
            mode : {"paper", "live"}, order : Orders \cup {NoOrder},
            row : Row, price : Prices \cup {None}, hit : Hits \cup {NoHit}]
Request == [pc : {"idle", "closing", "sold", "editing"}, order : Orders \cup {NoOrder}, row : Row]

(* Types: every variable stays in its type, None being the missing number.  *)
TypeOK ==
    /\ rows \in [Orders -> Row]
    /\ stage \in [Orders -> {"new", "submitted", "placed", "failed"}]
    /\ held \in [Orders -> Int]
    /\ outcome \in [Orders -> Outcomes]
    /\ synced \in [Orders -> Hits \cup {Pending}]
    /\ marked \in [Orders -> BOOLEAN]
    /\ alerts \in [Orders -> Nat]
    /\ market \in [Orders -> Prices \cup {None}]
    /\ autoExit \in BOOLEAN
    /\ mon \in Monitor
    /\ seen \in [Orders -> Row]
    /\ req \in [Closers \cup Editors -> Request]
    /\ faults \in Nat /\ lost \in Nat

IsClosed(o) == rows[o].status \notin {"absent", "open"}

(* What the orders table promises whoever reads it: see OrderBook.          *)
Book == INSTANCE OrderBook WITH
            status <- [o \in Orders |-> rows[o].status],
            exit   <- [o \in Orders |-> rows[o].exit],
            Exits  <- Prices \cup {t.entry : t \in Terms}
BookSpec == Book!Spec

(* "SL only ever tightens, never loosens" (trading.py:531): across every    *)
(* interleaving of the monitor, closes and edits, and every fault, no write *)
(* of a row takes its stop back, although each is computed from an earlier  *)
(* read of the row.                                                         *)
StopOnlyTightens ==
    [][\A o \in Orders : rows[o].status # "absent" =>
            AtLeastAsTight(rows[o].side, rows'[o].sl, rows[o].sl)]_rows

(* The monitor never marks "an outcome for a position that's still open"    *)
(* (test_live_auto_exit.py): an outcome of an open position is the user's   *)
(* own mark (POST /signals/{id}/outcome), before, between or after the      *)
(* monitor's writes.                                                        *)
OutcomeOnlyOfClosed ==
    \A o \in Orders : outcome[o] # Pending => marked[o] \/ IsClosed(o)

(* The outcome the monitor gives a signal, over whatever the user said      *)
(* before, is the reason its order was closed for; after that only the      *)
(* user parts them: a manual close does not touch it (trading.py:619).      *)
OutcomeMatchesExit ==
    \A o \in Orders : outcome[o] # Pending => marked[o] \/ rows[o].status = outcome[o]

(* A paper row closed by the monitor was closed at a price that is really   *)
(* beyond the stop or target stored in the row, the stop having precedence. *)
PaperExitJustified ==
    \A o \in Orders \ LiveOrders :
        rows[o].status \in Hits => CheckHit(rows[o], rows[o].exit) = rows[o].status

(* A live row is never just marked closed with the real position still open *)
(* at the broker (close_order, trading.py:457).                             *)
ClosedLiveWasOffset == \A o \in LiveOrders : IsClosed(o) => held[o] <= 0

(* When the monitor goes on to alert after a hit of a live order, be it     *)
(* that the auto-exit is off or that it failed, the real position is open   *)
(* ("the position is still genuinely open on the real broker account",      *)
(* alerts.py:94).                                                           *)
HitAlertMeansHeld ==
    mon.pc = "alert" /\ mon.mode = "live" /\ mon.hit # NoHit => held[mon.order] > 0

(* The broker holds exactly the positions the table and the calls under way *)
(* account for.                                                             *)
Selling(o) == \/ mon.order = o /\ mon.pc = "sold"
              \/ \E r \in Closers : req[r].order = o /\ req[r].pc = "sold"
BrokerInSync ==
    \A o \in LiveOrders :
        held[o] = IF stage[o] = "submitted" \/ (IsOpen(o) /\ ~Selling(o)) THEN 1 ELSE 0

(* The lock flag says that a lock of the row's own settings has moved the   *)
(* stop: no row is skipped for a lock that never fired (db.py:1588).  Only  *)
(* an edit between the monitor's listing and its write breaks it.           *)
Locks(row) ==
    (IF row.risk.lock_trigger_pct # 0 THEN {PctLock(row, row.risk)} ELSE {})
        \cup (IF row.risk.lock_trigger_amount # 0 THEN {AmountLock(row, row.risk)} ELSE {})
LockProtects ==
    \A o \in Orders : rows[o].locked =>
        \E lock \in Locks(rows[o]) : AtLeastAsTight(rows[o].side, rows[o].sl, Round(lock))

(* Once the peak has moved, a trailing stop stored in a row is no further   *)
(* from the stored peak than the trail percentage.                          *)
TrailProtects ==
    \A o \in Orders :
        LET row == rows[o]
        IN  row.risk.trail_pct # 0 /\ row.peak # row.entry =>
                AtLeastAsTight(row.side, row.sl, Round(TrailStop(row.side, row.peak, row.risk)))

(* Both: what the Risk Manager claims to have done is in the stored stop,   *)
(* after ticks, closes, lost answers and faults (trading.py:606-613).       *)
StopProtects == LockProtects /\ TrailProtects

(* One SL-proximity alert per order; each fault costs at most one more.     *)
AlertedOnce == \A o \in Orders : alerts[o] <= 1 + faults

(* A paper position whose quote stays beyond its stop or target is closed,  *)
(* whatever else happens.                                                   *)
HitIsClosed ==
    \A o \in Orders \ LiveOrders :
        []<>~(IsOpen(o) /\ market[o] # None /\ CheckHit(rows[o], market[o]) # NoHit)

(* An automatic exit is written to the signal's outcome, the number Channel *)
(* Stats counts (trading.py:614), whatever the user has set there.          *)
ExitIsSynced ==
    \A o \in Orders : rows[o].status \in Hits ~> synced[o] = rows[o].status

-----------------------------------------------------------------------------
(***************************************************************************)
(* The inductive invariant behind the safety theorems of PositionsProofs.  *)
(***************************************************************************)
Exists(o) == rows[o].status # "absent"

\* A row comes with the end of its placement, and entry prices from Terms.
PlacementInv ==
    \A o \in Orders :
        /\ Exists(o) => stage[o] = "placed" /\ \E t \in Terms : rows[o].entry = t.entry
        /\ stage[o] = "submitted" => IsLive(o)
        /\ rows[o].status = "open" \/ ~Exists(o) => rows[o].exit = None

\* A listed order waits its turn, in the half of the tick for its mode.
SeenInv ==
    \A o \in Orders : seen[o].status = "open" =>
        /\ Exists(o) /\ seen[o].entry = rows[o].entry
        /\ IsLive(o) <=> mon.mode = "live"
        /\ mon.pc # "idle"

\* The monitor works on an order whose row exists, of the mode it is at.
MonitorInv ==
    /\ mon.pc \notin {"idle", "loop"} =>
            /\ mon.order \in Orders /\ Exists(mon.order)
            /\ mon.row.entry = rows[mon.order].entry
            /\ seen[mon.order].status # "open"
            /\ IsLive(mon.order) <=> mon.mode = "live"
            /\ mon.price \in Prices
    /\ mon.pc \in {"hit", "exiting", "sold", "exited"} => mon.hit \in Hits
    /\ mon.pc \in {"exiting", "sold"} => mon.mode = "live"
    /\ mon.pc = "exited" => IsClosed(mon.order)

\* So does a request, and only a live order is sold for it.
RequestInv ==
    \A r \in Closers \cup Editors : req[r].pc # "idle" =>
        /\ req[r].order \in Orders /\ Exists(req[r].order)
        /\ req[r].pc # "editing" => req[r].row.entry = rows[req[r].order].entry
        /\ req[r].pc = "closing" => IsLive(req[r].order)

ThreadInv == SeenInv /\ MonitorInv /\ RequestInv

\* An order is entered at most once, and sold before a thread records it sold.
HeldInv ==
    \A o \in Orders :
        /\ held[o] <= 1
        /\ stage[o] = "new" => held[o] <= 0
        /\ IsLive(o) =>
             /\ mon.order = o /\ mon.pc = "sold" => held[o] <= 0
             /\ \A r \in Closers \cup Editors :
                    req[r].order = o /\ req[r].pc = "sold" => held[o] <= 0
             /\ IsClosed(o) => held[o] <= 0

\* The monitor's copies of a stop are the stored stop until it writes it back.
OnGrid(sl) == sl = None \/ sl % Tick = 0
SnapshotInv ==
    /\ \A o \in Orders : OnGrid(rows[o].sl)
    /\ \A o \in Orders : seen[o].status = "open" =>
            seen[o].sl = rows[o].sl /\ seen[o].side = rows[o].side
    /\ mon.pc = "priced" =>
            mon.row.sl = rows[mon.order].sl /\ mon.row.side = rows[mon.order].side

SafetyInv == TypeOK /\ PlacementInv /\ ThreadInv /\ HeldInv /\ OutcomeOnlyOfClosed
\* A request thread closes or edits, as its endpoint says.
RoleInv ==
    \A r \in Closers \cup Editors :
        /\ req[r].pc \in {"closing", "sold"} => r \in Closers
        /\ req[r].pc = "editing" => r \in Editors

\* The monitor's copies of a row say what the row says of its levels, and a row
\* it has still to handle was not closed for a hit.
SameLevels(a, b) ==
    /\ a.side = b.side /\ a.sl = b.sl /\ a.target = b.target
    /\ a.alerted = b.alerted
CopyInv ==
    /\ \A o \in Orders : seen[o].status = "open" =>
            SameLevels(seen[o], rows[o]) /\ rows[o].status \notin Hits
    /\ mon.pc \notin {"idle", "loop"} => SameLevels(mon.row, rows[mon.order])
    /\ mon.pc \notin {"idle", "loop", "exited"} => rows[mon.order].status \notin Hits
    /\ mon.pc \in {"hit", "exiting", "sold", "exited"} =>
            mon.hit = CheckHit(mon.row, mon.price)

\* An alert was marked, is about to be, or its mark was lost to a fault.
AlertInv ==
    /\ \A o \in Orders : ~Exists(o) => ~rows[o].alerted
    /\ mon.pc = "mark" => ~rows[mon.order].alerted
    /\ \A o \in Orders :
          alerts[o] <= faults + IF rows[o].alerted \/ (mon.pc = "mark" /\ mon.order = o)
                                THEN 1 ELSE 0

\* Only a manual close can come between a hit and the outcome the monitor
\* leaves, and only the user changes that again.
OutcomeOrManual ==
    \A o \in Orders :
        outcome[o] # Pending => marked[o] \/ rows[o].status \in {outcome[o], Manual}
OutcomeInv ==
    /\ OutcomeOrManual
    /\ mon.pc = "exited" => rows[mon.order].status \in {mon.hit, Manual}
    /\ Closers = {} => \A o \in Orders : rows[o].status # Manual

ExitInv == RoleInv /\ CopyInv /\ AlertInv /\ OutcomeInv /\ PaperExitJustified

\* Without manual closes the broker is in sync until the first fault.
SyncInv == Closers = {} /\ faults = 0 /\ lost = 0 => BrokerInSync

\* Without edits the monitor's copies are the whole risk state of the row.
SameRisk(a, b) ==
    /\ a.qty = b.qty /\ a.entry = b.entry /\ a.peak = b.peak
    /\ a.locked = b.locked /\ a.risk = b.risk
RiskInv ==
    Editors = {} =>
        /\ \A o \in Orders : seen[o].status = "open" => SameRisk(seen[o], rows[o])
        /\ mon.pc = "priced" => SameRisk(mon.row, rows[mon.order])
        /\ \A o \in Orders : Exists(o) => rows[o].qty # 0
        /\ StopProtects

=============================================================================
