-------------------------- MODULE PositionsProofs --------------------------
(***************************************************************************)
(* Theorems about Positions, for every set of orders, threads and prices:  *)
(* what the monitor and the closers may do to an order, then how an order  *)
(* ends: at what level a hit was closed, what its signal is told, how      *)
(* often its owner is alerted, and what the broker is left with.           *)
(***************************************************************************)
EXTENDS Positions, TLAPS

\* What apply_risk_management returns, whatever the row and the price.
LEMMA ApplyRiskType ==
    ASSUME NEW row \in Row, NEW price \in Int
    PROVE  /\ ApplyRisk(row, price).sl \in Int
           /\ ApplyRisk(row, price).peak \in Int
           /\ ApplyRisk(row, price).locked \in BOOLEAN
           /\ ApplyRisk(row, price).changed \in BOOLEAN
<1>1. \A x \in Int : Round(x) \in Int
  BY DEF Round, Tick
<1>2. /\ row.entry \in Int /\ row.qty \in Int /\ row.sl \in Int /\ row.peak \in Int
      /\ row.locked \in BOOLEAN /\ row.side \in Sides
      /\ row.risk.lock_pct \in Int /\ row.risk.trail_pct \in Int
      /\ row.risk.lock_amount \in Int /\ row.qty >= 0
  BY DEF Row, RiskSettings
<1>3. \A p \in Int, pct \in Int : ProfitLevel(row.side, p, pct) \in Int
  BY <1>2 DEF ProfitLevel, Sides
<1>4. PctLock(row, row.risk) \in Int
  BY <1>2, <1>3 DEF PctLock
<1>5. AmountArmed(row, row.risk, price) => AmountLock(row, row.risk) \in Int
  BY <1>2 DEF AmountArmed, AmountLock
<1>6. LockStop(row, row.risk, price) \in Int
  BY <1>4, <1>5 DEF LockStop
<1>7. ASSUME NEW peak \in Int PROVE TrailStop(row.side, peak, row.risk) \in Int
  <2>1. -row.risk.trail_pct \in Int
    BY <1>2
  <2>2. ProfitLevel(row.side, peak, -row.risk.trail_pct) \in Int
    BY <1>3, <2>1
  <2>3. QED
    BY <2>2 DEF TrailStop
<1>8. QED
  BY <1>1, <1>2, <1>6, <1>7 DEF ApplyRisk, Beyond

\* round(x, 2) never crosses a whole-paise amount.
LEMMA RoundAtGrid ==
    ASSUME NEW x \in Int, NEW s \in Int, s % Tick = 0
    PROVE  /\ x >= s => Round(x) >= s
           /\ x <= s => Round(x) <= s
           /\ Round(x) % Tick = 0
           /\ Round(x) # None
BY DEF Round, Tick, None

-----------------------------------------------------------------------------
(* What the row operators do to a row.                                      *)

LEMMA AbsentFacts == Absent \in Row /\ Absent.status = "absent"
BY DEF Absent, Row, NoRisk, RiskSettings, Sides, Statuses, None

LEMMA NewRowFacts ==
    ASSUME NEW t \in Terms, NEW s \in Settings
    PROVE  /\ NewRow(t, s) \in Row
           /\ NewRow(t, s).status = "open" /\ NewRow(t, s).exit = None
           /\ NewRow(t, s).entry = t.entry /\ NewRow(t, s).sl = t.sl
<1>1. t \in [side : Sides, qty : Nat \ {0}, entry : Nat \ {0}, sl : Int, target : Int]
  BY TermsAssumption
<1>2. s \in RiskSettings
  BY TermsAssumption
<1>3. QED
  BY <1>1, <1>2 DEF NewRow, Row, Statuses, None

LEMMA CloseRowFacts ==
    ASSUME NEW row \in Row, NEW reason \in Hits \cup {Manual}, NEW exit \in Int, NEW pnl \in Int
    PROVE  /\ CloseRow(row, reason, exit, pnl) \in Row
           /\ CloseRow(row, reason, exit, pnl).entry = row.entry
           /\ CloseRow(row, reason, exit, pnl).sl = row.sl
           /\ CloseRow(row, reason, exit, pnl).side = row.side
           /\ row.status = "open" => /\ CloseRow(row, reason, exit, pnl).status = reason
                                     /\ CloseRow(row, reason, exit, pnl).exit = exit
           /\ row.status # "open" => CloseRow(row, reason, exit, pnl) = row
BY DEF CloseRow, Row, Statuses

LEMMA RiskStateRowFacts ==
    ASSUME NEW row \in Row, NEW risk, risk.sl \in Int, risk.peak \in Int, risk.locked \in BOOLEAN
    PROVE  /\ RiskStateRow(row, risk) \in Row
           /\ RiskStateRow(row, risk).sl = risk.sl
           /\ RiskStateRow(row, risk).entry = row.entry
           /\ RiskStateRow(row, risk).side = row.side
           /\ RiskStateRow(row, risk).status = row.status
           /\ RiskStateRow(row, risk).exit = row.exit
BY DEF RiskStateRow, Row

LEMMA RiskSettingsRowFacts ==
    ASSUME NEW row \in Row, NEW s \in Settings
    PROVE  /\ RiskSettingsRow(row, s) \in Row
           /\ RiskSettingsRow(row, s).sl = row.sl
           /\ RiskSettingsRow(row, s).entry = row.entry
           /\ RiskSettingsRow(row, s).side = row.side
           /\ RiskSettingsRow(row, s).status = row.status
           /\ RiskSettingsRow(row, s).exit = row.exit
<1>1. s \in RiskSettings
  BY TermsAssumption
<1>2. QED
  BY <1>1 DEF RiskSettingsRow, Row

LEMMA AlertedRowFacts ==
    ASSUME NEW row \in Row
    PROVE  /\ [row EXCEPT !.alerted = TRUE] \in Row
           /\ [row EXCEPT !.alerted = TRUE].sl = row.sl
           /\ [row EXCEPT !.alerted = TRUE].entry = row.entry
           /\ [row EXCEPT !.alerted = TRUE].side = row.side
           /\ [row EXCEPT !.alerted = TRUE].status = row.status
           /\ [row EXCEPT !.alerted = TRUE].exit = row.exit
BY DEF Row

LEMMA CalcPnlType ==
    ASSUME NEW row \in Row, NEW exit \in Int
    PROVE  CalcPnl(row, exit) \in Int
<1>1. Profit(row.side, IF row.entry = None THEN 0 ELSE row.entry, exit) * row.qty \in Int
  BY DEF Profit, Row
<1>2. QED
  BY <1>1 DEF CalcPnl, Round, Tick

LEMMA ExitPriceFacts ==
    ASSUME NEW row \in Row, NEW quote \in Prices \cup {None}
    PROVE  /\ ExitPrice(row, quote) \in Int
           /\ ExitPrice(row, quote) \in Prices \/ ExitPrice(row, quote) = row.entry
BY PricesAssumption DEF ExitPrice, Row, None

LEMMA HitType == ASSUME NEW row, NEW price PROVE CheckHit(row, price) \in Hits \cup {NoHit}
BY DEF CheckHit, Hits

LEMMA ManageRiskFacts ==
    ASSUME NEW row \in Row, NEW price \in Prices \cup {None}, NEW other \in Row
    PROVE  /\ RiskStateRow(other, ApplyRisk(row, price)) \in Row
           /\ RiskStateRow(other, ApplyRisk(row, price)).sl = ApplyRisk(row, price).sl
           /\ RiskStateRow(other, ApplyRisk(row, price)).entry = other.entry
           /\ RiskStateRow(other, ApplyRisk(row, price)).side = other.side
           /\ RiskStateRow(other, ApplyRisk(row, price)).status = other.status
           /\ RiskStateRow(other, ApplyRisk(row, price)).exit = other.exit
<1>1. price \in Int
  BY PricesAssumption DEF None
<1>2. QED
  BY <1>1, ApplyRiskType, RiskStateRowFacts

-----------------------------------------------------------------------------
(* What a step does to the rows: it creates one, closes an open one, or     *)
(* leaves status, exit, entry and side of every row alone.                  *)

RowStep(p) ==
    /\ Exists(p) => /\ rows'[p].status # "absent"
                    /\ rows'[p].entry = rows[p].entry
                    /\ rows'[p].side = rows[p].side
    /\ IsClosed(p) => rows'[p].status = rows[p].status /\ rows'[p].exit = rows[p].exit
SameRow(p) ==
    /\ rows'[p].status = rows[p].status
    /\ rows'[p].exit = rows[p].exit
    /\ rows'[p].entry = rows[p].entry
    /\ rows'[p].side = rows[p].side

LEMMA PlaceRows ==
    ASSUME TypeOK, PlacementInv, NEW o \in Orders, PlacePaper(o) \/ RecordEntry(o)
    PROVE  /\ rows' \in [Orders -> Row]
           /\ ~Exists(o)
           /\ rows'[o].status = "open" /\ rows'[o].exit = None
           /\ \E t \in Terms : rows'[o].entry = t.entry /\ rows'[o].sl = t.sl
           /\ \A p \in Orders \ {o} : rows'[p] = rows[p]
<1>1. PICK t \in Terms, s \in Settings : rows' = [rows EXCEPT ![o] = NewRow(t, s)]
  BY DEF PlacePaper, RecordEntry
<1>2. ~Exists(o)
  BY DEF PlacePaper, RecordEntry, PlacementInv
<1>3. rows' \in [Orders -> Row] /\ rows'[o] = NewRow(t, s)
  BY <1>1, NewRowFacts DEF TypeOK
<1>4. QED
  BY <1>1, <1>2, <1>3, NewRowFacts DEF TypeOK

LEMMA ManageRiskRows ==
    ASSUME TypeOK, ManageRisk
    PROVE  /\ rows' \in [Orders -> Row]
           /\ \A p \in Orders : SameRow(p)
           /\ \A p \in Orders \ {mon.order} : rows'[p] = rows[p]
           /\ mon.order \in Orders =>
                rows'[mon.order].sl \in {rows[mon.order].sl, ApplyRisk(mon.row, mon.price).sl}
           /\ mon'.row \in Row /\ mon'.row.entry = mon.row.entry
<1>1. mon.row \in Row /\ mon.price \in Prices \cup {None} /\ \A p \in Orders : rows[p] \in Row
  BY DEF TypeOK, Monitor
<1>2. mon'.row = RiskStateRow(mon.row, ApplyRisk(mon.row, mon.price))
  BY DEF ManageRisk, TypeOK
<1>3. \/ rows' = rows
      \/ rows' = [rows EXCEPT ![mon.order] = RiskStateRow(@, ApplyRisk(mon.row, mon.price))]
  BY DEF ManageRisk
<1>4. mon'.row \in Row /\ mon'.row.entry = mon.row.entry
  BY <1>1, <1>2, ManageRiskFacts
<1>5. ASSUME NEW p \in Orders
      PROVE  /\ rows'[p] \in Row /\ SameRow(p)
             /\ p # mon.order => rows'[p] = rows[p]
             /\ p = mon.order => rows'[p].sl \in {rows[p].sl, ApplyRisk(mon.row, mon.price).sl}
  <2>1. CASE rows'[p] = rows[p]
    BY <1>1, <2>1 DEF SameRow
  <2>2. CASE p = mon.order /\ rows'[p] = RiskStateRow(rows[p], ApplyRisk(mon.row, mon.price))
    BY <1>1, <2>2, ManageRiskFacts DEF SameRow
  <2>3. QED
    BY <1>3, <2>1, <2>2 DEF TypeOK
<1>6. rows' \in [Orders -> Row]
  BY <1>3, <1>5 DEF TypeOK
<1>7. QED
  BY <1>4, <1>5, <1>6

\* The effect of db.close_order on order o, for whichever thread calls it.
CloseEffect(o, reason) ==
    /\ rows' \in [Orders -> Row]
    /\ \A p \in Orders \ {o} : rows'[p] = rows[p]
    /\ rows'[o].status \notin {"absent", "open"}
    /\ rows'[o].entry = rows[o].entry /\ rows'[o].sl = rows[o].sl
    /\ rows'[o].side = rows[o].side
    /\ rows[o].status = "open" => /\ rows'[o].status = reason
                                  /\ rows'[o].exit \in Prices \cup {t.entry : t \in Terms}
    /\ rows[o].status # "open" => rows'[o] = rows[o]

LEMMA CloseRows ==
    ASSUME TypeOK, NEW o \in Orders, NEW reason \in Hits \cup {Manual},
           NEW exit \in Prices \cup {t.entry : t \in Terms}, NEW row \in Row, Exists(o),
           rows' = [rows EXCEPT ![o] = CloseRow(rows[o], reason, exit, CalcPnl(row, exit))]
    PROVE  CloseEffect(o, reason)
<1> DEFINE pnl == CalcPnl(row, exit)
           new == CloseRow(rows[o], reason, exit, pnl)
<1>1. rows[o] \in Row /\ rows \in [Orders -> Row]
  BY DEF TypeOK
<1>2. exit \in Int
  <2>1. \A t \in Terms : t.entry \in Int
    BY TermsAssumption
  <2>2. Prices \subseteq Int
    BY PricesAssumption
  <2>3. QED
    BY <2>1, <2>2
<1>3. pnl \in Int
  BY <1>2, CalcPnlType
<1> HIDE DEF pnl
<1>4. /\ new \in Row
      /\ new.entry = rows[o].entry /\ new.sl = rows[o].sl /\ new.side = rows[o].side
      /\ rows[o].status = "open" => new.status = reason /\ new.exit = exit
      /\ rows[o].status # "open" => new = rows[o]
  BY <1>1, <1>2, <1>3, CloseRowFacts
<1>5. new.status \notin {"absent", "open"}
  BY <1>4 DEF Hits, Manual, Exists
<1>6. rows' \in [Orders -> Row] /\ rows'[o] = new /\ \A p \in Orders \ {o} : rows'[p] = rows[p]
  BY <1>1, <1>4 DEF pnl
<1> HIDE DEF new
<1>7. QED
  BY <1>4, <1>5, <1>6 DEF CloseEffect

LEMMA MonitorCloses ==
    ASSUME SafetyInv, ClosePaperHit \/ CloseLiveHit
    PROVE  mon.order \in Orders /\ mon.hit \in Hits /\ CloseEffect(mon.order, mon.hit)
<1>1. /\ mon.order \in Orders /\ Exists(mon.order) /\ mon.row \in Row /\ mon.hit \in Hits
      /\ mon.price \in Prices /\ market[mon.order] \in Prices \cup {None} /\ TypeOK
  BY DEF SafetyInv, TypeOK, Monitor, ThreadInv, MonitorInv, RequestInv, ClosePaperHit, CloseLiveHit
<1>2. mon.row.entry \in {t.entry : t \in Terms}
  BY <1>1 DEF SafetyInv, ThreadInv, MonitorInv, RequestInv, PlacementInv, ClosePaperHit, CloseLiveHit
<1>3. ExitPrice(mon.row, market[mon.order]) \in Prices \cup {t.entry : t \in Terms}
  BY <1>1, <1>2, ExitPriceFacts
<1>4. CASE ClosePaperHit
  <2>1. rows' = [rows EXCEPT ![mon.order] =
                    CloseRow(rows[mon.order], mon.hit, mon.price, CalcPnl(mon.row, mon.price))]
    BY <1>4 DEF ClosePaperHit
  <2>2. QED
    BY <1>1, <2>1, CloseRows
<1>5. CASE CloseLiveHit
  <2> DEFINE exit == ExitPrice(mon.row, market[mon.order])
  <2>1. rows' = [rows EXCEPT ![mon.order] =
                    CloseRow(rows[mon.order], mon.hit, exit, CalcPnl(mon.row, exit))]
    BY <1>5 DEF CloseLiveHit
  <2>2. exit \in Prices \cup {t.entry : t \in Terms}
    BY <1>3
  <2> HIDE DEF exit
  <2>3. QED
    BY <1>1, <2>1, <2>2, CloseRows
<1>6. QED
  BY <1>4, <1>5

LEMMA RequestCloses ==
    ASSUME SafetyInv, NEW r \in Closers \cup Editors, RecordClose(r)
    PROVE  req[r].order \in Orders /\ CloseEffect(req[r].order, Manual)
<1> DEFINE o == req[r].order
           exit == ExitPrice(req[r].row, market[o])
<1>1. /\ o \in Orders /\ Exists(o) /\ req[r].row \in Row
      /\ market[o] \in Prices \cup {None} /\ TypeOK
  BY DEF SafetyInv, TypeOK, Request, ThreadInv, MonitorInv, RequestInv, RecordClose
<1>2. req[r].row.entry \in {t.entry : t \in Terms}
  BY <1>1 DEF SafetyInv, ThreadInv, MonitorInv, RequestInv, PlacementInv, RecordClose
<1>3. exit \in Prices \cup {t.entry : t \in Terms}
  BY <1>1, <1>2, ExitPriceFacts
<1>4. rows' = [rows EXCEPT ![o] = CloseRow(rows[o], Manual, exit, CalcPnl(req[r].row, exit))]
  BY DEF RecordClose
<1> HIDE DEF exit, o
<1>5. CloseEffect(o, Manual)
  BY <1>1, <1>3, <1>4, CloseRows
<1>6. QED
  BY <1>1, <1>5 DEF o

LEMMA QuietRows ==
    ASSUME TypeOK, MarkAlertSent \/ \E r \in Closers \cup Editors : ApplyEdit(r)
    PROVE  /\ rows' \in [Orders -> Row]
           /\ \A p \in Orders : SameRow(p) /\ rows'[p].sl = rows[p].sl
<1>1. ASSUME NEW p \in Orders
      PROVE  rows'[p] \in Row /\ SameRow(p) /\ rows'[p].sl = rows[p].sl
  <2>1. rows \in [Orders -> Row] /\ rows[p] \in Row
    BY DEF TypeOK
  <2>2. CASE MarkAlertSent
    <3>1. rows'[p] = rows[p] \/ rows'[p] = [rows[p] EXCEPT !.alerted = TRUE]
      BY <2>1, <2>2 DEF MarkAlertSent
    <3>2. QED
      BY <2>1, <3>1, AlertedRowFacts DEF SameRow
  <2>3. CASE \E r \in Closers \cup Editors : ApplyEdit(r)
    <3>1. PICK s \in Settings : rows'[p] = rows[p] \/ rows'[p] = RiskSettingsRow(rows[p], s)
      BY <2>1, <2>3 DEF ApplyEdit
    <3>2. QED
      BY <2>1, <3>1, RiskSettingsRowFacts DEF SameRow
  <2>4. QED
    BY <2>2, <2>3
<1>2. rows' = [p \in Orders |-> rows'[p]]
  BY DEF TypeOK, MarkAlertSent, ApplyEdit
<1>3. QED
  BY <1>1, <1>2

\* The steps that leave the rows alone.
RowsKept ==
    \/ \E o \in Orders : MarketMoves(o) \/ SetOutcome(o) \/ SubmitEntry(o) \/ PriceOrder(o)
    \/ SetAutoExit \/ ListPaper \/ ListLive \/ EndTick \/ SyncOutcome \/ ReadAutoExit
    \/ SubmitExit \/ SendAlert \/ SkipAlert \/ Fault
    \/ \E r \in Closers \cup Editors : 
          SubmitClose(r) \/ \E o \in Orders : BeginClose(r, o) \/ BeginEdit(r, o)

LEMMA RowsKeptSame == RowsKept => rows' = rows
BY DEF RowsKept, MarketMoves, SetOutcome, SubmitEntry, PriceOrder, SetAutoExit, ListPaper, ListLive, EndTick,
       SyncOutcome, ReadAutoExit, SubmitExit, SendAlert, SkipAlert, Fault, TickFails, Crash,
       RequestFails, SubmitClose, BeginClose, BeginEdit

LEMMA NextCases ==
    ASSUME Next
    PROVE  \/ RowsKept
           \/ \E o \in Orders : PlacePaper(o) \/ RecordEntry(o)
           \/ ManageRisk
           \/ ClosePaperHit \/ CloseLiveHit
           \/ \E r \in Closers \cup Editors : RecordClose(r)
           \/ MarkAlertSent \/ \E r \in Closers \cup Editors : ApplyEdit(r)
BY DEF Next, Place, MonitorStep, RequestStep, RowsKept

LEMMA RowsOfStep ==
    ASSUME SafetyInv, Next
    PROVE  rows' \in [Orders -> Row] /\ \A p \in Orders : RowStep(p)
<1>1. TypeOK /\ PlacementInv
  BY DEF SafetyInv
<1>2. CASE RowsKept
  BY <1>1, <1>2, RowsKeptSame DEF TypeOK, RowStep, Exists, IsClosed
<1>3. ASSUME NEW o \in Orders, PlacePaper(o) \/ RecordEntry(o)
      PROVE  rows' \in [Orders -> Row] /\ \A p \in Orders : RowStep(p)
  BY <1>1, <1>3, PlaceRows DEF RowStep, Exists, IsClosed
<1>4. CASE ManageRisk
  BY <1>1, <1>4, ManageRiskRows DEF RowStep, SameRow, Exists, IsClosed
<1>5. ASSUME NEW o \in Orders, NEW reason, CloseEffect(o, reason)
      PROVE  rows' \in [Orders -> Row] /\ \A p \in Orders : RowStep(p)
  BY <1>5 DEF CloseEffect, RowStep, Exists, IsClosed
<1>6. CASE ClosePaperHit \/ CloseLiveHit
  BY <1>5, <1>6, MonitorCloses
<1>7. CASE \E r \in Closers \cup Editors : RecordClose(r)
  BY <1>5, <1>7, RequestCloses
<1>8. CASE MarkAlertSent \/ \E r \in Closers \cup Editors : ApplyEdit(r)
  BY <1>1, <1>8, QuietRows DEF RowStep, SameRow, Exists, IsClosed
<1>9. QED
  BY <1>2, <1>3, <1>4, <1>6, <1>7, <1>8, NextCases

-----------------------------------------------------------------------------
(* Types.                                                                   *)

LEMMA ThreadTypes ==
    ASSUME TypeOK
    PROVE  /\ Idle \in Monitor /\ \A mode \in {"paper", "live"} : Loop(mode) \in Monitor
           /\ Resting \in Request
           /\ NothingSeen \in [Orders -> Row]
           /\ \A live \in BOOLEAN : Listed(live) \in [Orders -> Row]
BY AbsentFacts DEF TypeOK, Idle, Loop, Monitor, Resting, Request, NothingSeen, Listed

LEMMA MonitorTypes ==
    ASSUME TypeOK, MonitorStep
    PROVE  mon' \in Monitor /\ seen' \in [Orders -> Row]
<1>1. mon \in Monitor /\ seen \in [Orders -> Row] /\ mon.mode \in {"paper", "live"}
  BY DEF TypeOK, Monitor
<1>2. CASE ListPaper \/ ListLive \/ EndTick \/ SyncOutcome \/ SkipAlert \/ MarkAlertSent
  BY <1>1, <1>2, ThreadTypes
     DEF ListPaper, ListLive, EndTick, SyncOutcome, SkipAlert, MarkAlertSent
<1>3. ASSUME NEW o \in Orders, PriceOrder(o)
      PROVE  mon' \in Monitor /\ seen' \in [Orders -> Row]
  <2>1. seen[o] \in Row /\ market[o] \in Prices \cup {None}
    BY DEF TypeOK
  <2>2. QED
    BY <1>1, <1>3, <2>1, AbsentFacts DEF PriceOrder, Monitor
<1>4. CASE ManageRisk
  <2>1. mon'.row \in Row
    BY <1>4, ManageRiskRows
  <2> DEFINE row == RiskStateRow(mon.row, ApplyRisk(mon.row, mon.price))
             hit == CheckHit(row, mon.price)
  <2>2. mon' = [mon EXCEPT !.row = row, !.hit = hit, !.pc = IF hit = NoHit THEN "alert" ELSE "hit"]
    BY <1>4 DEF ManageRisk
  <2>3. hit \in Hits \cup {NoHit}
    BY HitType
  <2>4. mon'.row = row
    BY <1>1, <2>2 DEF Monitor
  <2> HIDE DEF row, hit
  <2>5. mon' \in Monitor
    BY <1>1, <2>1, <2>2, <2>3, <2>4 DEF Monitor
  <2>6. QED
    BY <1>1, <1>4, <2>5 DEF ManageRisk
<1>5. CASE ClosePaperHit \/ ReadAutoExit \/ SubmitExit \/ CloseLiveHit \/ SendAlert
  <2>1. PICK pc \in {"exited", "exiting", "alert", "sold", "mark"} : mon' = [mon EXCEPT !.pc = pc]
    BY <1>5 DEF ClosePaperHit, ReadAutoExit, SubmitExit, CloseLiveHit, SendAlert
  <2>2. QED
    BY <1>1, <1>5, <2>1
       DEF Monitor, ClosePaperHit, ReadAutoExit, SubmitExit, CloseLiveHit, SendAlert
<1>6. QED
  BY <1>2, <1>3, <1>4, <1>5 DEF MonitorStep

LEMMA RequestTypes ==
    ASSUME TypeOK, RequestStep
    PROVE  req' \in [Closers \cup Editors -> Request]
<1>1. Resting \in Request /\ req \in [Closers \cup Editors -> Request]
  BY ThreadTypes DEF TypeOK
<1>2. PICK r \in Closers \cup Editors, new \in Request : req' = [req EXCEPT ![r] = new]
  <2>1. ASSUME NEW r \in Closers \cup Editors,
               SubmitClose(r) \/ RecordClose(r) \/ ApplyEdit(r)
        PROVE  \E new \in Request : req' = [req EXCEPT ![r] = new]
    <3>1. req[r] \in Request /\ [req[r] EXCEPT !.pc = "sold"] \in Request
      BY <1>1 DEF Request
    <3>2. QED
      BY <1>1, <2>1, <3>1 DEF SubmitClose, RecordClose, ApplyEdit
  <2>2. ASSUME NEW r \in Closers \cup Editors, NEW o \in Orders, BeginClose(r, o) \/ BeginEdit(r, o)
        PROVE  \E new \in Request : req' = [req EXCEPT ![r] = new]
    <3>1. rows[o] \in Row
      BY DEF TypeOK
    <3>2. /\ \A pc \in {"closing", "sold"} : [pc |-> pc, order |-> o, row |-> rows[o]] \in Request
          /\ [Resting EXCEPT !.pc = "editing", !.order = o] \in Request
      BY <3>1, AbsentFacts DEF Request, Resting
    <3>3. QED
      BY <2>2, <3>2 DEF BeginClose, BeginEdit
  <2>3. QED
    BY <2>1, <2>2 DEF RequestStep
<1>3. QED
  BY <1>1, <1>2

LEMMA BrokerCallTypes ==
    ASSUME TypeOK, NEW o \in Orders, NEW qty \in Int, NEW result, BrokerCall(o, qty, result)
    PROVE  held' \in [Orders -> Int] /\ lost' \in Nat
<1>1. held \in [Orders -> Int] /\ held[o] + qty \in Int /\ lost \in Nat
  BY DEF TypeOK
<1>2. QED
  BY <1>1 DEF BrokerCall

\* A signal's outcome is written by the monitor, for the order of its turn, or
\* by the user, for any order.
LEMMA SignalCases ==
    ASSUME Next
    PROVE  \/ SyncOutcome \/ (\E o \in Orders : SetOutcome(o))
           \/ outcome' = outcome /\ synced' = synced /\ marked' = marked
BY DEF Next, Place, PlacePaper, SubmitEntry, RecordEntry, SetAutoExit, MarketMoves, MonitorStep,
       ListPaper, ListLive, EndTick, PriceOrder, ManageRisk, ClosePaperHit, ReadAutoExit,
       SubmitExit, CloseLiveHit, SendAlert, SkipAlert, MarkAlertSent, RequestStep, BeginClose,
       SubmitClose, BeginEdit, RecordClose, ApplyEdit, Fault, TickFails, Crash, RequestFails,
       signals

LEMMA SignalTypes ==
    ASSUME SafetyInv, Next
    PROVE  /\ outcome' \in [Orders -> Outcomes]
           /\ synced' \in [Orders -> Hits \cup {Pending}]
           /\ marked' \in [Orders -> BOOLEAN]
<1>1. /\ outcome \in [Orders -> Outcomes] /\ synced \in [Orders -> Hits \cup {Pending}]
      /\ marked \in [Orders -> BOOLEAN] /\ MonitorInv
  BY DEF SafetyInv, ThreadInv, TypeOK
<1>2. CASE SyncOutcome
  <2>1. mon.hit \in Hits
    BY <1>1, <1>2 DEF SyncOutcome, MonitorInv
  <2>2. QED
    BY <1>1, <1>2, <2>1 DEF SyncOutcome, WriteOutcome, Outcomes
<1>3. CASE \E o \in Orders : SetOutcome(o)
  BY <1>1, <1>3, EnvironmentAssumption DEF SetOutcome, Outcomes, Pending
<1>4. QED
  BY <1>1, <1>2, <1>3, SignalCases

LEMMA TypeStep == ASSUME SafetyInv, Next PROVE TypeOK'
<1>1. /\ TypeOK /\ rows' \in [Orders -> Row]
      /\ outcome' \in [Orders -> Outcomes] /\ synced' \in [Orders -> Hits \cup {Pending}]
      /\ marked' \in [Orders -> BOOLEAN]
  BY RowsOfStep, SignalTypes DEF SafetyInv
<1>2. CASE MonitorStep
  <2>1. rows' \in [Orders -> Row]
    BY <1>1
  <2>2. /\ stage' = stage /\ market' = market /\ autoExit' = autoExit /\ req' = req
        /\ faults' = faults
    BY <1>2 DEF MonitorStep, ListPaper, ListLive, EndTick, PriceOrder, ManageRisk, ClosePaperHit,
                ReadAutoExit, SubmitExit, CloseLiveHit, SendAlert, SkipAlert, MarkAlertSent,
                SyncOutcome
  <2>3. held' \in [Orders -> Int] /\ lost' \in Nat /\ alerts' \in [Orders -> Nat]
    <3>1. CASE SubmitExit
      <4>1. mon.order \in Orders
        BY <3>1 DEF SubmitExit, SafetyInv, ThreadInv, MonitorInv, RequestInv
      <4>2. PICK result \in BrokerResults : BrokerCall(mon.order, -1, result)
        BY <3>1 DEF SubmitExit
      <4>3. held' \in [Orders -> Int] /\ lost' \in Nat
        BY <1>1, <4>1, <4>2, BrokerCallTypes
      <4>4. QED
        BY <1>1, <3>1, <4>3 DEF SubmitExit, TypeOK
    <3>2. CASE SendAlert
      <4>1. mon.order \in Orders /\ alerts[mon.order] + 1 \in Nat
        BY <3>2 DEF SendAlert, SafetyInv, ThreadInv, MonitorInv, RequestInv, TypeOK
      <4>2. QED
        BY <1>1, <3>2, <4>1 DEF TypeOK, SendAlert
    <3>3. CASE ~SubmitExit /\ ~SendAlert
      BY <1>1, <1>2, <3>3
         DEF TypeOK, MonitorStep, ListPaper, ListLive, EndTick, PriceOrder, ManageRisk,
             ClosePaperHit, ReadAutoExit, CloseLiveHit, SkipAlert, MarkAlertSent, SyncOutcome
    <3>4. QED
      BY <3>1, <3>2, <3>3
  <2>4. QED
    BY <1>1, <1>2, <2>1, <2>2, <2>3, MonitorTypes DEF TypeOK
<1>3. CASE RequestStep
  <2>1. held' \in [Orders -> Int] /\ lost' \in Nat
    <3>1. ASSUME NEW r \in Closers \cup Editors, SubmitClose(r)
          PROVE  held' \in [Orders -> Int] /\ lost' \in Nat
      <4>1. req[r].order \in Orders
        BY <3>1 DEF SubmitClose, SafetyInv, ThreadInv, MonitorInv, RequestInv
      <4>2. PICK result \in BrokerResults : BrokerCall(req[r].order, -1, result)
        BY <3>1 DEF SubmitClose
      <4>3. QED
        BY <1>1, <4>1, <4>2, BrokerCallTypes
    <3>2. CASE ~\E r \in Closers \cup Editors : SubmitClose(r)
      BY <1>1, <1>3, <3>2 DEF TypeOK, RequestStep, BeginClose, BeginEdit, RecordClose, ApplyEdit
    <3>3. QED
      BY <3>1, <3>2
  <2>2. UNCHANGED <<stage, alerts, market, autoExit, mon, seen, faults>>
    BY <1>3 DEF RequestStep, BeginClose, BeginEdit, SubmitClose, RecordClose, ApplyEdit
  <2>3. QED
    BY <1>1, <1>3, <2>1, <2>2, RequestTypes DEF TypeOK
<1>4. CASE Place
  BY <1>1, <1>4 DEF TypeOK, Place, PlacePaper, SubmitEntry, RecordEntry, BrokerCall
<1>5. CASE SetAutoExit \/ \E o \in Orders : MarketMoves(o) \/ SetOutcome(o)
  BY <1>1, <1>5, EnvironmentAssumption DEF TypeOK, SetAutoExit, MarketMoves, SetOutcome
<1>6. CASE Fault
  <2>1. mon' \in Monitor /\ seen' \in [Orders -> Row]
    <3>1. mon \in Monitor /\ seen \in [Orders -> Row] /\ Idle \in Monitor
      BY <1>1, ThreadTypes DEF TypeOK
    <3>2. [mon EXCEPT !.pc = "alert"] \in Monitor
      BY <3>1 DEF Monitor
    <3>3. QED
      BY <1>1, <1>6, <3>1, <3>2, ThreadTypes DEF Fault, TickFails, Crash, RequestFails
  <2>2. req' \in [Closers \cup Editors -> Request]
    BY <1>1, <1>6, ThreadTypes DEF Fault, TickFails, Crash, RequestFails, TypeOK
  <2>3. QED
    BY <1>1, <1>6, <2>1, <2>2 DEF Fault, TickFails, Crash, RequestFails, TypeOK
<1>7. QED
  BY <1>2, <1>3, <1>4, <1>5, <1>6 DEF Next

-----------------------------------------------------------------------------
(* The parts of SafetyInv, one by one.                                      *)

LEMMA PlacementStep == ASSUME SafetyInv, Next PROVE PlacementInv'
<1>1. TypeOK /\ PlacementInv
  BY DEF SafetyInv
<1>2. CASE RowsKept
  <2>1. rows' = rows
    BY <1>2, RowsKeptSame
  <2>2. ASSUME NEW p \in Orders
        PROVE  /\ stage[p] = "placed" => stage'[p] = "placed"
               /\ stage'[p] = "submitted" => IsLive(p)
    <3>1. CASE \E o \in Orders : SubmitEntry(o)
      BY <1>1, <3>1 DEF TypeOK, PlacementInv, SubmitEntry
    <3>2. CASE Crash
      BY <1>1, <3>2 DEF TypeOK, PlacementInv, Crash
    <3>3. CASE ~Crash /\ ~\E o \in Orders : SubmitEntry(o)
      <4>1. stage' = stage
        BY <1>2, <3>3
           DEF RowsKept, MarketMoves, SetOutcome, PriceOrder, SetAutoExit, ListPaper, ListLive, EndTick,
               SyncOutcome, ReadAutoExit, SubmitExit, SendAlert, SkipAlert, Fault, TickFails,
               RequestFails, SubmitClose, BeginClose, BeginEdit
      <4>2. QED
        BY <1>1, <4>1 DEF PlacementInv
    <3>4. QED
      BY <3>1, <3>2, <3>3
  <2>3. QED
    BY <1>1, <2>1, <2>2 DEF PlacementInv, Exists, IsLive
<1>3. ASSUME NEW o \in Orders, PlacePaper(o) \/ RecordEntry(o) PROVE PlacementInv'
  <2>1. stage' = [stage EXCEPT ![o] = "placed"]
    BY <1>3 DEF PlacePaper, RecordEntry
  <2>2. QED
    BY <1>1, <1>3, <2>1, PlaceRows DEF PlacementInv, Exists, IsLive, TypeOK
<1>4. ASSUME stage' = stage,
             \A p \in Orders : /\ Exists(p) <=> rows'[p].status # "absent"
                               /\ rows'[p].entry = rows[p].entry
                               /\ rows'[p].status = "open" =>
                                    rows[p].status = "open" /\ rows'[p].exit = rows[p].exit
                               /\ ~Exists(p) => rows'[p].exit = rows[p].exit
      PROVE  PlacementInv'
  BY <1>1, <1>4 DEF PlacementInv, Exists, IsLive
<1>5. CASE ManageRisk
  BY <1>1, <1>4, <1>5, ManageRiskRows DEF SameRow, Exists, ManageRisk
<1>6. ASSUME NEW o \in Orders, NEW reason, CloseEffect(o, reason), stage' = stage, Exists(o)
      PROVE  PlacementInv'
  BY <1>4, <1>6 DEF CloseEffect, Exists
<1>7. CASE ClosePaperHit \/ CloseLiveHit
  <2>1. stage' = stage /\ Exists(mon.order)
    BY <1>7 DEF ClosePaperHit, CloseLiveHit, SafetyInv, ThreadInv, MonitorInv, RequestInv
  <2>2. QED
    BY <1>6, <1>7, <2>1, MonitorCloses
<1>8. ASSUME NEW r \in Closers \cup Editors, RecordClose(r) PROVE PlacementInv'
  <2>1. stage' = stage /\ Exists(req[r].order)
    BY <1>8 DEF RecordClose, SafetyInv, ThreadInv, MonitorInv, RequestInv
  <2>2. QED
    BY <1>6, <1>8, <2>1, RequestCloses
<1>9. CASE MarkAlertSent \/ \E r \in Closers \cup Editors : ApplyEdit(r)
  BY <1>1, <1>4, <1>9, QuietRows DEF SameRow, Exists, MarkAlertSent, ApplyEdit
<1>10. QED
  BY <1>2, <1>3, <1>5, <1>7, <1>8, <1>9, NextCases

\* What a step does to the facts the threads rely on.
LEMMA ExistsStep ==
    ASSUME SafetyInv, Next, NEW o \in Orders
    PROVE  /\ Exists(o) => Exists(o)' /\ rows'[o].entry = rows[o].entry
           /\ IsClosed(o) => IsClosed(o)'
BY RowsOfStep DEF RowStep, Exists, IsClosed

LEMMA RequestInvStep == ASSUME SafetyInv, Next PROVE RequestInv'
<1>1. TypeOK /\ RequestInv
  BY DEF SafetyInv, ThreadInv
<1>2. SUFFICES ASSUME NEW r \in Closers \cup Editors, req'[r].pc # "idle"
               PROVE  /\ req'[r].order \in Orders /\ Exists(req'[r].order)
                      /\ req'[r].pc # "editing" => req'[r].row.entry = rows[req'[r].order].entry
                      /\ req'[r].pc = "closing" => IsLive(req'[r].order)
  <2>1. CASE \A r \in Closers \cup Editors : req'[r].pc # "idle" =>
                      /\ req'[r].order \in Orders /\ Exists(req'[r].order)
                      /\ req'[r].pc # "editing" => req'[r].row.entry = rows[req'[r].order].entry
                      /\ req'[r].pc = "closing" => IsLive(req'[r].order)
    <3>1. ASSUME NEW r \in Closers \cup Editors, req'[r].pc # "idle"
          PROVE  /\ req'[r].order \in Orders /\ rows'[req'[r].order].status # "absent"
                 /\ req'[r].pc # "editing" => req'[r].row.entry = rows'[req'[r].order].entry
                 /\ req'[r].pc = "closing" => IsLive(req'[r].order)
      <4> DEFINE o == req'[r].order
      <4>1. o \in Orders /\ Exists(o)
        BY <2>1, <3>1
      <4>2. rows'[o].status # "absent" /\ rows'[o].entry = rows[o].entry
        BY <4>1, ExistsStep DEF Exists
      <4>3. QED
        BY <2>1, <3>1, <4>1, <4>2
    <3>2. QED
      BY <3>1 DEF RequestInv, Exists, IsLive
  <2>2. QED
    BY <2>1
<1>3. CASE req' = req
  BY <1>1, <1>2, <1>3 DEF RequestInv
<1>4. ASSUME NEW c \in Closers \cup Editors, NEW o \in Orders, BeginClose(c, o) \/ BeginEdit(c, o)
      PROVE  req'[r] = req[r] \/
             (/\ r = c /\ req'[r].order = o /\ IsOpen(o)
              /\ \/ req'[r].pc = "editing"
                 \/ req'[r].row = rows[o] /\ (req'[r].pc = "closing" => IsLive(o)))
  <2>1. CASE r # c
    BY <1>1, <1>4, <2>1 DEF TypeOK, BeginClose, BeginEdit
  <2>2. CASE r = c /\ BeginClose(c, o)
    <3>1. req'[r] = [pc |-> IF IsLive(o) THEN "closing" ELSE "sold", order |-> o, row |-> rows[o]]
      BY <1>1, <2>2 DEF TypeOK, BeginClose
    <3>2. QED
      BY <2>2, <3>1 DEF BeginClose
  <2>3. CASE r = c /\ BeginEdit(c, o)
    <3>1. req'[r] = [Resting EXCEPT !.pc = "editing", !.order = o]
      BY <1>1, <2>3 DEF TypeOK, BeginEdit
    <3>2. QED
      BY <2>3, <3>1 DEF BeginEdit, Resting
  <2>4. QED
    BY <1>4, <2>1, <2>2, <2>3
<1>5. ASSUME NEW c \in Closers \cup Editors, SubmitClose(c) \/ RecordClose(c) \/ ApplyEdit(c) \/ RequestFails(c)
      PROVE  req'[r] = req[r] \/ (req'[r] = [req[r] EXCEPT !.pc = "sold"] /\ req[r].pc = "closing")
  BY <1>1, <1>2, <1>5 DEF TypeOK, SubmitClose, RecordClose, ApplyEdit, RequestFails, Resting
<1>6. CASE req'[r] = req[r]
  BY <1>1, <1>2, <1>6 DEF RequestInv
<1>7. CASE req'[r] = [req[r] EXCEPT !.pc = "sold"] /\ req[r].pc = "closing"
  BY <1>1, <1>2, <1>7 DEF RequestInv, TypeOK, Request
<1>8. CASE Crash
  BY <1>2, <1>8 DEF Crash, Resting
<1>9. ASSUME NEW c \in Closers \cup Editors, NEW o \in Orders, r = c, req'[r].order = o, IsOpen(o),
             \/ req'[r].pc = "editing"
             \/ req'[r].row = rows[o] /\ (req'[r].pc = "closing" => IsLive(o))
      PROVE  /\ req'[r].order \in Orders /\ Exists(req'[r].order)
             /\ req'[r].pc # "editing" => req'[r].row.entry = rows[req'[r].order].entry
             /\ req'[r].pc = "closing" => IsLive(req'[r].order)
  BY <1>9 DEF IsOpen, Exists
<1>10. CASE RequestStep
  BY <1>4, <1>5, <1>6, <1>7, <1>9, <1>10 DEF RequestStep
<1>11. CASE Fault
  <2>1. TickFails => req' = req
    BY DEF TickFails
  <2>2. QED
    BY <1>3, <1>5, <1>6, <1>7, <1>8, <1>11, <2>1 DEF Fault
<1>12. CASE Place \/ MonitorStep \/ SetAutoExit \/ \E o \in Orders : MarketMoves(o) \/ SetOutcome(o)
  <2>1. req' = req
    BY <1>12 DEF Place, PlacePaper, SubmitEntry, RecordEntry, SetAutoExit, MarketMoves, SetOutcome,
         MonitorStep, ListPaper, ListLive, EndTick, PriceOrder, ManageRisk, ClosePaperHit,
         SyncOutcome, ReadAutoExit, SubmitExit, CloseLiveHit, SendAlert, SkipAlert, MarkAlertSent
  <2>2. QED
    BY <1>3, <2>1
<1>13. QED
  BY <1>10, <1>11, <1>12 DEF Next

\* The steps that move neither the monitor nor its list.
MonitorRests ==
    \/ Place \/ RequestStep \/ SetAutoExit \/ \E o \in Orders : MarketMoves(o) \/ SetOutcome(o)
    \/ \E r \in Closers \cup Editors : RequestFails(r)

LEMMA MonitorRestsSame == MonitorRests => mon' = mon /\ seen' = seen
BY DEF MonitorRests, Place, PlacePaper, SubmitEntry, RecordEntry, RequestStep, BeginClose,
       BeginEdit, SubmitClose, RecordClose, ApplyEdit, SetAutoExit, MarketMoves, SetOutcome, RequestFails

\* The steps that only move the monitor on within the order it works on.
Within ==
    \/ ManageRisk \/ ClosePaperHit \/ ReadAutoExit \/ SubmitExit \/ CloseLiveHit
    \/ SendAlert \/ (TickFails /\ mon.pc \in {"exiting", "sold"})

LEMMA WithinSame ==
    ASSUME SafetyInv, Within
    PROVE  /\ mon.pc \notin {"idle", "loop"} /\ mon'.pc \notin {"idle", "loop"}
           /\ seen' = seen
           /\ mon'.order = mon.order /\ mon'.mode = mon.mode /\ mon'.price = mon.price
           /\ mon'.row.entry = mon.row.entry
           /\ ~ManageRisk => mon'.hit = mon.hit /\ mon'.row = mon.row
<1>1. mon \in Monitor /\ TypeOK
  BY DEF SafetyInv, TypeOK
<1>2. CASE ManageRisk
  <2>1. mon'.row.entry = mon.row.entry
    BY <1>1, <1>2, ManageRiskRows
  <2>2. QED
    BY <1>1, <1>2, <2>1 DEF ManageRisk, Monitor
<1>3. CASE ~ManageRisk
  BY <1>1, <1>3 DEF Within, Monitor, ClosePaperHit, ReadAutoExit, SubmitExit, CloseLiveHit,
                    SendAlert, TickFails
<1>4. QED
  BY <1>2, <1>3

LEMMA MonitorCases ==
    ASSUME Next
    PROVE  \/ MonitorRests \/ Within
           \/ ListPaper \/ ListLive \/ EndTick \/ \E o \in Orders : PriceOrder(o)
           \/ SyncOutcome \/ SkipAlert \/ MarkAlertSent
           \/ Crash \/ (TickFails /\ mon.pc \notin {"exiting", "sold"})
<1>1. CASE MonitorStep
  BY <1>1 DEF MonitorStep, Within
<1>2. CASE Fault
  <2>1. CASE TickFails
    BY <2>1 DEF Within
  <2>2. CASE Crash \/ \E r \in Closers \cup Editors : RequestFails(r)
    BY <2>2 DEF MonitorRests
  <2>3. QED
    BY <1>2, <2>1, <2>2 DEF Fault
<1>3. QED
  BY <1>1, <1>2 DEF Next, MonitorRests

LEMMA SeenInvStep == ASSUME SafetyInv, Next PROVE SeenInv'
<1>1. TypeOK /\ SeenInv /\ MonitorInv
  BY DEF SafetyInv, ThreadInv
<1>2. SUFFICES ASSUME NEW o \in Orders, seen'[o].status = "open"
               PROVE  /\ Exists(o) /\ seen'[o].entry = rows[o].entry
                      /\ IsLive(o) <=> mon'.mode = "live"
                      /\ mon'.pc # "idle"
  BY ExistsStep DEF SeenInv, Exists, IsLive
<1>3. ASSUME seen'[o] = seen[o], mon'.mode = mon.mode, mon'.pc # "idle"
      PROVE  /\ Exists(o) /\ seen'[o].entry = rows[o].entry
             /\ IsLive(o) <=> mon'.mode = "live"
             /\ mon'.pc # "idle"
  BY <1>1, <1>2, <1>3 DEF SeenInv
<1>4. CASE MonitorRests
  BY <1>1, <1>2, <1>4, MonitorRestsSame DEF SeenInv
<1>5. CASE Within
  BY <1>3, <1>5, WithinSame
<1>6. CASE ListPaper \/ ListLive
  <2>1. PICK mode \in {"paper", "live"} : mon' = Loop(mode) /\ seen' = Listed(mode = "live")
    BY <1>6 DEF ListPaper, ListLive
  <2>2. mon'.mode = mode /\ mon'.pc = "loop"
    BY <2>1 DEF Loop, Idle
  <2>3. IsOpen(o) /\ (IsLive(o) <=> mode = "live") /\ seen'[o] = rows[o]
    BY <1>2, <2>1, AbsentFacts DEF Listed
  <2>4. QED
    BY <2>2, <2>3 DEF IsOpen, Exists
<1>7. CASE EndTick
  BY <1>2, <1>7 DEF EndTick, ToDo
<1>8. ASSUME NEW p \in Orders, PriceOrder(p)
      PROVE  seen'[o] = seen[o] /\ mon'.mode = mon.mode /\ mon'.pc # "idle"
  <2>1. o # p /\ seen'[o] = seen[o]
    BY <1>1, <1>2, <1>8, AbsentFacts DEF PriceOrder, TypeOK
  <2>2. mon'.mode = mon.mode /\ mon'.pc # "idle"
    BY <1>1, <1>8 DEF PriceOrder, TypeOK, Monitor
  <2>3. QED
    BY <2>1, <2>2
<1>9. CASE SyncOutcome \/ SkipAlert \/ MarkAlertSent
  <2>1. mon' = Loop(mon.mode) /\ seen' = seen
    BY <1>9 DEF SyncOutcome, SkipAlert, MarkAlertSent
  <2>2. mon'.mode = mon.mode /\ mon'.pc # "idle"
    BY <1>1, <2>1 DEF Loop, Idle, TypeOK, Monitor
  <2>3. QED
    BY <1>3, <2>1, <2>2
<1>10. CASE Crash \/ (TickFails /\ mon.pc \notin {"exiting", "sold"})
  <2>1. seen' = NothingSeen
    BY <1>10 DEF Crash, TickFails
  <2>2. QED
    BY <1>2, <2>1, AbsentFacts DEF NothingSeen
<1>11. QED
  BY <1>3, <1>4, <1>5, <1>6, <1>7, <1>8, <1>9, <1>10, MonitorCases

LEMMA MonitorInvStep == ASSUME SafetyInv, Next PROVE MonitorInv'
<1>1. TypeOK /\ SeenInv /\ MonitorInv
  BY DEF SafetyInv, ThreadInv
<1>2. CASE mon'.pc \in {"idle", "loop"}
  BY <1>2 DEF MonitorInv
<1>3. CASE MonitorRests
  <2>1. mon' = mon /\ seen' = seen
    BY <1>3, MonitorRestsSame
  <2>2. mon.pc \notin {"idle", "loop"} =>
            rows'[mon.order].status # "absent" /\ rows'[mon.order].entry = rows[mon.order].entry
    BY <1>1, ExistsStep DEF MonitorInv, Exists
  <2>3. mon.pc = "exited" => rows'[mon.order].status \notin {"absent", "open"}
    BY <1>1, ExistsStep DEF MonitorInv, IsClosed
  <2>4. QED
    BY <1>1, <2>1, <2>2, <2>3 DEF MonitorInv, Exists, IsClosed, IsLive
<1>4. CASE Within
  <2>1. /\ mon.order \in Orders /\ Exists(mon.order)' /\ mon'.order = mon.order
        /\ mon'.row.entry = rows'[mon.order].entry
        /\ seen'[mon.order].status # "open"
        /\ IsLive(mon.order) <=> mon'.mode = "live"
        /\ mon'.price \in Prices
    BY <1>1, <1>4, WithinSame, ExistsStep DEF MonitorInv, Exists
  <2>2. mon'.pc \in {"hit", "exiting", "sold", "exited"} => mon'.hit \in Hits
    <3>1. CASE ManageRisk
      BY <1>1, <3>1, HitType DEF ManageRisk, TypeOK, Monitor
    <3>2. CASE ~ManageRisk
      BY <1>1, <1>4, <3>2, WithinSame
         DEF Within, MonitorInv, ClosePaperHit, ReadAutoExit, SubmitExit, CloseLiveHit,
             SendAlert, TickFails, TypeOK, Monitor
    <3>3. QED
      BY <3>1, <3>2
  <2>3. mon'.pc \in {"exiting", "sold"} => mon'.mode = "live"
    BY <1>1, <1>4, WithinSame
       DEF Within, MonitorInv, ManageRisk, ClosePaperHit, ReadAutoExit, SubmitExit, CloseLiveHit,
           SendAlert, TickFails, TypeOK, Monitor
  <2>4. mon'.pc = "exited" => rows'[mon.order].status \notin {"absent", "open"}
    <3>1. CASE ClosePaperHit \/ CloseLiveHit
      BY <3>1, MonitorCloses DEF CloseEffect
    <3>2. CASE ~(ClosePaperHit \/ CloseLiveHit)
      BY <1>1, <1>4, <3>2
         DEF Within, ManageRisk, ReadAutoExit, SubmitExit, SendAlert, TickFails, TypeOK, Monitor
    <3>3. QED
      BY <3>1, <3>2
  <2>5. QED
    BY <2>1, <2>2, <2>3, <2>4 DEF MonitorInv, Exists, IsClosed, IsLive
<1>5. ASSUME NEW o \in Orders, PriceOrder(o), mon'.pc \notin {"idle", "loop"} PROVE MonitorInv'
  <2>1. /\ mon'.pc = "priced" /\ mon'.order = o /\ mon'.row = seen[o] /\ mon'.price = market[o]
        /\ mon'.mode = mon.mode /\ market[o] # None
    BY <1>1, <1>5 DEF PriceOrder, TypeOK, Monitor
  <2>2. seen[o].status = "open" /\ seen'[o].status # "open"
    BY <1>1, <1>5, AbsentFacts DEF PriceOrder, ToDo, TypeOK
  <2>3. Exists(o) /\ seen[o].entry = rows[o].entry /\ (IsLive(o) <=> mon.mode = "live")
    BY <1>1, <2>2 DEF SeenInv
  <2>4. rows' = rows /\ market[o] \in Prices
    BY <1>1, <1>5, <2>1 DEF PriceOrder, TypeOK
  <2>5. QED
    BY <2>1, <2>2, <2>3, <2>4 DEF MonitorInv, Exists, IsLive
<1>6. CASE \/ ListPaper \/ ListLive \/ EndTick \/ SyncOutcome \/ SkipAlert \/ MarkAlertSent
           \/ Crash \/ (TickFails /\ mon.pc \notin {"exiting", "sold"})
  <2>1. mon' \in {Idle, Loop("paper"), Loop("live"), Loop(mon.mode)}
    BY <1>6 DEF ListPaper, ListLive, EndTick, SyncOutcome, SkipAlert, MarkAlertSent, Crash, TickFails
  <2>2. Idle.pc = "idle" /\ \A mode : Loop(mode).pc = "loop"
    BY DEF Loop, Idle
  <2>3. mon'.pc \in {"idle", "loop"}
    BY <2>1, <2>2
  <2>4. QED
    BY <1>2, <2>3
<1>7. QED
  BY <1>2, <1>3, <1>4, <1>5, <1>6, MonitorCases

-----------------------------------------------------------------------------
(* The real positions: what a step does to them, and what it takes for a    *)
(* thread to have sold one or for a row to be closed.                       *)

LEMMA HeldStep ==
    ASSUME SafetyInv, Next, NEW o \in Orders
    PROVE  \/ held'[o] <= held[o]
           \/ SubmitEntry(o) /\ held'[o] <= held[o] + 1
<1>1. TypeOK /\ held[o] \in Int
  BY DEF SafetyInv, TypeOK
<1>2. ASSUME NEW p, NEW qty, NEW result, BrokerCall(p, qty, result)
      PROVE  held'[o] = held[o] \/ (o = p /\ held'[o] = held[o] + qty)
  BY <1>1, <1>2 DEF BrokerCall, TypeOK
<1>3. CASE SubmitExit
  <2>1. PICK result \in BrokerResults : BrokerCall(mon.order, -1, result)
    BY <1>3 DEF SubmitExit
  <2>2. held'[o] = held[o] \/ held'[o] = held[o] + (-1)
    BY <1>2, <2>1
  <2>3. QED
    BY <1>1, <2>2
<1>4. ASSUME NEW r \in Closers \cup Editors, SubmitClose(r) PROVE held'[o] <= held[o]
  <2>1. PICK result \in BrokerResults : BrokerCall(req[r].order, -1, result)
    BY <1>4 DEF SubmitClose
  <2>2. held'[o] = held[o] \/ held'[o] = held[o] + (-1)
    BY <1>2, <2>1
  <2>3. QED
    BY <1>1, <2>2
<1>5. ASSUME NEW p \in Orders, SubmitEntry(p)
      PROVE  held'[o] <= held[o] \/ (SubmitEntry(o) /\ held'[o] <= held[o] + 1)
  <2>1. PICK result \in BrokerResults : BrokerCall(p, 1, result)
    BY <1>5 DEF SubmitEntry
  <2>2. held'[o] = held[o] \/ (o = p /\ held'[o] = held[o] + 1)
    BY <1>2, <2>1
  <2>3. QED
    BY <1>1, <1>5, <2>2
<1>6. CASE /\ ~SubmitExit /\ ~\E p \in Orders : SubmitEntry(p)
           /\ ~\E r \in Closers \cup Editors : SubmitClose(r)
  <2>1. held' = held
    BY <1>6 DEF Next, Place, PlacePaper, RecordEntry, SetAutoExit, MarketMoves, SetOutcome, MonitorStep,
         ListPaper, ListLive, EndTick, PriceOrder, ManageRisk, ClosePaperHit, SyncOutcome,
         ReadAutoExit, CloseLiveHit, SendAlert, SkipAlert, MarkAlertSent, RequestStep, BeginClose,
         BeginEdit, RecordClose, ApplyEdit, Fault, TickFails, Crash, RequestFails
  <2>2. QED
    BY <1>1, <2>1
<1>7. QED
  BY <1>3, <1>4, <1>5, <1>6

\* The monitor has sold an order: it had before, or a filled exit did.
LEMMA MonitorSold ==
    ASSUME SafetyInv, Next, mon'.pc = "sold"
    PROVE  \/ mon.pc = "sold" /\ mon'.order = mon.order
           \/ /\ mon.pc = "exiting" /\ mon'.order = mon.order
              /\ held'[mon.order] = held[mon.order] - 1
<1>1. TypeOK /\ MonitorInv /\ mon \in Monitor
  BY DEF SafetyInv, ThreadInv, TypeOK
<1>2. CASE MonitorRests
  BY <1>2, MonitorRestsSame
<1>3. CASE SubmitExit
  <2>1. PICK result \in BrokerResults :
            /\ BrokerCall(mon.order, -1, result)
            /\ mon' = [mon EXCEPT !.pc = IF result = "filled" THEN "sold" ELSE "alert"]
    BY <1>3 DEF SubmitExit
  <2>2. result = "filled" /\ mon.pc = "exiting" /\ mon'.order = mon.order
    BY <1>1, <1>3, <2>1 DEF SubmitExit, Monitor
  <2>3. mon.order \in Orders
    BY <1>1, <2>2 DEF MonitorInv
  <2>4. held' = [held EXCEPT ![mon.order] = @ + (-1)]
    BY <2>1, <2>2 DEF BrokerCall
  <2>5. QED
    BY <1>1, <2>2, <2>3, <2>4 DEF TypeOK
<1>4. CASE ~SubmitExit /\ Within
  BY <1>1, <1>4 DEF Within, Monitor, ManageRisk, ClosePaperHit, ReadAutoExit, CloseLiveHit,
                    SendAlert, TickFails
<1>5. ASSUME NEW o \in Orders, PriceOrder(o) PROVE FALSE
  BY <1>1, <1>5 DEF PriceOrder, Monitor
<1>6. CASE \/ ListPaper \/ ListLive \/ EndTick \/ SyncOutcome \/ SkipAlert \/ MarkAlertSent
           \/ Crash \/ (TickFails /\ mon.pc \notin {"exiting", "sold"})
  <2>1. mon' \in {Idle, Loop("paper"), Loop("live"), Loop(mon.mode)}
    BY <1>6 DEF ListPaper, ListLive, EndTick, SyncOutcome, SkipAlert, MarkAlertSent, Crash, TickFails
  <2>2. Idle.pc = "idle" /\ \A mode : Loop(mode).pc = "loop"
    BY DEF Loop, Idle
  <2>3. QED
    BY <2>1, <2>2
<1>7. QED
  BY <1>2, <1>3, <1>4, <1>5, <1>6, MonitorCases

\* A request has sold a live order: it had before, or a filled exit did.
LEMMA RequestSold ==
    ASSUME SafetyInv, Next, NEW r \in Closers \cup Editors, req'[r].pc = "sold",
           IsLive(req'[r].order)
    PROVE  \/ req[r].pc = "sold" /\ req'[r].order = req[r].order
           \/ /\ req[r].pc = "closing" /\ req'[r].order = req[r].order
              /\ held'[req[r].order] = held[req[r].order] - 1
<1>1. TypeOK /\ RequestInv /\ req \in [Closers \cup Editors -> Request]
  BY DEF SafetyInv, ThreadInv, TypeOK
<1>2. ASSUME NEW c \in Closers \cup Editors, SubmitClose(c), r = c
      PROVE  /\ req[r].pc = "closing" /\ req'[r].order = req[r].order
             /\ held'[req[r].order] = held[req[r].order] - 1
  <2>1. PICK result \in BrokerResults :
            /\ BrokerCall(req[r].order, -1, result)
            /\ req' = [req EXCEPT ![r] = IF result = "filled" THEN [@ EXCEPT !.pc = "sold"]
                                                              ELSE Resting]
    BY <1>2 DEF SubmitClose
  <2>2. result = "filled"
    BY <1>1, <2>1 DEF Resting
  <2>3. req[r].pc = "closing" /\ req'[r] = [req[r] EXCEPT !.pc = "sold"]
    BY <1>1, <1>2, <2>1, <2>2 DEF SubmitClose
  <2>4. req[r].order \in Orders /\ req'[r].order = req[r].order
    BY <1>1, <2>3 DEF RequestInv, Request
  <2>5. held' = [held EXCEPT ![req[r].order] = @ + (-1)]
    BY <2>1, <2>2 DEF BrokerCall
  <2>6. QED
    BY <1>1, <2>3, <2>4, <2>5 DEF TypeOK
<1>3. ASSUME NEW c \in Closers \cup Editors, r # c,
             \/ SubmitClose(c) \/ RecordClose(c) \/ ApplyEdit(c) \/ RequestFails(c)
             \/ \E o \in Orders : BeginClose(c, o) \/ BeginEdit(c, o)
      PROVE  req'[r] = req[r]
  BY <1>1, <1>3 DEF SubmitClose, RecordClose, ApplyEdit, RequestFails, BeginClose, BeginEdit
<1>4. ASSUME RecordClose(r) \/ ApplyEdit(r) \/ RequestFails(r) PROVE FALSE
  BY <1>1, <1>4 DEF RecordClose, ApplyEdit, RequestFails, Resting
<1>5. ASSUME NEW o \in Orders, BeginClose(r, o) PROVE FALSE
  <2>1. req'[r] = [pc |-> IF IsLive(o) THEN "closing" ELSE "sold", order |-> o, row |-> rows[o]]
    BY <1>1, <1>5 DEF BeginClose
  <2>2. QED
    BY <2>1
<1>6. ASSUME NEW o \in Orders, BeginEdit(r, o) PROVE FALSE
  <2>1. req'[r] = [Resting EXCEPT !.pc = "editing", !.order = o]
    BY <1>1, <1>6 DEF BeginEdit
  <2>2. QED
    BY <2>1 DEF Resting
<1>7. CASE RequestStep
  BY <1>2, <1>3, <1>4, <1>5, <1>6, <1>7 DEF RequestStep
<1>8. CASE Crash
  BY <1>8 DEF Crash, Resting
<1>9. CASE \E c \in Closers \cup Editors : RequestFails(c)
  BY <1>3, <1>4, <1>9
<1>10. CASE TickFails \/ Place \/ MonitorStep \/ SetAutoExit \/ \E o \in Orders : MarketMoves(o) \/ SetOutcome(o)
  BY <1>10 DEF Place, PlacePaper, SubmitEntry, RecordEntry, SetAutoExit, MarketMoves, SetOutcome,
       MonitorStep, ListPaper, ListLive, EndTick, PriceOrder, ManageRisk, ClosePaperHit,
       SyncOutcome, ReadAutoExit, SubmitExit, CloseLiveHit, SendAlert, SkipAlert, MarkAlertSent,
       TickFails
<1>11. QED
  BY <1>7, <1>8, <1>9, <1>10 DEF Next, Fault

\* A row is closed: it was before, or one of the three closing steps closed it.
LEMMA ClosedStep ==
    ASSUME SafetyInv, Next, NEW o \in Orders, rows'[o].status \notin {"absent", "open"}
    PROVE  \/ IsClosed(o)
           \/ (ClosePaperHit \/ CloseLiveHit) /\ mon.order = o
           \/ \E r \in Closers \cup Editors : RecordClose(r) /\ req[r].order = o
<1>1. TypeOK /\ PlacementInv
  BY DEF SafetyInv
<1>2. CASE RowsKept
  BY <1>2, RowsKeptSame DEF IsClosed
<1>3. ASSUME NEW p \in Orders, PlacePaper(p) \/ RecordEntry(p) PROVE IsClosed(o)
  BY <1>1, <1>3, PlaceRows DEF IsClosed
<1>4. CASE ManageRisk
  BY <1>1, <1>4, ManageRiskRows DEF SameRow, IsClosed
<1>5. CASE ClosePaperHit \/ CloseLiveHit
  BY <1>5, MonitorCloses DEF CloseEffect, IsClosed
<1>6. ASSUME NEW r \in Closers \cup Editors, RecordClose(r)
      PROVE  IsClosed(o) \/ req[r].order = o
  BY <1>6, RequestCloses DEF CloseEffect, IsClosed
<1>7. CASE MarkAlertSent \/ \E r \in Closers \cup Editors : ApplyEdit(r)
  BY <1>1, <1>7, QuietRows DEF SameRow, IsClosed
<1>8. QED
  BY <1>2, <1>3, <1>4, <1>5, <1>6, <1>7, NextCases

LEMMA HeldInvStep == ASSUME SafetyInv, Next PROVE HeldInv'
<1>1. TypeOK /\ PlacementInv /\ MonitorInv /\ RequestInv /\ HeldInv
  BY DEF SafetyInv, ThreadInv
<1>2. SUFFICES ASSUME NEW o \in Orders
               PROVE  /\ held'[o] <= 1
                      /\ stage'[o] = "new" => held'[o] <= 0
                      /\ IsLive(o) =>
                           /\ mon'.order = o /\ mon'.pc = "sold" => held'[o] <= 0
                           /\ \A r \in Closers \cup Editors :
                                req'[r].order = o /\ req'[r].pc = "sold" => held'[o] <= 0
                           /\ rows'[o].status \notin {"absent", "open"} => held'[o] <= 0
  BY DEF HeldInv, IsClosed, IsLive
<1>3. held[o] \in Int /\ held'[o] \in Int
  BY <1>1, TypeStep DEF TypeOK, SafetyInv
<1>4. held[o] <= 1 /\ (stage[o] = "new" => held[o] <= 0)
  BY <1>1 DEF HeldInv
<1>5. CASE SubmitEntry(o)
  <2>1. /\ stage[o] = "new" /\ ~Exists(o)
        /\ mon' = mon /\ req' = req /\ rows' = rows /\ stage'[o] # "new"
    BY <1>1, <1>5 DEF SubmitEntry, PlacementInv, TypeOK
  <2>2. held'[o] <= 1
    BY <1>3, <1>4, <2>1, HeldStep
  <2>3. ~(mon.order = o /\ mon.pc = "sold")
    BY <1>1, <2>1 DEF MonitorInv
  <2>4. \A r \in Closers \cup Editors : ~(req[r].order = o /\ req[r].pc = "sold")
    BY <1>1, <2>1 DEF RequestInv
  <2>5. QED
    BY <2>1, <2>2, <2>3, <2>4 DEF Exists
<1>6. CASE ~SubmitEntry(o)
  <2>1. held'[o] <= held[o]
    BY <1>6, HeldStep
  <2>2. stage'[o] = "new" => stage[o] = "new"
    BY <1>1 DEF TypeOK, Next, Place, PlacePaper, SubmitEntry, RecordEntry, SetAutoExit,
         MarketMoves, SetOutcome, MonitorStep,
         ListPaper, ListLive, EndTick, PriceOrder, ManageRisk, ClosePaperHit, SyncOutcome,
         ReadAutoExit, SubmitExit, CloseLiveHit, SendAlert, SkipAlert, MarkAlertSent, RequestStep,
         BeginClose, SubmitClose, BeginEdit, RecordClose, ApplyEdit, Fault, TickFails, Crash,
         RequestFails
  <2>3. ASSUME IsLive(o), mon'.order = o, mon'.pc = "sold" PROVE held'[o] <= 0
    <3>1. CASE mon.pc = "sold" /\ mon.order = o
      BY <1>1, <1>3, <2>1, <2>3, <3>1 DEF HeldInv
    <3>2. CASE mon.order = o /\ held'[o] = held[o] - 1
      BY <1>3, <1>4, <3>2
    <3>3. QED
      BY <2>3, <3>1, <3>2, MonitorSold
  <2>4. ASSUME IsLive(o), NEW r \in Closers \cup Editors, req'[r].order = o, req'[r].pc = "sold"
        PROVE  held'[o] <= 0
    <3>1. CASE req[r].pc = "sold" /\ req[r].order = o
      BY <1>1, <1>3, <2>1, <2>4, <3>1 DEF HeldInv
    <3>2. CASE req[r].order = o /\ held'[o] = held[o] - 1
      BY <1>3, <1>4, <3>2
    <3>3. QED
      BY <2>4, <3>1, <3>2, RequestSold
  <2>5. ASSUME IsLive(o), rows'[o].status \notin {"absent", "open"} PROVE held'[o] <= 0
    <3>1. CASE IsClosed(o)
      BY <1>1, <1>3, <2>1, <2>5, <3>1 DEF HeldInv
    <3>2. CASE ClosePaperHit /\ mon.order = o
      BY <1>1, <2>5, <3>2 DEF ClosePaperHit, MonitorInv
    <3>3. CASE CloseLiveHit /\ mon.order = o
      BY <1>1, <1>3, <2>1, <2>5, <3>3 DEF CloseLiveHit, HeldInv
    <3>4. ASSUME NEW r \in Closers \cup Editors, RecordClose(r), req[r].order = o
          PROVE  held'[o] <= 0
      BY <1>1, <1>3, <2>1, <2>5, <3>4 DEF RecordClose, HeldInv
    <3>5. QED
      BY <2>5, <3>1, <3>2, <3>3, <3>4, ClosedStep
  <2>6. QED
    BY <1>3, <1>4, <2>1, <2>2, <2>3, <2>4, <2>5
<1>7. QED
  BY <1>5, <1>6

LEMMA OutcomeStep == ASSUME SafetyInv, Next PROVE OutcomeOnlyOfClosed'
<1>1. TypeOK /\ MonitorInv /\ OutcomeOnlyOfClosed
  BY DEF SafetyInv, ThreadInv
<1>2. SUFFICES ASSUME NEW o \in Orders, outcome'[o] # Pending, ~marked'[o], ~IsClosed(o)
               PROVE  FALSE
  BY ExistsStep DEF OutcomeOnlyOfClosed, IsClosed
<1>3. CASE SyncOutcome
  BY <1>1, <1>2, <1>3 DEF SyncOutcome, WriteOutcome, OutcomeOnlyOfClosed, MonitorInv, TypeOK
<1>4. CASE \E u \in Orders : SetOutcome(u)
  BY <1>1, <1>2, <1>4 DEF SetOutcome, OutcomeOnlyOfClosed, TypeOK
<1>5. CASE outcome' = outcome /\ marked' = marked
  BY <1>1, <1>2, <1>5 DEF OutcomeOnlyOfClosed
<1>6. QED
  BY <1>3, <1>4, <1>5, SignalCases

-----------------------------------------------------------------------------
(* The safety theorems.                                                     *)

LEMMA InitSafe == Init => SafetyInv
<1> SUFFICES ASSUME Init PROVE SafetyInv
  OBVIOUS
<1>1. /\ Absent \in Row /\ Absent.status = "absent" /\ Absent.exit = None
      /\ \A o \in Orders : rows[o] = Absent /\ seen[o] = Absent
  BY AbsentFacts DEF Init, NothingSeen, Absent
<1>2. mon.pc = "idle" /\ mon.order = NoOrder /\ \A r \in Closers \cup Editors : req[r].pc = "idle"
  BY DEF Init, Idle, Resting
<1>3. mon \in Monitor /\ \A r \in Closers \cup Editors : req[r] \in Request
  BY AbsentFacts DEF Init, Idle, Resting, Monitor, Request, Hits
<1>4. TypeOK
  BY <1>1, <1>3, EnvironmentAssumption DEF Init, TypeOK, NothingSeen, Outcomes
<1>5. PlacementInv
  BY <1>1 DEF Init, PlacementInv, Exists
<1>6. ThreadInv
  BY <1>1, <1>2 DEF ThreadInv, SeenInv, MonitorInv, RequestInv
<1>7. HeldInv
  BY <1>1, <1>2 DEF Init, HeldInv, IsClosed
<1>8. OutcomeOnlyOfClosed
  BY DEF Init, OutcomeOnlyOfClosed
<1>9. QED
  BY <1>4, <1>5, <1>6, <1>7, <1>8 DEF SafetyInv

LEMMA StutterSafe == SafetyInv /\ UNCHANGED vars => SafetyInv'
<1> SUFFICES ASSUME SafetyInv, UNCHANGED vars PROVE SafetyInv'
  OBVIOUS
<1>1. TypeOK' /\ PlacementInv' /\ OutcomeOnlyOfClosed'
  BY DEF SafetyInv, TypeOK, PlacementInv, OutcomeOnlyOfClosed, IsClosed, IsLive, Exists, vars,
         signals
<1>2. ThreadInv' /\ HeldInv'
  BY DEF SafetyInv, ThreadInv, SeenInv, MonitorInv, RequestInv, HeldInv, IsClosed, IsLive,
         Exists, vars
<1>3. QED
  BY <1>1, <1>2 DEF SafetyInv

LEMMA NextSafe == SafetyInv /\ [Next]_vars => SafetyInv'
<1>1. ASSUME SafetyInv, Next PROVE SafetyInv'
  <2>1. ThreadInv'
    BY <1>1, SeenInvStep, MonitorInvStep, RequestInvStep DEF ThreadInv
  <2>2. QED
    BY <1>1, <2>1, TypeStep, PlacementStep, HeldInvStep, OutcomeStep DEF SafetyInv
<1>2. QED
  BY <1>1, StutterSafe

\* The inductive invariant: what the threads hold matches the table and the broker.
THEOREM SafetyHolds == Spec => []SafetyInv
<1>1. QED
  BY InitSafe, NextSafe, PTL DEF Spec

\* Every variable stays in its type, for any orders, threads, terms and prices.
THEOREM TypeCorrect == Spec => []TypeOK
<1>1. SafetyInv => TypeOK
  BY DEF SafetyInv
<1>2. QED
  BY <1>1, SafetyHolds, PTL

\* The monitor never gives a signal an outcome while its position is open: an open
\* position's signal has one only if the user set it.
THEOREM OutcomesAreFinal == Spec => []OutcomeOnlyOfClosed
<1>1. SafetyInv => OutcomeOnlyOfClosed
  BY DEF SafetyInv
<1>2. QED
  BY <1>1, SafetyHolds, PTL

\* A live row is never closed with its real position still open at the broker.
THEOREM LiveClosesAreReal == Spec => []ClosedLiveWasOffset
<1>1. SafetyInv => ClosedLiveWasOffset
  BY OrdersAssumption DEF SafetyInv, HeldInv, ClosedLiveWasOffset, IsLive
<1>2. QED
  BY <1>1, SafetyHolds, PTL

-----------------------------------------------------------------------------
(* The stop only tightens: the Risk Manager rounds a stop it found better   *)
(* than the old one, and rounding never crosses a whole-paise stop.         *)

LEMMA ReplaceTightens ==
    ASSUME NEW side \in Sides, NEW candidate \in Int, NEW sl \in Int, OnGrid(sl),
           Better(side, candidate, sl)
    PROVE  OnGrid(Round(candidate)) /\ AtLeastAsTight(side, Round(candidate), sl)
<1>1. Round(candidate) \in Int
  BY DEF Round, Tick
<1>2. Round(candidate) % Tick = 0 /\ Round(candidate) # None
  BY DEF Round, Tick, None
<1>3. CASE sl = None
  BY <1>2, <1>3 DEF OnGrid, AtLeastAsTight
<1>4. CASE sl # None
  <2>1. sl % Tick = 0
    BY <1>4 DEF OnGrid
  <2>2. /\ side = "buy" => candidate >= sl
        /\ side = "sell" => candidate <= sl
    BY <1>4 DEF Better, Beyond, Sides
  <2>3. /\ side = "buy" => Round(candidate) >= sl
        /\ side = "sell" => Round(candidate) <= sl
    BY <2>1, <2>2, RoundAtGrid
  <2>4. QED
    BY <1>1, <1>2, <1>4, <2>3 DEF OnGrid, AtLeastAsTight, Beyond, Sides
<1>5. QED
  BY <1>3, <1>4

LEMMA TightensTransitive ==
    ASSUME NEW side \in Sides, NEW a \in Int, NEW b \in Int, NEW c \in Int,
           AtLeastAsTight(side, a, b), AtLeastAsTight(side, b, c)
    PROVE  AtLeastAsTight(side, a, c)
BY DEF AtLeastAsTight, Beyond, Sides

LEMMA ApplyRiskTightens ==
    ASSUME NEW row \in Row, NEW price \in Int, OnGrid(row.sl)
    PROVE  /\ OnGrid(ApplyRisk(row, price).sl)
           /\ AtLeastAsTight(row.side, ApplyRisk(row, price).sl, row.sl)
<1> DEFINE s      == row.risk
           old    == IF Truthy(row.peak) THEN row.peak ELSE row.entry
           peak   == IF Beyond(row.side, price, old) THEN price ELSE old
           fires  == ~row.locked /\ (PctArmed(row, s, price) \/ AmountArmed(row, s, price))
           lock   == LockStop(row, s, price)
           sl1    == IF fires /\ Better(row.side, lock, row.sl) THEN Round(lock) ELSE row.sl
           trail  == TrailStop(row.side, peak, s)
           trails == s.trail_pct # 0 /\ Better(row.side, trail, sl1)
           sl2    == IF trails THEN Round(trail) ELSE sl1
<1>1. ApplyRisk(row, price).sl = row.sl \/ ApplyRisk(row, price).sl = sl2
  BY DEF ApplyRisk
<1>2. /\ row.side \in Sides /\ row.sl \in Int /\ row.entry \in Int /\ row.qty \in Int
      /\ row.qty >= 0 /\ row.peak \in Int /\ s.lock_pct \in Int /\ s.lock_amount \in Int
      /\ s.trail_pct \in Int
  BY DEF Row, RiskSettings
<1>3. \A p \in Int, pct \in Int : ProfitLevel(row.side, p, pct) \in Int
  BY <1>2 DEF ProfitLevel, Sides
<1>4. lock \in Int
  <2>1. PctLock(row, s) \in Int
    BY <1>2, <1>3 DEF PctLock
  <2>2. AmountArmed(row, s, price) => AmountLock(row, s) \in Int
    BY <1>2 DEF AmountArmed, AmountLock
  <2>3. QED
    BY <2>1, <2>2 DEF LockStop
<1>5. trail \in Int
  <2>1. price \in Int /\ old \in Int
    BY <1>2
  <2>2. peak \in Int
    BY <2>1
  <2>3. -s.trail_pct \in Int
    BY <1>2
  <2>4. QED
    BY <1>3, <2>2, <2>3 DEF TrailStop
<1> HIDE DEF lock, trail, fires
<1>6. \A x \in Int : AtLeastAsTight(row.side, x, x)
  BY <1>2 DEF AtLeastAsTight, Beyond, Sides
<1>7. sl1 \in Int /\ OnGrid(sl1) /\ AtLeastAsTight(row.side, sl1, row.sl)
  <2>1. CASE fires /\ Better(row.side, lock, row.sl)
    <3>1. Round(lock) \in Int
      BY <1>4 DEF Round, Tick
    <3>2. QED
      BY <1>2, <1>4, <2>1, <3>1, ReplaceTightens
  <2>2. CASE ~(fires /\ Better(row.side, lock, row.sl))
    BY <1>2, <1>6, <2>2
  <2>3. QED
    BY <2>1, <2>2
<1> HIDE DEF sl1
<1>8. OnGrid(sl2) /\ AtLeastAsTight(row.side, sl2, row.sl)
  <2>1. CASE trails
    <3>1. Round(trail) \in Int
      BY <1>5 DEF Round, Tick
    <3>2. OnGrid(Round(trail)) /\ AtLeastAsTight(row.side, Round(trail), sl1)
      BY <1>2, <1>5, <1>7, <2>1, ReplaceTightens
    <3>3. QED
      BY <1>2, <1>7, <2>1, <3>1, <3>2, TightensTransitive
  <2>2. CASE ~trails
    BY <1>7, <2>2
  <2>3. QED
    BY <2>1, <2>2
<1>9. QED
  BY <1>1, <1>2, <1>6, <1>8

\* The stops entry terms give are whole paise.
GridTerms == \A t \in Terms : OnGrid(t.sl)

\* What a step does to the stop of a row.
LEMMA StopStep ==
    ASSUME SafetyInv, SnapshotInv, GridTerms, Next, NEW o \in Orders
    PROVE  /\ OnGrid(rows'[o].sl)
           /\ Exists(o) => /\ AtLeastAsTight(rows[o].side, rows'[o].sl, rows[o].sl)
                           /\ rows'[o].sl = rows[o].sl \/ (ManageRisk /\ o = mon.order)
<1>1. TypeOK /\ PlacementInv /\ MonitorInv /\ rows[o] \in Row /\ OnGrid(rows[o].sl)
  BY DEF SafetyInv, ThreadInv, TypeOK, SnapshotInv
<1>2. CASE rows'[o].sl = rows[o].sl
  BY <1>1, <1>2 DEF AtLeastAsTight, Beyond, Row, Sides
<1>3. CASE RowsKept
  BY <1>2, <1>3, RowsKeptSame
<1>4. ASSUME NEW p \in Orders, PlacePaper(p) \/ RecordEntry(p)
      PROVE  rows'[o].sl = rows[o].sl \/ (~Exists(o) /\ OnGrid(rows'[o].sl))
  BY <1>1, <1>4, PlaceRows DEF GridTerms
<1>5. CASE ManageRisk
  <2>1. mon.pc = "priced" /\ mon.order \in Orders /\ mon.row \in Row
    BY <1>1, <1>5 DEF ManageRisk, MonitorInv, TypeOK, Monitor
  <2>2. mon.row.sl = rows[mon.order].sl /\ mon.row.side = rows[mon.order].side
    BY <2>1 DEF SnapshotInv
  <2>3. mon.price \in Int
    <3>1. mon.price \in Prices
      BY <1>1, <2>1 DEF MonitorInv
    <3>2. \A p \in Prices : p \in Int
      BY PricesAssumption
    <3>3. QED
      BY <3>1, <3>2
  <2>4. OnGrid(rows[mon.order].sl)
    BY <2>1 DEF SnapshotInv
  <2>5. /\ OnGrid(ApplyRisk(mon.row, mon.price).sl)
        /\ AtLeastAsTight(rows[mon.order].side, ApplyRisk(mon.row, mon.price).sl,
                          rows[mon.order].sl)
    BY <2>1, <2>2, <2>3, <2>4, ApplyRiskTightens
  <2>6. rows'[o].sl = rows[o].sl \/
            (o = mon.order /\ rows'[o].sl = ApplyRisk(mon.row, mon.price).sl)
    BY <1>1, <1>5, <2>1, ManageRiskRows
  <2>7. QED
    BY <1>2, <1>5, <2>5, <2>6
<1>6. CASE ClosePaperHit \/ CloseLiveHit
  BY <1>2, <1>6, MonitorCloses DEF CloseEffect
<1>7. ASSUME NEW r \in Closers \cup Editors, RecordClose(r) PROVE rows'[o].sl = rows[o].sl
  BY <1>7, RequestCloses DEF CloseEffect
<1>8. CASE MarkAlertSent \/ \E r \in Closers \cup Editors : ApplyEdit(r)
  BY <1>1, <1>2, <1>8, QuietRows
<1>9. QED
  BY <1>2, <1>3, <1>4, <1>5, <1>6, <1>7, <1>8, NextCases

\* A listed row was listed before, or is the stored one.
LEMMA SeenStep ==
    ASSUME SafetyInv, Next, NEW o \in Orders, seen'[o].status = "open"
    PROVE  seen'[o] = seen[o] \/ (seen'[o] = rows[o] /\ rows' = rows)
<1>1. seen \in [Orders -> Row]
  BY DEF SafetyInv, TypeOK
<1>2. CASE MonitorRests
  BY <1>2, MonitorRestsSame
<1>3. CASE Within
  BY <1>3, WithinSame
<1>4. CASE ListPaper \/ ListLive
  <2>1. PICK live \in BOOLEAN : seen' = Listed(live)
    BY <1>4 DEF ListPaper, ListLive
  <2>2. rows' = rows
    BY <1>4 DEF ListPaper, ListLive
  <2>3. seen'[o] = rows[o]
    BY <2>1, AbsentFacts DEF Listed
  <2>4. QED
    BY <2>2, <2>3
<1>5. ASSUME NEW p \in Orders, PriceOrder(p) PROVE seen'[o] = seen[o]
  BY <1>1, <1>5, AbsentFacts DEF PriceOrder
<1>6. CASE EndTick \/ SyncOutcome \/ SkipAlert \/ MarkAlertSent
  BY <1>6 DEF EndTick, SyncOutcome, SkipAlert, MarkAlertSent
<1>7. ASSUME Crash \/ (TickFails /\ mon.pc \notin {"exiting", "sold"}) PROVE FALSE
  <2>1. seen' = NothingSeen
    BY <1>7 DEF Crash, TickFails
  <2>2. QED
    BY <2>1, AbsentFacts DEF NothingSeen
<1>8. QED
  BY <1>2, <1>3, <1>4, <1>5, <1>6, <1>7, MonitorCases

\* The monitor has a price for an order: it had before, or just took it from the list.
LEMMA PricedStep ==
    ASSUME SafetyInv, Next, mon'.pc = "priced"
    PROVE  \/ mon' = mon /\ ~ManageRisk
           \/ \E o \in Orders : /\ mon'.order = o /\ mon'.row = seen[o] /\ rows' = rows
                                /\ seen[o].status = "open"
<1>1. mon \in Monitor /\ seen \in [Orders -> Row]
  BY DEF SafetyInv, TypeOK
<1>2. CASE MonitorRests
  <2>1. mon' = mon
    BY <1>2, MonitorRestsSame
  <2>2. ~ManageRisk
    BY <1>1, <2>1 DEF ManageRisk, Monitor
  <2>3. QED
    BY <2>1, <2>2
<1>3. ASSUME Within PROVE FALSE
  BY <1>1, <1>3 DEF Within, Monitor, ManageRisk, ClosePaperHit, ReadAutoExit, SubmitExit,
                    CloseLiveHit, SendAlert, TickFails
<1>4. ASSUME NEW o \in Orders, PriceOrder(o), mon' # mon
      PROVE  /\ mon'.order = o /\ mon'.row = seen[o] /\ rows' = rows
             /\ seen[o].status = "open"
  BY <1>1, <1>4 DEF PriceOrder, ToDo, Monitor
<1>5. ASSUME NEW o \in Orders, PriceOrder(o), mon' = mon PROVE FALSE
  BY <1>1, <1>5 DEF PriceOrder
<1>6. ASSUME \/ ListPaper \/ ListLive \/ EndTick \/ SyncOutcome \/ SkipAlert \/ MarkAlertSent
             \/ Crash \/ (TickFails /\ mon.pc \notin {"exiting", "sold"})
      PROVE  FALSE
  <2>1. mon' \in {Idle, Loop("paper"), Loop("live"), Loop(mon.mode)}
    BY <1>6 DEF ListPaper, ListLive, EndTick, SyncOutcome, SkipAlert, MarkAlertSent, Crash, TickFails
  <2>2. Idle.pc = "idle" /\ \A mode : Loop(mode).pc = "loop"
    BY DEF Loop, Idle
  <2>3. QED
    BY <2>1, <2>2
<1>7. QED
  BY <1>2, <1>3, <1>4, <1>5, <1>6, MonitorCases

LEMMA SnapshotStep == ASSUME SafetyInv, SnapshotInv, GridTerms, Next PROVE SnapshotInv'
<1>1. TypeOK /\ SeenInv /\ MonitorInv
  BY DEF SafetyInv, ThreadInv
<1>2. \A o \in Orders : OnGrid(rows'[o].sl)
  BY StopStep
<1>3. ASSUME NEW o \in Orders, Exists(o), ~ManageRisk \/ o # mon.order
      PROVE  rows'[o].sl = rows[o].sl /\ rows'[o].side = rows[o].side
  BY <1>3, StopStep, RowsOfStep DEF RowStep
<1>4. ASSUME NEW o \in Orders, seen'[o].status = "open"
      PROVE  seen'[o].sl = rows'[o].sl /\ seen'[o].side = rows'[o].side
  <2>1. CASE seen'[o] = rows[o] /\ rows' = rows
    BY <2>1
  <2>2. CASE seen'[o] = seen[o]
    <3>1. Exists(o) /\ seen[o].sl = rows[o].sl /\ seen[o].side = rows[o].side
      BY <1>1, <1>4, <2>2 DEF SeenInv, SnapshotInv
    <3>2. ~ManageRisk \/ o # mon.order
      BY <1>1, <1>4, <2>2 DEF ManageRisk, MonitorInv
    <3>3. QED
      BY <1>3, <2>2, <3>1, <3>2
  <2>3. QED
    BY <1>4, <2>1, <2>2, SeenStep
<1>5. ASSUME mon'.pc = "priced"
      PROVE  /\ mon'.row.sl = rows'[mon'.order].sl
             /\ mon'.row.side = rows'[mon'.order].side
  <2>1. CASE mon' = mon /\ ~ManageRisk
    <3>1. /\ mon.order \in Orders /\ Exists(mon.order)
          /\ mon.row.sl = rows[mon.order].sl /\ mon.row.side = rows[mon.order].side
      BY <1>1, <1>5, <2>1 DEF MonitorInv, SnapshotInv
    <3>2. QED
      BY <1>3, <2>1, <3>1
  <2>2. ASSUME NEW o \in Orders, mon'.order = o, mon'.row = seen[o], rows' = rows,
               seen[o].status = "open"
        PROVE  /\ mon'.row.sl = rows'[mon'.order].sl
               /\ mon'.row.side = rows'[mon'.order].side
    BY <2>2 DEF SnapshotInv
  <2>3. QED
    BY <1>5, <2>1, <2>2, PricedStep
<1>6. QED
  BY <1>2, <1>4, <1>5 DEF SnapshotInv, OnGrid

\* With whole-paise stops in the entry terms, no write of a row, by any thread in any
\* order, with any faults, takes its stop back.
THEOREM StopsOnlyTighten == ASSUME GridTerms PROVE Spec => StopOnlyTightens
<1> DEFINE Tightens == \A o \in Orders : rows[o].status # "absent" =>
                            AtLeastAsTight(rows[o].side, rows'[o].sl, rows[o].sl)
<1>1. Init => SnapshotInv
  <2>1. Absent.status = "absent" /\ OnGrid(Absent.sl) /\ Idle.pc = "idle"
    BY DEF Absent, OnGrid, Idle
  <2>2. QED
    BY <2>1 DEF Init, NothingSeen, SnapshotInv
<1>2. SafetyInv /\ SnapshotInv /\ UNCHANGED vars => SnapshotInv'
  BY DEF SnapshotInv, vars
<1>3. SafetyInv /\ SnapshotInv /\ [Next]_vars => SnapshotInv'
  BY <1>2, SnapshotStep
<1>4. SafetyInv /\ SnapshotInv /\ [Next]_vars => [Tightens]_rows
  BY StopStep DEF Exists, vars
<1>5. QED
  BY <1>1, <1>3, <1>4, SafetyHolds, PTL DEF Spec, StopOnlyTightens

-----------------------------------------------------------------------------
(* The orders table implements OrderBook.                                   *)

LEMMA BookInit == SafetyInv /\ Init => Book!Init
BY DEF Init, Book!Init, Absent

LEMMA BookSame ==
    ASSUME \A p \in Orders : rows'[p].status = rows[p].status /\ rows'[p].exit = rows[p].exit
    PROVE  UNCHANGED <<[o \in Orders |-> rows[o].status], [o \in Orders |-> rows[o].exit]>>
OBVIOUS

LEMMA BookCloses ==
    ASSUME SafetyInv, NEW o \in Orders, NEW reason \in Hits \cup {Manual}, CloseEffect(o, reason)
    PROVE  \/ Book!Next
           \/ UNCHANGED <<[p \in Orders |-> rows[p].status], [p \in Orders |-> rows[p].exit]>>
<1>1. CASE rows[o].status # "open"
  BY <1>1, BookSame DEF CloseEffect
<1>2. CASE rows[o].status = "open"
  <2>1. reason \in Book!Reasons
    BY DEF Book!Reasons, Hits, Manual
  <2>2. [p \in Orders |-> rows'[p].status] = [[p \in Orders |-> rows[p].status] EXCEPT ![o] = reason]
    BY <1>2 DEF CloseEffect
  <2>3. rows'[o].exit \in Prices \cup {t.entry : t \in Terms}
    BY <1>2 DEF CloseEffect
  <2>4. [p \in Orders |-> rows'[p].exit] =
            [[p \in Orders |-> rows[p].exit] EXCEPT ![o] = rows'[o].exit]
    BY DEF CloseEffect
  <2>5. Book!Close(o, reason)
    BY <1>2, <2>2, <2>3, <2>4 DEF Book!Close
  <2>6. QED
    BY <2>1, <2>5 DEF Book!Next
<1>3. QED
  BY <1>1, <1>2

LEMMA BookStep ==
    ASSUME SafetyInv, [Next]_vars
    PROVE  \/ Book!Next
           \/ UNCHANGED <<[o \in Orders |-> rows[o].status], [o \in Orders |-> rows[o].exit]>>
<1>1. TypeOK /\ PlacementInv
  BY DEF SafetyInv
<1>2. CASE UNCHANGED vars
  BY <1>2 DEF vars
<1>3. CASE RowsKept
  BY <1>3, RowsKeptSame
<1>4. ASSUME NEW o \in Orders, PlacePaper(o) \/ RecordEntry(o) PROVE Book!Next
  <2>1. /\ rows[o].status = "absent" /\ rows[o].exit = None
        /\ rows'[o].status = "open" /\ rows'[o].exit = None
        /\ \A p \in Orders \ {o} : rows'[p] = rows[p]
    BY <1>1, <1>4, PlaceRows DEF Exists, PlacementInv
  <2>2. [p \in Orders |-> rows'[p].status] = [[p \in Orders |-> rows[p].status] EXCEPT ![o] = "open"]
    BY <2>1
  <2>3. [p \in Orders |-> rows'[p].exit] = [p \in Orders |-> rows[p].exit]
    BY <2>1
  <2>4. Book!Open(o)
    BY <2>1, <2>2, <2>3 DEF Book!Open
  <2>5. QED
    BY <2>4 DEF Book!Next
<1>5. CASE ManageRisk
  BY <1>1, <1>5, ManageRiskRows, BookSame DEF SameRow
<1>6. CASE ClosePaperHit \/ CloseLiveHit
  BY <1>6, MonitorCloses, BookCloses
<1>7. ASSUME NEW r \in Closers \cup Editors, RecordClose(r)
      PROVE  \/ Book!Next
             \/ UNCHANGED <<[o \in Orders |-> rows[o].status], [o \in Orders |-> rows[o].exit]>>
  BY <1>7, RequestCloses, BookCloses
<1>8. CASE MarkAlertSent \/ \E r \in Closers \cup Editors : ApplyEdit(r)
  BY <1>1, <1>8, QuietRows, BookSame DEF SameRow
<1>9. QED
  BY <1>2, <1>3, <1>4, <1>5, <1>6, <1>7, <1>8, NextCases

\* Positions implements OrderBook: a row is opened once, closed at most once, for one
\* reason and at one price, however many threads try.
THEOREM ImplementsOrderBook == Spec => BookSpec
<1>1. Init => Book!Init
  BY DEF Init, Book!Init, Absent
<1>2. SafetyInv /\ [Next]_vars =>
        [Book!Next]_<<[o \in Orders |-> rows[o].status], [o \in Orders |-> rows[o].exit]>>
  BY BookStep
<1>3. QED
  BY <1>1, <1>2, SafetyHolds, PTL DEF Spec, BookSpec, Book!Spec

-----------------------------------------------------------------------------
(* How orders end *)

\* Everything a step can do to the row of an order.
LEMMA RowWrites ==
    ASSUME SafetyInv, RoleInv, Next, NEW o \in Orders
    PROVE  \/ rows'[o] = rows[o]
           \/ ~Exists(o) /\ \E t \in Terms, s \in Settings : rows'[o] = NewRow(t, s)
           \/ /\ ManageRisk /\ mon.order = o /\ ApplyRisk(mon.row, mon.price).changed
              /\ rows'[o] = RiskStateRow(rows[o], ApplyRisk(mon.row, mon.price))
           \/ /\ ClosePaperHit /\ mon.order = o
              /\ rows'[o] = CloseRow(rows[o], mon.hit, mon.price, CalcPnl(mon.row, mon.price))
           \/ /\ CloseLiveHit /\ mon.order = o
              /\ \E exit, pnl \in Int : rows'[o] = CloseRow(rows[o], mon.hit, exit, pnl)
           \/ /\ \E r \in Closers : RecordClose(r) /\ req[r].order = o
              /\ \E exit, pnl \in Int : rows'[o] = CloseRow(rows[o], Manual, exit, pnl)
           \/ /\ MarkAlertSent /\ mon.order = o
              /\ rows'[o] = [rows[o] EXCEPT !.alerted = TRUE]
           \/ /\ \E r \in Editors : ApplyEdit(r) /\ req[r].order = o
              /\ \E s \in Settings : rows'[o] = RiskSettingsRow(rows[o], s)
<1>1. TypeOK /\ PlacementInv /\ MonitorInv /\ RequestInv /\ rows \in [Orders -> Row]
  BY DEF SafetyInv, ThreadInv, TypeOK
<1>2. CASE RowsKept
  BY <1>2, RowsKeptSame
<1>3. ASSUME NEW p \in Orders, PlacePaper(p) \/ RecordEntry(p)
      PROVE  rows'[o] = rows[o] \/
             (~Exists(o) /\ \E t \in Terms, s \in Settings : rows'[o] = NewRow(t, s))
  <2>1. PICK t \in Terms, s \in Settings : rows' = [rows EXCEPT ![p] = NewRow(t, s)]
    BY <1>3 DEF PlacePaper, RecordEntry
  <2>2. ~Exists(p)
    BY <1>1, <1>3, PlaceRows
  <2>3. QED
    BY <1>1, <2>1, <2>2
<1>4. CASE ManageRisk
  <2>1. \/ rows' = rows
        \/ /\ ApplyRisk(mon.row, mon.price).changed
           /\ rows' = [rows EXCEPT ![mon.order] = RiskStateRow(@, ApplyRisk(mon.row, mon.price))]
    BY <1>4 DEF ManageRisk
  <2>2. QED
    BY <1>1, <1>4, <2>1
<1>5. CASE ClosePaperHit
  BY <1>1, <1>5 DEF ClosePaperHit
<1>6. CASE CloseLiveHit
  <2> DEFINE exit == ExitPrice(mon.row, market[mon.order])
  <2>1. /\ mon.order \in Orders /\ mon.row \in Row
        /\ market[mon.order] \in Prices \cup {None}
    BY <1>1, <1>6 DEF CloseLiveHit, MonitorInv, TypeOK, Monitor
  <2>2. exit \in Int /\ CalcPnl(mon.row, exit) \in Int
    BY <2>1, ExitPriceFacts, CalcPnlType
  <2>3. rows' = [rows EXCEPT ![mon.order] = CloseRow(@, mon.hit, exit, CalcPnl(mon.row, exit))]
    BY <1>6 DEF CloseLiveHit
  <2> HIDE DEF exit
  <2>4. QED
    BY <1>1, <1>6, <2>2, <2>3
<1>7. ASSUME NEW r \in Closers \cup Editors, RecordClose(r)
      PROVE  rows'[o] = rows[o] \/
             (/\ r \in Closers /\ RecordClose(r) /\ req[r].order = o
              /\ \E exit, pnl \in Int : rows'[o] = CloseRow(rows[o], Manual, exit, pnl))
  <2> DEFINE exit == ExitPrice(req[r].row, market[req[r].order])
  <2>1. /\ req[r].order \in Orders /\ req[r].row \in Row
        /\ market[req[r].order] \in Prices \cup {None}
    BY <1>1, <1>7 DEF RecordClose, RequestInv, TypeOK, Request
  <2>2. exit \in Int /\ CalcPnl(req[r].row, exit) \in Int
    BY <2>1, ExitPriceFacts, CalcPnlType
  <2>3. rows' = [rows EXCEPT ![req[r].order] = CloseRow(@, Manual, exit, CalcPnl(req[r].row, exit))]
    BY <1>7 DEF RecordClose
  <2> HIDE DEF exit
  <2>4. r \in Closers
    BY <1>7 DEF RoleInv, RecordClose
  <2>5. QED
    BY <1>1, <1>7, <2>2, <2>3, <2>4
<1>8. CASE MarkAlertSent
  <2>1. rows' = [rows EXCEPT ![mon.order] = [@ EXCEPT !.alerted = TRUE]]
    BY <1>8 DEF MarkAlertSent
  <2>2. QED
    BY <1>1, <1>8, <2>1
<1>9. ASSUME NEW r \in Closers \cup Editors, ApplyEdit(r)
      PROVE  rows'[o] = rows[o] \/
             (/\ r \in Editors /\ ApplyEdit(r) /\ req[r].order = o
              /\ \E s \in Settings : rows'[o] = RiskSettingsRow(rows[o], s))
  <2>1. PICK s \in Settings : rows' = [rows EXCEPT ![req[r].order] = RiskSettingsRow(@, s)]
    BY <1>9 DEF ApplyEdit
  <2>2. r \in Editors
    BY <1>9 DEF RoleInv, ApplyEdit
  <2>3. QED
    BY <1>1, <1>9, <2>1, <2>2
<1>10. QED
  BY <1>2, <1>3, <1>4, <1>5, <1>6, <1>7, <1>8, <1>9, NextCases

LEMMA RoleStep == ASSUME SafetyInv, RoleInv, Next PROVE RoleInv'
<1>1. req \in [Closers \cup Editors -> Request]
  BY DEF SafetyInv, TypeOK
<1>2. SUFFICES ASSUME NEW r \in Closers \cup Editors
               PROVE  /\ req'[r].pc \in {"closing", "sold"} => r \in Closers
                      /\ req'[r].pc = "editing" => r \in Editors
  BY DEF RoleInv
<1>3. CASE req'[r] = req[r]
  BY <1>3 DEF RoleInv
<1>4. ASSUME NEW o \in Orders, BeginClose(r, o) \/ BeginEdit(r, o)
      PROVE  /\ req'[r].pc \in {"closing", "sold"} => r \in Closers
             /\ req'[r].pc = "editing" => r \in Editors
  <2>1. CASE BeginClose(r, o)
    BY <1>1, <2>1 DEF BeginClose
  <2>2. CASE BeginEdit(r, o)
    <3>1. req'[r] = [Resting EXCEPT !.pc = "editing", !.order = o]
      BY <1>1, <2>2 DEF BeginEdit
    <3>2. QED
      BY <2>2, <3>1 DEF BeginEdit, Resting
  <2>3. QED
    BY <1>4, <2>1, <2>2
<1>5. CASE SubmitClose(r) \/ RecordClose(r) \/ ApplyEdit(r) \/ RequestFails(r) \/ Crash
  BY <1>1, <1>5 DEF SubmitClose, RecordClose, ApplyEdit, RequestFails, Crash, Resting, RoleInv,
                    Request
<1>6. ASSUME NEW c \in Closers \cup Editors, c # r,
             \/ \E o \in Orders : BeginClose(c, o) \/ BeginEdit(c, o)
             \/ SubmitClose(c) \/ RecordClose(c) \/ ApplyEdit(c) \/ RequestFails(c)
      PROVE  req'[r] = req[r]
  BY <1>1, <1>6 DEF BeginClose, BeginEdit, SubmitClose, RecordClose, ApplyEdit, RequestFails
<1>7. CASE TickFails \/ Place \/ MonitorStep \/ SetAutoExit \/ \E o \in Orders : MarketMoves(o) \/ SetOutcome(o)
  <2>1. req' = req
    BY <1>7 DEF Place, PlacePaper, SubmitEntry, RecordEntry, SetAutoExit, MarketMoves, SetOutcome, MonitorStep,
         ListPaper, ListLive, EndTick, PriceOrder, ManageRisk, ClosePaperHit, SyncOutcome,
         ReadAutoExit, SubmitExit, CloseLiveHit, SendAlert, SkipAlert, MarkAlertSent, TickFails
  <2>2. QED
    BY <1>3, <2>1
<1>8. QED
  BY <1>3, <1>4, <1>5, <1>6, <1>7 DEF Next, RequestStep, Fault

\* What a step does to the levels and to the status of an existing row.
LEMMA LevelsStep ==
    ASSUME SafetyInv, RoleInv, Next, NEW o \in Orders, Exists(o)
    PROVE  /\ rows'[o].side = rows[o].side /\ rows'[o].target = rows[o].target
           /\ \/ rows'[o].sl = rows[o].sl
              \/ /\ ManageRisk /\ mon.order = o
                 /\ rows'[o].sl = ApplyRisk(mon.row, mon.price).sl
           /\ \/ rows'[o].alerted = rows[o].alerted
              \/ MarkAlertSent /\ mon.order = o
           /\ \/ rows'[o].status = rows[o].status /\ rows'[o].exit = rows[o].exit
              \/ /\ ClosePaperHit /\ mon.order = o /\ rows[o].status = "open"
                 /\ rows'[o].status = mon.hit /\ rows'[o].exit = mon.price
              \/ /\ CloseLiveHit /\ mon.order = o /\ rows[o].status = "open"
                 /\ rows'[o].status = mon.hit
              \/ /\ \E r \in Closers : RecordClose(r) /\ req[r].order = o
                 /\ rows'[o].status = Manual
<1>1. rows[o] \in Row
  BY DEF SafetyInv, TypeOK
<1>2. CASE rows'[o] = rows[o]
  BY <1>2
<1>3. CASE /\ ManageRisk /\ mon.order = o
           /\ rows'[o] = RiskStateRow(rows[o], ApplyRisk(mon.row, mon.price))
  BY <1>1, <1>3 DEF RiskStateRow, Row
<1>4. CASE /\ ClosePaperHit /\ mon.order = o
           /\ rows'[o] = CloseRow(rows[o], mon.hit, mon.price, CalcPnl(mon.row, mon.price))
  BY <1>1, <1>4 DEF CloseRow, Row
<1>5. ASSUME CloseLiveHit, mon.order = o, NEW exit \in Int, NEW pnl \in Int,
             rows'[o] = CloseRow(rows[o], mon.hit, exit, pnl)
      PROVE  /\ rows'[o].side = rows[o].side /\ rows'[o].target = rows[o].target
             /\ rows'[o].sl = rows[o].sl /\ rows'[o].alerted = rows[o].alerted
             /\ \/ rows'[o].status = rows[o].status /\ rows'[o].exit = rows[o].exit
                \/ rows[o].status = "open" /\ rows'[o].status = mon.hit
  BY <1>1, <1>5 DEF CloseRow, Row
<1>6. ASSUME NEW exit \in Int, NEW pnl \in Int,
             rows'[o] = CloseRow(rows[o], Manual, exit, pnl)
      PROVE  /\ rows'[o].side = rows[o].side /\ rows'[o].target = rows[o].target
             /\ rows'[o].sl = rows[o].sl /\ rows'[o].alerted = rows[o].alerted
             /\ \/ rows'[o].status = rows[o].status /\ rows'[o].exit = rows[o].exit
                \/ rows'[o].status = Manual
  BY <1>1, <1>6 DEF CloseRow, Row
<1>7. CASE MarkAlertSent /\ mon.order = o /\ rows'[o] = [rows[o] EXCEPT !.alerted = TRUE]
  BY <1>1, <1>7, AlertedRowFacts DEF Row
<1>8. ASSUME NEW s \in Settings, rows'[o] = RiskSettingsRow(rows[o], s)
      PROVE  /\ rows'[o].side = rows[o].side /\ rows'[o].target = rows[o].target
             /\ rows'[o].sl = rows[o].sl /\ rows'[o].alerted = rows[o].alerted
             /\ rows'[o].status = rows[o].status /\ rows'[o].exit = rows[o].exit
  BY <1>1, <1>8 DEF RiskSettingsRow, Row
<1>9. QED
  BY <1>2, <1>3, <1>4, <1>5, <1>6, <1>7, <1>8, RowWrites

-----------------------------------------------------------------------------
(* The monitor's copies.                                                    *)

\* An order's turn goes on: nothing of it moved, or the monitor moved within
\* it, or it has just been taken from the list.
LEMMA TurnStep ==
    ASSUME SafetyInv, Next, mon'.pc \notin {"idle", "loop"}
    PROVE  \/ /\ mon' = mon
              /\ ~ManageRisk /\ ~ClosePaperHit /\ ~CloseLiveHit /\ ~MarkAlertSent
           \/ Within /\ ~MarkAlertSent
           \/ \E o \in Orders : /\ mon'.pc = "priced" /\ mon'.order = o /\ mon'.row = seen[o]
                                /\ rows' = rows /\ seen[o].status = "open"
<1>1. mon \in Monitor /\ seen \in [Orders -> Row]
  BY DEF SafetyInv, TypeOK
<1>2. CASE MonitorRests
  <2>1. mon' = mon
    BY <1>2, MonitorRestsSame
  <2>2. Loop(mon.mode).pc = "loop"
    BY DEF Loop, Idle
  <2>3. QED
    BY <1>1, <2>1, <2>2 DEF ManageRisk, ClosePaperHit, CloseLiveHit, MarkAlertSent, Monitor
<1>3. CASE Within
  <2>1. Loop(mon.mode).pc = "loop"
    BY DEF Loop, Idle
  <2>2. ~MarkAlertSent
    BY <2>1 DEF MarkAlertSent
  <2>3. QED
    BY <1>3, <2>2
<1>4. ASSUME NEW o \in Orders, PriceOrder(o)
      PROVE  /\ mon'.pc = "priced" /\ mon'.order = o /\ mon'.row = seen[o]
             /\ rows' = rows /\ seen[o].status = "open"
  BY <1>1, <1>4 DEF PriceOrder, ToDo, Monitor
<1>5. ASSUME \/ ListPaper \/ ListLive \/ EndTick \/ SyncOutcome \/ SkipAlert \/ MarkAlertSent
             \/ Crash \/ (TickFails /\ mon.pc \notin {"exiting", "sold"})
      PROVE  FALSE
  <2>1. mon' \in {Idle, Loop("paper"), Loop("live"), Loop(mon.mode)}
    BY <1>5 DEF ListPaper, ListLive, EndTick, SyncOutcome, SkipAlert, MarkAlertSent, Crash, TickFails
  <2>2. Idle.pc = "idle" /\ \A mode : Loop(mode).pc = "loop"
    BY DEF Loop, Idle
  <2>3. QED
    BY <2>1, <2>2
<1>6. QED
  BY <1>2, <1>3, <1>4, <1>5, MonitorCases

\* A row that is not written back had nothing to write back.
LEMMA UnchangedStop ==
    ASSUME NEW row, NEW price, ~ApplyRisk(row, price).changed
    PROVE  ApplyRisk(row, price).sl = row.sl
BY DEF ApplyRisk

LEMMA CopyStep == ASSUME SafetyInv, RoleInv, CopyInv, Next PROVE CopyInv'
<1>1. TypeOK /\ SeenInv /\ MonitorInv /\ mon \in Monitor /\ \A o \in Orders : rows[o] \in Row
  BY DEF SafetyInv, ThreadInv, TypeOK
<1>2. ASSUME NEW o \in Orders, seen'[o].status = "open"
      PROVE  SameLevels(seen'[o], rows'[o]) /\ rows'[o].status \notin Hits
  <2>1. CASE seen'[o] = rows[o] /\ rows' = rows
    BY <1>2, <2>1 DEF SameLevels, Hits
  <2>2. CASE seen'[o] = seen[o]
    <3>1. Exists(o) /\ SameLevels(seen[o], rows[o]) /\ rows[o].status \notin Hits
      BY <1>1, <1>2, <2>2 DEF SeenInv, CopyInv
    <3>2. ASSUME mon.order = o, ManageRisk \/ ClosePaperHit \/ CloseLiveHit \/ MarkAlertSent
          PROVE  FALSE
      BY <1>1, <1>2, <2>2, <3>2
         DEF ManageRisk, ClosePaperHit, CloseLiveHit, MarkAlertSent, MonitorInv
    <3>3. Manual \notin Hits
      BY DEF Manual, Hits
    <3>4. QED
      BY <2>2, <3>1, <3>2, <3>3, LevelsStep DEF SameLevels
  <2>3. QED
    BY <1>2, <2>1, <2>2, SeenStep
<1>3. ASSUME mon'.pc \notin {"idle", "loop"}
      PROVE  /\ SameLevels(mon'.row, rows'[mon'.order])
             /\ mon'.pc # "exited" => rows'[mon'.order].status \notin Hits
             /\ mon'.pc \in {"hit", "exiting", "sold", "exited"} =>
                    mon'.hit = CheckHit(mon'.row, mon'.price)
  <2>1. CASE /\ mon' = mon
             /\ ~ManageRisk /\ ~ClosePaperHit /\ ~CloseLiveHit /\ ~MarkAlertSent
    <3>1. /\ mon.order \in Orders /\ Exists(mon.order) /\ SameLevels(mon.row, rows[mon.order])
          /\ mon.pc # "exited" => rows[mon.order].status \notin Hits
      BY <1>1, <1>3, <2>1 DEF MonitorInv, CopyInv
    <3>2. Manual \notin Hits
      BY DEF Manual, Hits
    <3>3. /\ SameLevels(mon.row, rows'[mon.order])
          /\ mon.pc # "exited" => rows'[mon.order].status \notin Hits
      BY <2>1, <3>1, <3>2, LevelsStep DEF SameLevels
    <3>4. QED
      BY <2>1, <3>3 DEF CopyInv
  <2>2. CASE Within /\ ~MarkAlertSent
    <3>1. /\ mon.order \in Orders /\ Exists(mon.order) /\ SameLevels(mon.row, rows[mon.order])
          /\ mon'.order = mon.order /\ mon'.price = mon.price
          /\ mon.pc # "exited" => rows[mon.order].status \notin Hits
          /\ mon.pc \notin {"idle", "loop"}
      BY <1>1, <2>2, WithinSame DEF MonitorInv, CopyInv
    <3>2. CASE ManageRisk
      <4> DEFINE risk == ApplyRisk(mon.row, mon.price)
      <4>1. /\ mon.pc = "priced" /\ mon'.row = RiskStateRow(mon.row, risk)
            /\ mon'.hit = CheckHit(RiskStateRow(mon.row, risk), mon.price)
        BY <1>1, <3>2 DEF ManageRisk, Monitor
      <4>2. \/ rows'[mon.order] = rows[mon.order] /\ risk.sl = mon.row.sl
            \/ rows'[mon.order] = RiskStateRow(rows[mon.order], risk)
        BY <1>1, <3>1, <3>2, UnchangedStop DEF ManageRisk, TypeOK
      <4>3. mon.row \in Row /\ rows[mon.order] \in Row
        BY <1>1, <3>1 DEF Monitor
      <4> HIDE DEF risk
      <4>4. ASSUME NEW row \in Row
            PROVE  /\ RiskStateRow(row, risk).side = row.side
                   /\ RiskStateRow(row, risk).target = row.target
                   /\ RiskStateRow(row, risk).sl = risk.sl
                   /\ RiskStateRow(row, risk).alerted = row.alerted
                   /\ RiskStateRow(row, risk).status = row.status
        BY DEF RiskStateRow, Row
      <4>5. SameLevels(mon'.row, rows'[mon.order]) /\ rows'[mon.order].status = rows[mon.order].status
        BY <3>1, <4>1, <4>2, <4>3, <4>4 DEF SameLevels
      <4>6. QED
        BY <3>1, <4>1, <4>5
    <3>3. CASE ~ManageRisk
      <4>1. mon'.row = mon.row /\ mon'.hit = mon.hit
        BY <2>2, <3>3, WithinSame
      <4>2. SameLevels(mon.row, rows'[mon.order])
        BY <2>2, <3>1, <3>3, LevelsStep DEF SameLevels
      <4>3. mon'.pc # "exited" => rows'[mon.order].status \notin Hits
        <5>1. mon'.pc # "exited" => ~ClosePaperHit /\ ~CloseLiveHit /\ mon.pc # "exited"
          BY <1>1, <2>2 DEF Within, Monitor, ClosePaperHit, CloseLiveHit, ManageRisk, ReadAutoExit,
                            SubmitExit, SendAlert, TickFails
        <5>2. Manual \notin Hits
          BY DEF Manual, Hits
        <5>3. QED
          BY <3>1, <5>1, <5>2, LevelsStep
      <4>4. mon'.pc \in {"hit", "exiting", "sold", "exited"} =>
                mon.pc \in {"hit", "exiting", "sold", "exited"}
        BY <1>1, <2>2, <3>3 DEF Within, Monitor, ClosePaperHit, CloseLiveHit, ReadAutoExit,
                                SubmitExit, SendAlert, TickFails
      <4>5. QED
        BY <3>1, <4>1, <4>2, <4>3, <4>4 DEF CopyInv
    <3>4. QED
      BY <3>2, <3>3
  <2>3. ASSUME NEW o \in Orders, mon'.pc = "priced", mon'.order = o, mon'.row = seen[o],
               rows' = rows, seen[o].status = "open"
        PROVE  SameLevels(mon'.row, rows'[mon'.order]) /\ rows'[mon'.order].status \notin Hits
    BY <2>3 DEF CopyInv
  <2>4. QED
    BY <1>3, <2>1, <2>2, <2>3, TurnStep
<1>4. QED
  BY <1>2, <1>3 DEF CopyInv, SameLevels, Hits, CheckHit, ReachedStop, ReachedTarget

-----------------------------------------------------------------------------
(* One alert per order, and one more per fault.                             *)

\* The steps that send or mark no alert.
LEMMA AlertCases ==
    ASSUME SafetyInv, Next
    PROVE  \/ /\ SendAlert /\ mon.order \in Orders /\ faults' = faults /\ rows' = rows
              /\ alerts' = [alerts EXCEPT ![mon.order] = @ + 1]
              /\ mon'.pc = "mark" /\ mon'.order = mon.order
           \/ /\ MarkAlertSent /\ mon.order \in Orders /\ faults' = faults /\ alerts' = alerts
              /\ rows' = [rows EXCEPT ![mon.order].alerted = TRUE]
              /\ mon'.pc = "loop"
           \/ /\ ~SendAlert /\ ~MarkAlertSent
              /\ alerts' = alerts
              /\ \/ faults' = faults
                 \/ faults' = faults + 1 /\ rows' = rows
              /\ mon'.pc = "mark" => mon.pc = "mark" /\ mon'.order = mon.order
              /\ mon.pc = "mark" /\ mon' # mon => faults' = faults + 1
<1>1. TypeOK /\ MonitorInv /\ mon \in Monitor /\ faults \in Nat
  BY DEF SafetyInv, ThreadInv, TypeOK
<1>2. CASE SendAlert
  BY <1>1, <1>2 DEF SendAlert, MonitorInv, Monitor
<1>3. CASE MarkAlertSent
  <2>1. mon'.pc = "loop"
    BY <1>3 DEF MarkAlertSent, Loop, Idle
  <2>2. QED
    BY <1>1, <1>3, <2>1 DEF MarkAlertSent, MonitorInv
<1>4. CASE ~SendAlert /\ ~MarkAlertSent
  <2>1. alerts' = alerts
    BY <1>4 DEF Next, Place, PlacePaper, SubmitEntry, RecordEntry, SetAutoExit, MarketMoves, SetOutcome,
         MonitorStep, ListPaper, ListLive, EndTick, PriceOrder, ManageRisk, ClosePaperHit,
         SyncOutcome, ReadAutoExit, SubmitExit, CloseLiveHit, SkipAlert, RequestStep, BeginClose,
         SubmitClose, BeginEdit, RecordClose, ApplyEdit, Fault, TickFails, Crash, RequestFails
  <2>2. CASE Fault
    BY <1>1, <1>4, <2>1, <2>2 DEF Fault, TickFails, Crash, RequestFails, Monitor, Idle
  <2>3. CASE ~Fault
    <3>1. faults' = faults
      BY <2>3 DEF Next, Place, PlacePaper, SubmitEntry, RecordEntry, SetAutoExit, MarketMoves, SetOutcome,
           MonitorStep, ListPaper, ListLive, EndTick, PriceOrder, ManageRisk, ClosePaperHit,
           SyncOutcome, ReadAutoExit, SubmitExit, CloseLiveHit, SendAlert, SkipAlert,
           MarkAlertSent, RequestStep, BeginClose, SubmitClose, BeginEdit, RecordClose, ApplyEdit
    <3>2. ASSUME mon' # mon PROVE mon'.pc # "mark" /\ mon.pc # "mark"
      <4>1. CASE MonitorStep
        <5>1. \A mode : Loop(mode).pc = "loop" /\ Idle.pc = "idle"
          BY DEF Loop, Idle
        <5>2. QED
          BY <1>1, <1>4, <4>1, <5>1, <3>2
             DEF MonitorStep, ListPaper, ListLive, EndTick, PriceOrder, ManageRisk, ClosePaperHit,
                 SyncOutcome, ReadAutoExit, SubmitExit, CloseLiveHit, SkipAlert, Monitor
      <4>2. CASE MonitorRests
        BY <3>2, <4>2, MonitorRestsSame
      <4>3. QED
        BY <2>3, <4>1, <4>2 DEF Next, MonitorRests
    <3>3. QED
      BY <1>4, <2>1, <3>1, <3>2
  <2>4. QED
    BY <2>2, <2>3
<1>5. QED
  BY <1>2, <1>3, <1>4

LEMMA AlertStep == ASSUME SafetyInv, RoleInv, CopyInv, AlertInv, Next PROVE AlertInv'
<1> DEFINE Due(o) == IF rows[o].alerted \/ (mon.pc = "mark" /\ mon.order = o) THEN 1 ELSE 0
           DueNext(o) == IF rows'[o].alerted \/ (mon'.pc = "mark" /\ mon'.order = o) THEN 1 ELSE 0
<1>1. /\ TypeOK /\ MonitorInv /\ mon \in Monitor
      /\ \A o \in Orders : rows[o] \in Row /\ rows'[o] \in Row
      /\ rows \in [Orders -> Row] /\ alerts \in [Orders -> Nat] /\ faults \in Nat
  BY RowsOfStep DEF SafetyInv, ThreadInv, TypeOK
<1>2. ASSUME NEW o \in Orders, ~Exists(o) PROVE ~rows'[o].alerted
  <2>1. rows'[o] = rows[o] \/ \E t \in Terms, s \in Settings : rows'[o] = NewRow(t, s)
    <3>1. ASSUME mon.order = o, mon.pc \notin {"idle", "loop"} PROVE FALSE
      BY <1>1, <1>2, <3>1 DEF MonitorInv
    <3>2. ASSUME NEW r \in Closers \cup Editors, req[r].order = o, req[r].pc # "idle" PROVE FALSE
      BY <1>2, <3>2 DEF SafetyInv, ThreadInv, RequestInv
    <3>3. QED
      BY <3>1, <3>2, RowWrites
         DEF ManageRisk, ClosePaperHit, CloseLiveHit, MarkAlertSent, RecordClose, ApplyEdit
  <2>2. \A t \in Terms, s \in Settings : ~NewRow(t, s).alerted
    BY DEF NewRow
  <2>3. ~rows[o].alerted
    BY <1>2 DEF AlertInv
  <2>4. QED
    BY <2>1, <2>2, <2>3
<1>3. ASSUME NEW o \in Orders, rows'[o].status = "absent" PROVE ~rows'[o].alerted
  BY <1>2, <1>3, ExistsStep DEF Exists
<1>4. ASSUME NEW o \in Orders, ~MarkAlertSent PROVE rows'[o].alerted <=> rows[o].alerted
  <2>1. CASE Exists(o)
    BY <1>4, <2>1, LevelsStep
  <2>2. CASE ~Exists(o)
    BY <1>2, <2>2 DEF AlertInv
  <2>3. QED
    BY <2>1, <2>2
<1>5. CASE /\ SendAlert /\ mon.order \in Orders /\ faults' = faults /\ rows' = rows
           /\ alerts' = [alerts EXCEPT ![mon.order] = @ + 1]
           /\ mon'.pc = "mark" /\ mon'.order = mon.order
  <2>1. mon.pc = "alert" /\ ~rows[mon.order].alerted
    BY <1>5 DEF SendAlert, CopyInv, SameLevels
  <2>2. QED
    BY <1>1, <1>3, <1>5, <2>1 DEF AlertInv, Exists
<1>6. CASE /\ MarkAlertSent /\ mon.order \in Orders /\ faults' = faults /\ alerts' = alerts
           /\ rows' = [rows EXCEPT ![mon.order].alerted = TRUE]
           /\ mon'.pc = "loop"
  <2>1. mon.pc = "mark"
    BY <1>6 DEF MarkAlertSent
  <2>2. \A o \in Orders \ {mon.order} : rows'[o] = rows[o]
    BY <1>1, <1>6
  <2>3. rows'[mon.order].alerted
    BY <1>1, <1>6 DEF Row
  <2>4. ASSUME NEW o \in Orders PROVE alerts'[o] <= faults' + DueNext(o)
    BY <1>1, <1>6, <2>1, <2>2, <2>3, <2>4 DEF AlertInv
  <2>5. QED
    BY <1>3, <1>6, <2>4 DEF AlertInv, Exists
<1>7. CASE /\ ~SendAlert /\ ~MarkAlertSent
           /\ alerts' = alerts
           /\ \/ faults' = faults
              \/ faults' = faults + 1 /\ rows' = rows
           /\ mon'.pc = "mark" => mon.pc = "mark" /\ mon'.order = mon.order
           /\ mon.pc = "mark" /\ mon' # mon => faults' = faults + 1
  <2>1. ASSUME NEW o \in Orders PROVE alerts'[o] <= faults' + DueNext(o)
    <3>1. alerts[o] <= faults + Due(o)
      BY DEF AlertInv
    <3>2. Due(o) <= DueNext(o) \/ faults' = faults + 1
      BY <1>4, <1>7
    <3>3. QED
      BY <1>1, <1>7, <3>1, <3>2
  <2>2. mon'.pc = "mark" => ~rows'[mon'.order].alerted
    BY <1>1, <1>4, <1>7 DEF AlertInv, MonitorInv
  <2>3. QED
    BY <1>3, <2>1, <2>2 DEF AlertInv, Exists
<1>8. QED
  BY <1>5, <1>6, <1>7, AlertCases

-----------------------------------------------------------------------------
(* The outcome of a signal, and the price of an exit.                       *)

LEMMA OutcomeInvStep ==
    ASSUME SafetyInv, RoleInv, CopyInv, OutcomeInv, Next PROVE OutcomeInv'
<1>1. /\ TypeOK /\ MonitorInv /\ OutcomeOnlyOfClosed /\ mon \in Monitor
      /\ outcome \in [Orders -> Outcomes] /\ marked \in [Orders -> BOOLEAN]
  BY DEF SafetyInv, ThreadInv, TypeOK
<1>2. Manual \notin Hits /\ "open" \notin Hits /\ Manual \notin {"open", "absent"}
  BY DEF Manual, Hits
<1>3. ASSUME NEW o \in Orders, IsClosed(o) PROVE rows'[o].status = rows[o].status
  BY <1>3, RowsOfStep DEF RowStep
<1>4. ASSUME NEW o \in Orders, outcome'[o] # Pending, ~marked'[o]
      PROVE  rows'[o].status \in {outcome'[o], Manual}
  <2>1. CASE outcome'[o] = outcome[o] /\ marked'[o] = marked[o]
    BY <1>1, <1>3, <1>4, <2>1 DEF OutcomeInv, OutcomeOrManual, OutcomeOnlyOfClosed
  <2>2. CASE SyncOutcome /\ mon.order = o
    <3>1. outcome'[o] = mon.hit /\ rows' = rows /\ mon.pc = "exited"
      BY <1>1, <2>2 DEF SyncOutcome, WriteOutcome
    <3>2. QED
      BY <2>2, <3>1 DEF OutcomeInv
  <2>3. CASE SyncOutcome /\ mon.order # o
    BY <1>1, <2>1, <2>3 DEF SyncOutcome, WriteOutcome
  <2>4. CASE \E u \in Orders : SetOutcome(u)
    BY <1>1, <1>4, <2>1, <2>4 DEF SetOutcome
  <2>5. QED
    BY <2>1, <2>2, <2>3, <2>4, SignalCases
<1>5. ASSUME mon'.pc = "exited" PROVE rows'[mon'.order].status \in {mon'.hit, Manual}
  <2>1. CASE /\ mon' = mon
             /\ ~ManageRisk /\ ~ClosePaperHit /\ ~CloseLiveHit /\ ~MarkAlertSent
    BY <1>1, <1>3, <1>5, <2>1 DEF MonitorInv, OutcomeInv
  <2>2. CASE Within
    <3>1. ClosePaperHit \/ CloseLiveHit
      BY <1>1, <1>5, <2>2 DEF Within, ManageRisk, ReadAutoExit, SubmitExit, SendAlert, TickFails,
                              Monitor
    <3>2. /\ mon'.order = mon.order /\ mon'.hit = mon.hit
          /\ mon.order \in Orders /\ Exists(mon.order) /\ mon.pc \in {"hit", "sold"}
      BY <1>1, <2>2, <3>1, WithinSame DEF MonitorInv, ClosePaperHit, CloseLiveHit, ManageRisk
    <3>3. rows[mon.order].status \in {"open", Manual}
      <4>1. rows[mon.order].status \notin Hits /\ rows[mon.order].status \in Statuses
        BY <1>1, <3>2 DEF CopyInv, TypeOK, Row
      <4>2. QED
        BY <3>2, <4>1 DEF Statuses, Exists
    <3>4. QED
      BY <1>2, <3>1, <3>2, <3>3, MonitorCloses DEF CloseEffect
  <2>3. QED
    BY <1>5, <2>1, <2>2, TurnStep
<1>6. ASSUME Closers = {}, NEW o \in Orders PROVE rows'[o].status # Manual
  <2>1. rows[o].status # Manual
    BY <1>6 DEF OutcomeInv
  <2>2. CASE Exists(o)
    <3>1. ClosePaperHit \/ CloseLiveHit => mon.hit # Manual
      BY <1>2, MonitorCloses
    <3>2. QED
      BY <1>6, <2>1, <2>2, <3>1, LevelsStep
  <2>3. CASE ~Exists(o)
    <3>1. IsClosed(o) \/ rows'[o].status \in {"absent", "open"}
      <4>1. ASSUME (ClosePaperHit \/ CloseLiveHit) /\ mon.order = o PROVE FALSE
        BY <1>1, <2>3, <4>1 DEF MonitorInv, ClosePaperHit, CloseLiveHit
      <4>2. ASSUME NEW r \in Closers \cup Editors, RecordClose(r), req[r].order = o PROVE FALSE
        BY <2>3, <4>2 DEF SafetyInv, ThreadInv, RequestInv, RecordClose
      <4>3. QED
        BY <4>1, <4>2, ClosedStep
    <3>2. QED
      BY <1>2, <2>3, <3>1 DEF IsClosed, Exists
  <2>4. QED
    BY <2>2, <2>3
<1>7. QED
  BY <1>4, <1>5, <1>6 DEF OutcomeInv, OutcomeOrManual

LEMMA PaperExitStep ==
    ASSUME SafetyInv, RoleInv, CopyInv, PaperExitJustified, Next PROVE PaperExitJustified'
<1>1. TypeOK /\ MonitorInv /\ mon \in Monitor
  BY DEF SafetyInv, ThreadInv, TypeOK
<1>2. SUFFICES ASSUME NEW o \in Orders \ LiveOrders, rows'[o].status \in Hits
               PROVE  CheckHit(rows'[o], rows'[o].exit) = rows'[o].status
  BY DEF PaperExitJustified, CheckHit, ReachedStop, ReachedTarget, Hits
<1>3. Manual \notin Hits /\ "open" \notin Hits /\ "absent" \notin Hits
  BY DEF Manual, Hits
<1>4. \A a, b, price : a.side = b.side /\ a.sl = b.sl /\ a.target = b.target =>
            CheckHit(a, price) = CheckHit(b, price)
  BY DEF CheckHit, ReachedStop, ReachedTarget
<1>5. CASE rows[o].status \in Hits
  <2>1. Exists(o) /\ CheckHit(rows[o], rows[o].exit) = rows[o].status
    BY <1>3, <1>5 DEF PaperExitJustified, Exists
  <2>2. rows'[o].status = rows[o].status /\ rows'[o].exit = rows[o].exit
    BY <1>3, <1>5, RowsOfStep DEF RowStep, IsClosed
  <2>3. ~(ManageRisk /\ mon.order = o)
    BY <1>5 DEF ManageRisk, CopyInv
  <2>4. rows'[o].side = rows[o].side /\ rows'[o].target = rows[o].target /\ rows'[o].sl = rows[o].sl
    BY <2>1, <2>3, LevelsStep
  <2>5. QED
    BY <1>4, <2>1, <2>2, <2>4
<1>6. CASE rows[o].status \notin Hits
  <2>1. IsClosed(o) => rows'[o].status = rows[o].status
    BY RowsOfStep DEF RowStep
  <2>2. ~IsClosed(o)
    BY <1>2, <1>6, <2>1
  <2>3. rows'[o].status \notin {"absent", "open"}
    BY <1>2, <1>3
  <2>4. Exists(o)
    BY <1>1, <2>2, <2>3, ClosedStep
       DEF MonitorInv, ClosePaperHit, CloseLiveHit, SafetyInv, ThreadInv, RequestInv, RecordClose
  <2>5. ~(CloseLiveHit /\ mon.order = o)
    BY <1>1, <1>2 DEF CloseLiveHit, MonitorInv, IsLive
  <2>6. /\ ClosePaperHit /\ mon.order = o
        /\ rows'[o].status = mon.hit /\ rows'[o].exit = mon.price
    BY <1>2, <1>3, <1>6, <2>4, <2>5, LevelsStep
  <2>7. SameLevels(mon.row, rows[o]) /\ mon.hit = CheckHit(mon.row, mon.price)
    BY <2>6 DEF ClosePaperHit, CopyInv
  <2>8. rows'[o].side = rows[o].side /\ rows'[o].target = rows[o].target /\ rows'[o].sl = rows[o].sl
    BY <1>1, <2>4, <2>6, LevelsStep DEF ClosePaperHit, ManageRisk
  <2>9. QED
    BY <1>4, <2>6, <2>7, <2>8 DEF SameLevels
<1>7. QED
  BY <1>5, <1>6

-----------------------------------------------------------------------------
(* The theorems, without a hypothesis on threads or faults.                 *)

LEMMA ExitInit == Init => ExitInv
<1> SUFFICES ASSUME Init PROVE ExitInv
  OBVIOUS
<1>1. /\ \A o \in Orders : rows[o] = Absent /\ seen[o] = Absent
      /\ Absent.status = "absent" /\ ~Absent.alerted
  BY DEF Init, NothingSeen, Absent
<1>2. mon.pc = "idle" /\ \A r \in Closers \cup Editors : req[r].pc = "idle"
  BY DEF Init, Idle, Resting
<1>3. "absent" \notin Hits /\ "absent" # Manual
  BY DEF Hits, Manual
<1>4. RoleInv /\ CopyInv
  BY <1>1, <1>2 DEF RoleInv, CopyInv
<1>5. AlertInv
  BY <1>1, <1>2 DEF Init, AlertInv
<1>6. OutcomeInv /\ PaperExitJustified
  BY <1>1, <1>2, <1>3 DEF Init, OutcomeInv, OutcomeOrManual, PaperExitJustified
<1>7. QED
  BY <1>4, <1>5, <1>6 DEF ExitInv

LEMMA ExitStep == SafetyInv /\ ExitInv /\ [Next]_vars => ExitInv'
<1>1. ASSUME SafetyInv, ExitInv, Next PROVE ExitInv'
  BY <1>1, RoleStep, CopyStep, AlertStep, OutcomeInvStep, PaperExitStep DEF ExitInv
<1>2. ASSUME ExitInv, UNCHANGED vars PROVE ExitInv'
  <2>1. RoleInv' /\ CopyInv' /\ AlertInv'
    BY <1>2 DEF ExitInv, RoleInv, CopyInv, AlertInv, SameLevels, Exists, vars
  <2>2. OutcomeInv' /\ PaperExitJustified'
    BY <1>2 DEF ExitInv, OutcomeInv, OutcomeOrManual, PaperExitJustified, vars, signals
  <2>3. QED
    BY <2>1, <2>2 DEF ExitInv
<1>3. QED
  BY <1>1, <1>2

\* The inductive invariant: the monitor's copies of the rows it has still to handle,
\* and what is due to a row, hold through every interleaving and every fault.
THEOREM ExitsHold == Spec => []ExitInv
<1>1. QED
  BY ExitInit, ExitStep, SafetyHolds, PTL DEF Spec

\* A paper row the monitor closed was closed at a price that is beyond the stop or the
\* target the row still shows, although the row was read before and edits and closes
\* come in between.
THEOREM PaperExitsAreJustified == Spec => []PaperExitJustified
<1>1. ExitInv => PaperExitJustified
  BY DEF ExitInv
<1>2. QED
  BY <1>1, ExitsHold, PTL

\* An order's owner is alerted once, and once more per fault.
THEOREM AlertsAreCounted == Spec => []AlertedOnce
<1>1. SafetyInv /\ ExitInv => AlertedOnce
  BY DEF SafetyInv, TypeOK, ExitInv, AlertInv, AlertedOnce
<1>2. QED
  BY <1>1, SafetyHolds, ExitsHold, PTL

\* A signal's outcome is the user's, or the reason its order was closed for, or the
\* order was closed by hand: no other race between the two is possible.
THEOREM OutcomesOrManual == Spec => []OutcomeOrManual
<1>1. ExitInv => OutcomeOrManual
  BY DEF ExitInv, OutcomeInv
<1>2. QED
  BY <1>1, ExitsHold, PTL

\* While nobody closes by hand, a signal's outcome is the user's or the reason its order
\* was closed for.
THEOREM OutcomesMatchExits == ASSUME Closers = {} PROVE Spec => []OutcomeMatchesExit
<1>1. ExitInv => OutcomeMatchesExit
  BY DEF ExitInv, OutcomeInv, OutcomeOrManual, OutcomeMatchesExit
<1>2. QED
  BY <1>1, ExitsHold, PTL

-----------------------------------------------------------------------------
(* The broker, while nobody closes by hand and nothing has failed.          *)

\* Nobody but the monitor closes: the order it works on is open until it closes it.
LEMMA WorkIsOpen ==
    ASSUME SafetyInv, ExitInv, Closers = {}, mon.pc \notin {"idle", "loop", "exited"}
    PROVE  mon.order \in Orders /\ IsOpen(mon.order)
<1>1. mon.order \in Orders /\ Exists(mon.order) /\ rows[mon.order] \in Row
  BY DEF SafetyInv, ThreadInv, MonitorInv, TypeOK
<1>2. rows[mon.order].status \notin Hits /\ rows[mon.order].status # Manual
  BY <1>1 DEF ExitInv, CopyInv, OutcomeInv
<1>3. QED
  BY <1>1, <1>2 DEF Row, Statuses, Exists, IsOpen

\* The steps that move a real position, or its order's stage.
LEMMA BrokerCases ==
    ASSUME SafetyInv, RoleInv, Closers = {}, Next, faults' = 0, lost' = 0
    PROVE  /\ faults = 0 /\ lost = 0
           /\ \/ \E o \in Orders : SubmitEntry(o)
              \/ \E o \in Orders : RecordEntry(o)
              \/ SubmitExit
              \/ /\ held' = held
                 /\ \A o \in Orders : IsLive(o) => stage'[o] = stage[o]
                 /\ ~SubmitExit /\ ~\E o \in Orders : RecordEntry(o)
<1>1. faults \in Nat /\ lost \in Nat /\ TypeOK
  BY DEF SafetyInv, TypeOK
<1>2. ~Fault
  BY <1>1 DEF Fault, TickFails, Crash, RequestFails
<1>3. ASSUME NEW r \in Closers \cup Editors, SubmitClose(r) PROVE FALSE
  BY <1>3 DEF SubmitClose, RoleInv
<1>4. CASE /\ ~SubmitExit /\ ~\E o \in Orders : SubmitEntry(o)
           /\ ~\E o \in Orders : RecordEntry(o)
  <2>1. held' = held /\ lost' = lost /\ faults' = faults
    BY <1>2, <1>3, <1>4
       DEF Next, Place, PlacePaper, SetAutoExit, MarketMoves, SetOutcome, MonitorStep, ListPaper, ListLive,
           EndTick, PriceOrder, ManageRisk, ClosePaperHit, SyncOutcome, ReadAutoExit, CloseLiveHit,
           SendAlert, SkipAlert, MarkAlertSent, RequestStep, BeginClose, BeginEdit, RecordClose,
           ApplyEdit
  <2>2. ASSUME NEW o \in Orders, IsLive(o) PROVE stage'[o] = stage[o]
    <3>1. stage' = stage \/ \E p \in Orders : PlacePaper(p)
      BY <1>2, <1>3, <1>4
         DEF Next, Place, SetAutoExit, MarketMoves, SetOutcome, MonitorStep, ListPaper, ListLive, EndTick,
             PriceOrder, ManageRisk, ClosePaperHit, SyncOutcome, ReadAutoExit, CloseLiveHit,
             SendAlert, SkipAlert, MarkAlertSent, RequestStep, BeginClose, BeginEdit, RecordClose,
             ApplyEdit
    <3>2. QED
      BY <1>1, <2>2, <3>1 DEF PlacePaper, TypeOK
  <2>3. QED
    BY <1>4, <2>1, <2>2
<1>5. CASE SubmitExit \/ \E o \in Orders : SubmitEntry(o)
  BY <1>1, <1>5 DEF SubmitExit, SubmitEntry, BrokerCall
<1>6. CASE \E o \in Orders : RecordEntry(o)
  BY <1>6 DEF RecordEntry
<1>7. QED
  BY <1>4, <1>5, <1>6

\* A row appears at the end of a placement.
LEMMA OpenedStep ==
    ASSUME SafetyInv, Next, NEW o \in Orders, ~Exists(o), rows'[o].status = "open"
    PROVE  PlacePaper(o) \/ RecordEntry(o)
<1>1. TypeOK /\ PlacementInv /\ rows[o].status # "open"
  BY DEF SafetyInv, Exists
<1>2. CASE RowsKept
  BY <1>1, <1>2, RowsKeptSame
<1>3. ASSUME NEW p \in Orders, PlacePaper(p) \/ RecordEntry(p) PROVE p = o
  BY <1>1, <1>3, PlaceRows
<1>4. ASSUME ManageRisk PROVE FALSE
  BY <1>1, <1>4, ManageRiskRows DEF SameRow
<1>5. ASSUME ClosePaperHit \/ CloseLiveHit PROVE FALSE
  BY <1>1, <1>5, MonitorCloses DEF CloseEffect
<1>6. ASSUME NEW r \in Closers \cup Editors, RecordClose(r) PROVE FALSE
  BY <1>1, <1>6, RequestCloses DEF CloseEffect
<1>7. ASSUME MarkAlertSent \/ \E r \in Closers \cup Editors : ApplyEdit(r) PROVE FALSE
  BY <1>1, <1>7, QuietRows DEF SameRow
<1>8. QED
  BY <1>1, <1>2, <1>3, <1>4, <1>5, <1>6, <1>7, NextCases

LEMMA SyncStep ==
    ASSUME SafetyInv, ExitInv, Closers = {}, Next, faults' = 0, lost' = 0, BrokerInSync
    PROVE  BrokerInSync'
<1> DEFINE Sold(o) == mon.order = o /\ mon.pc = "sold"
           SoldNext(o) == mon'.order = o /\ mon'.pc = "sold"
<1>1. /\ TypeOK /\ PlacementInv /\ MonitorInv /\ RoleInv /\ mon \in Monitor
      /\ held \in [Orders -> Int] /\ stage \in [Orders -> {"new", "submitted", "placed", "failed"}]
      /\ LiveOrders \subseteq Orders
  BY OrdersAssumption DEF SafetyInv, ThreadInv, TypeOK, ExitInv
<1>2. \A o \in LiveOrders :
          held[o] = IF stage[o] = "submitted" \/ (IsOpen(o) /\ ~Sold(o)) THEN 1 ELSE 0
  BY DEF BrokerInSync, Selling
<1>3. SUFFICES ASSUME NEW o \in LiveOrders
               PROVE  held'[o] = IF \/ stage'[o] = "submitted"
                                    \/ rows'[o].status = "open" /\ ~SoldNext(o)
                                 THEN 1 ELSE 0
  BY DEF BrokerInSync, Selling, IsOpen
<1>4. o \in Orders /\ IsLive(o)
  BY <1>1 DEF IsLive
<1>5. held[o] = IF stage[o] = "submitted" \/ (IsOpen(o) /\ ~Sold(o)) THEN 1 ELSE 0
  BY <1>2
<1> HIDE <1>2
<1>6. stage[o] # "placed" => ~IsOpen(o) /\ ~Sold(o)
  BY <1>1, <1>4 DEF PlacementInv, MonitorInv, Exists, IsOpen
<1>7. CASE \E p \in Orders : SubmitEntry(p)
  <2>1. PICK p \in Orders, result \in BrokerResults :
            /\ BrokerCall(p, 1, result) /\ stage[p] = "new" /\ rows' = rows /\ mon' = mon
            /\ stage' = [stage EXCEPT ![p] = IF result = "filled" THEN "submitted" ELSE "failed"]
    BY <1>7 DEF SubmitEntry
  <2>2. result # "lost"
    BY <1>1, <2>1 DEF BrokerCall, TypeOK
  <2>3. held' = IF result = "rejected" THEN held ELSE [held EXCEPT ![p] = @ + 1]
    BY <2>1 DEF BrokerCall
  <2>4. result \in {"filled", "rejected"}
    BY <2>2, EnvironmentAssumption
  <2>5. CASE p = o
    <3>1. held[o] = 0 /\ ~IsOpen(o)
      BY <1>5, <1>6, <2>1, <2>5
    <3>2. CASE result = "filled"
      BY <1>1, <1>4, <2>1, <2>3, <2>5, <3>1, <3>2
    <3>3. CASE result = "rejected"
      BY <1>1, <1>4, <2>1, <2>3, <2>5, <3>1, <3>3 DEF IsOpen
    <3>4. QED
      BY <2>4, <3>2, <3>3
  <2>6. CASE p # o
    BY <1>1, <1>4, <1>5, <2>1, <2>3, <2>6 DEF IsOpen
  <2>7. QED
    BY <2>5, <2>6
<1>8. CASE \E p \in Orders : RecordEntry(p)
  <2>1. PICK p \in Orders : RecordEntry(p)
    BY <1>8
  <2>2. /\ stage[p] = "submitted" /\ stage' = [stage EXCEPT ![p] = "placed"]
        /\ held' = held /\ mon' = mon
    BY <2>1 DEF RecordEntry
  <2>3. rows'[p].status = "open" /\ \A q \in Orders \ {p} : rows'[q] = rows[q]
    BY <1>1, <2>1, PlaceRows
  <2>4. CASE p = o
    BY <1>1, <1>4, <1>5, <1>6, <2>2, <2>3, <2>4
  <2>5. CASE p # o
    BY <1>1, <1>4, <1>5, <2>2, <2>3, <2>5 DEF IsOpen
  <2>6. QED
    BY <2>4, <2>5
<1>9. CASE SubmitExit
  <2>1. PICK result \in BrokerResults :
            /\ BrokerCall(mon.order, -1, result)
            /\ mon' = [mon EXCEPT !.pc = IF result = "filled" THEN "sold" ELSE "alert"]
    BY <1>9 DEF SubmitExit
  <2>2. result # "lost"
    BY <1>1, <2>1 DEF BrokerCall, TypeOK
  <2>3. result \in {"filled", "rejected"}
    BY <2>2, EnvironmentAssumption
  <2>4. mon.pc = "exiting" /\ stage' = stage /\ rows' = rows
    BY <1>9 DEF SubmitExit
  <2>5. mon.order \in Orders /\ IsOpen(mon.order)
    BY <2>4, WorkIsOpen
  <2>6. held' = IF result = "rejected" THEN held ELSE [held EXCEPT ![mon.order] = @ + (-1)]
    BY <2>1 DEF BrokerCall
  <2>7. mon'.order = mon.order /\ mon'.pc = IF result = "filled" THEN "sold" ELSE "alert"
    BY <1>1, <2>1 DEF Monitor
  <2>8. CASE mon.order = o
    <3>1. held[o] = 1 /\ stage[o] # "submitted"
      BY <1>5, <1>6, <2>4, <2>5, <2>8
    <3>2. CASE result = "filled"
      <4>1. held'[o] = 0
        BY <1>1, <1>4, <2>6, <2>8, <3>1, <3>2
      <4>2. QED
        BY <2>4, <2>7, <2>8, <3>1, <3>2, <4>1
    <3>3. CASE result = "rejected"
      BY <2>4, <2>5, <2>6, <2>7, <2>8, <3>1, <3>3 DEF IsOpen
    <3>4. QED
      BY <2>3, <3>2, <3>3
  <2>9. CASE mon.order # o
    BY <1>1, <1>4, <1>5, <2>4, <2>6, <2>7, <2>9 DEF IsOpen
  <2>10. QED
    BY <2>8, <2>9
<1>10. CASE /\ held' = held /\ stage'[o] = stage[o]
            /\ ~SubmitExit /\ ~\E p \in Orders : RecordEntry(p)
  <2>1. CASE Exists(o)
    <3>1. rows'[o].status = "open" /\ ~SoldNext(o) <=> IsOpen(o) /\ ~Sold(o)
      <4>1. SoldNext(o) => Sold(o)
        <5>1. mon.pc = "exiting" /\ mon'.pc = "sold" => SubmitExit \/ mon'.order # mon.order
          BY <1>1, MonitorCases, MonitorRestsSame
             DEF Within, ManageRisk, ClosePaperHit, ReadAutoExit, CloseLiveHit, SendAlert,
                 TickFails, Monitor, ListPaper, ListLive, EndTick, PriceOrder, SyncOutcome,
                 SkipAlert, MarkAlertSent, Crash, Loop, Idle
        <5>2. QED
          BY <1>10, <5>1, MonitorSold
      <4>2. Sold(o) => SoldNext(o) \/ rows'[o].status # "open"
        <5>1. ASSUME Sold(o), mon' # mon PROVE CloseLiveHit
          <6>1. MonitorStep
            <7>1. faults = 0
              BY BrokerCases, <1>1
            <7>2. ~TickFails /\ ~Crash
              BY <7>1 DEF TickFails, Crash
            <7>3. QED
              BY <1>1, <5>1, <7>2, MonitorRestsSame DEF Next, MonitorRests, Fault
          <6>2. QED
            BY <1>10, <5>1, <6>1
               DEF MonitorStep, ListPaper, ListLive, EndTick, PriceOrder, ManageRisk,
                   ClosePaperHit, SyncOutcome, ReadAutoExit, SendAlert, SkipAlert, MarkAlertSent
        <5>2. CloseLiveHit => rows'[mon.order].status # "open"
          BY MonitorCloses DEF CloseEffect
        <5>3. QED
          BY <5>1, <5>2
      <4>3. ~Sold(o) => (rows'[o].status = "open" <=> IsOpen(o))
        <5>1. ~(CloseLiveHit /\ mon.order = o) \/ Sold(o)
          BY DEF CloseLiveHit
        <5>2. ~(ClosePaperHit /\ mon.order = o)
          BY <1>1, <1>4 DEF ClosePaperHit, MonitorInv
        <5>3. QED
          BY <1>1, <1>4, <2>1, <5>1, <5>2, LevelsStep DEF IsOpen
      <4>4. IsOpen(o) \/ rows'[o].status # "open"
        BY <1>4, <2>1, RowsOfStep DEF RowStep, IsOpen, IsClosed, Exists
      <4>5. QED
        BY <4>1, <4>2, <4>3, <4>4
    <3>2. QED
      BY <1>5, <1>10, <3>1
  <2>2. CASE ~Exists(o)
    <3>1. rows'[o].status # "open"
      <4>1. ~PlacePaper(o)
        BY <1>4 DEF PlacePaper
      <4>2. rows'[o].status = "open" => PlacePaper(o) \/ RecordEntry(o)
        BY <1>4, <2>2, OpenedStep
      <4>3. QED
        BY <1>4, <1>10, <4>1, <4>2
    <3>2. QED
      BY <1>5, <1>10, <2>2, <3>1 DEF Exists, IsOpen
  <2>3. QED
    BY <2>1, <2>2
<1>11. QED
  BY <1>1, <1>4, <1>7, <1>8, <1>9, <1>10, BrokerCases

\* While nobody closes by hand, the broker holds exactly the positions the table and the
\* calls under way account for, up to the first fault or lost answer.
THEOREM BrokerStaysInSync ==
    ASSUME Closers = {} PROVE Spec => [](faults = 0 /\ lost = 0 => BrokerInSync)
<1>1. Init => SyncInv
  <2>1. ASSUME Init, NEW o \in LiveOrders
        PROVE  held[o] = 0 /\ stage[o] = "new" /\ ~IsOpen(o)
    BY <2>1, OrdersAssumption DEF Init, IsOpen, Absent
  <2>2. QED
    BY <2>1 DEF SyncInv, BrokerInSync
<1>2. SafetyInv /\ ExitInv /\ SyncInv /\ [Next]_vars => SyncInv'
  <2>1. ASSUME SafetyInv, ExitInv, SyncInv, Next, faults' = 0, lost' = 0 PROVE BrokerInSync'
    <3>1. faults = 0 /\ lost = 0
      BY <2>1, BrokerCases DEF ExitInv
    <3>2. QED
      BY <2>1, <3>1, SyncStep DEF SyncInv
  <2>2. ASSUME SyncInv, UNCHANGED vars PROVE SyncInv'
    BY <2>2 DEF SyncInv, BrokerInSync, Selling, IsOpen, vars
  <2>3. QED
    BY <2>1, <2>2 DEF SyncInv
<1>3. SyncInv => (faults = 0 /\ lost = 0 => BrokerInSync)
  BY DEF SyncInv
<1>4. QED
  BY <1>1, <1>2, <1>3, SafetyHolds, ExitsHold, PTL DEF Spec

\* Up to then, a position whose stop or target was hit and not exited is really open
\* when its owner is alerted about it.
THEOREM AlertsAreOfHeld ==
    ASSUME Closers = {} PROVE Spec => [](faults = 0 /\ lost = 0 => HitAlertMeansHeld)
<1>1. SafetyInv /\ ExitInv /\ (faults = 0 /\ lost = 0 => BrokerInSync) =>
          (faults = 0 /\ lost = 0 => HitAlertMeansHeld)
  <2>1. ASSUME SafetyInv, ExitInv, BrokerInSync, mon.pc = "alert", mon.mode = "live"
        PROVE  held[mon.order] > 0
    <3>1. mon.order \in LiveOrders /\ IsOpen(mon.order)
      BY <2>1, WorkIsOpen DEF SafetyInv, ThreadInv, MonitorInv, IsLive
    <3>2. ~Selling(mon.order)
      BY <2>1 DEF Selling
    <3>3. held[mon.order] = 1
      BY <2>1, <3>1, <3>2 DEF BrokerInSync
    <3>4. QED
      BY <3>3
  <2>2. QED
    BY <2>1 DEF HitAlertMeansHeld
<1>2. QED
  BY <1>1, SafetyHolds, ExitsHold, BrokerStaysInSync, PTL

-----------------------------------------------------------------------------
(* What the Risk Manager claims to have done is in the stop.                *)

\* A candidate that does not replace a whole-paise stop is no tighter once rounded.
LEMMA KeptIsTight ==
    ASSUME NEW side \in Sides, NEW candidate \in Int, NEW sl \in Int, OnGrid(sl),
           ~Better(side, candidate, sl)
    PROVE  AtLeastAsTight(side, sl, Round(candidate))
<1>1. sl # None /\ sl % Tick = 0
  BY DEF Better, OnGrid
<1>2. /\ side = "buy" => candidate <= sl
      /\ side = "sell" => candidate >= sl
  BY DEF Better, Beyond, Sides
<1>3. Round(candidate) \in Int
  BY DEF Round, Tick
<1>4. /\ side = "buy" => Round(candidate) <= sl
      /\ side = "sell" => Round(candidate) >= sl
  BY <1>1, <1>2, RoundAtGrid
<1>5. QED
  BY <1>1, <1>3, <1>4 DEF AtLeastAsTight, Beyond, Sides

LEMMA ApplyRiskProtects ==
    ASSUME NEW row \in Row, NEW price \in Int, OnGrid(row.sl), Truthy(row.entry)
    PROVE  /\ ApplyRisk(row, price).locked /\ ~row.locked =>
                \E lock \in Locks(row) :
                    AtLeastAsTight(row.side, ApplyRisk(row, price).sl, Round(lock))
           /\ row.risk.trail_pct # 0 =>
                AtLeastAsTight(row.side, ApplyRisk(row, price).sl,
                               Round(TrailStop(row.side, ApplyRisk(row, price).peak, row.risk)))
<1> DEFINE s      == row.risk
           old    == IF Truthy(row.peak) THEN row.peak ELSE row.entry
           peak   == IF Beyond(row.side, price, old) THEN price ELSE old
           fires  == ~row.locked /\ (PctArmed(row, s, price) \/ AmountArmed(row, s, price))
           lock   == LockStop(row, s, price)
           sl1    == IF fires /\ Better(row.side, lock, row.sl) THEN Round(lock) ELSE row.sl
           trail  == TrailStop(row.side, peak, s)
           trails == s.trail_pct # 0 /\ Better(row.side, trail, sl1)
           sl2    == IF trails THEN Round(trail) ELSE sl1
<1>1. /\ ApplyRisk(row, price).sl = sl2
      /\ ApplyRisk(row, price).peak = peak
      /\ ApplyRisk(row, price).locked = (row.locked \/ fires)
  BY DEF ApplyRisk
<1>2. /\ row.side \in Sides /\ row.sl \in Int /\ row.entry \in Int /\ row.qty \in Int
      /\ row.qty >= 0 /\ row.peak \in Int /\ s.lock_pct \in Int /\ s.lock_amount \in Int
      /\ s.trail_pct \in Int
  BY DEF Row, RiskSettings
<1>3. \A p \in Int, pct \in Int : ProfitLevel(row.side, p, pct) \in Int
  BY <1>2 DEF ProfitLevel, Sides
<1>4. fires => lock \in Locks(row) /\ lock \in Int
  <2>1. PctLock(row, s) \in Int
    BY <1>2, <1>3 DEF PctLock
  <2>2. AmountArmed(row, s, price) => AmountLock(row, s) \in Int /\ AmountLock(row, s) \in Locks(row)
    BY <1>2 DEF AmountArmed, AmountLock, Locks
  <2>3. PctArmed(row, s, price) => PctLock(row, s) \in Locks(row)
    BY DEF PctArmed, Locks
  <2>4. QED
    BY <2>1, <2>2, <2>3 DEF LockStop
<1>5. trail \in Int
  <2>1. price \in Int /\ old \in Int
    BY <1>2
  <2>2. peak \in Int
    BY <2>1
  <2>3. -s.trail_pct \in Int
    BY <1>2
  <2>4. QED
    BY <1>3, <2>2, <2>3 DEF TrailStop
<1> HIDE DEF lock, trail, peak
<1>6. \A x \in Int : Round(x) \in Int /\ OnGrid(Round(x)) /\ Round(x) # None
  BY DEF Round, Tick, OnGrid, None
<1>7. \A x \in Int : AtLeastAsTight(row.side, x, x)
  BY <1>2 DEF AtLeastAsTight, Beyond, Sides
<1>8. /\ sl1 \in Int /\ OnGrid(sl1)
      /\ fires => AtLeastAsTight(row.side, sl1, Round(lock))
  <2>1. CASE fires /\ Better(row.side, lock, row.sl)
    BY <1>4, <1>6, <1>7, <2>1
  <2>2. CASE fires /\ ~Better(row.side, lock, row.sl)
    <3>1. AtLeastAsTight(row.side, row.sl, Round(lock))
      BY <1>2, <1>4, <2>2, KeptIsTight
    <3>2. QED
      BY <1>2, <2>2, <3>1
  <2>3. CASE ~fires
    BY <1>2, <2>3
  <2>4. QED
    BY <2>1, <2>2, <2>3
<1> HIDE DEF sl1, fires
<1>9. /\ sl2 \in Int
      /\ AtLeastAsTight(row.side, sl2, sl1)
      /\ s.trail_pct # 0 => AtLeastAsTight(row.side, sl2, Round(trail))
  <2>1. CASE trails
    <3>1. AtLeastAsTight(row.side, Round(trail), sl1)
      BY <1>2, <1>5, <1>8, <2>1, ReplaceTightens
    <3>2. QED
      BY <1>5, <1>6, <1>7, <2>1, <3>1
  <2>2. CASE ~trails
    <3>1. s.trail_pct # 0 => AtLeastAsTight(row.side, sl1, Round(trail))
      BY <1>2, <1>5, <1>8, <2>2, KeptIsTight
    <3>2. QED
      BY <1>7, <1>8, <2>2, <3>1
  <2>3. QED
    BY <2>1, <2>2
<1> HIDE DEF sl2
<1>10. fires => AtLeastAsTight(row.side, sl2, Round(lock))
  BY <1>2, <1>4, <1>6, <1>8, <1>9, TightensTransitive
<1>11. ApplyRisk(row, price).locked /\ ~row.locked => fires
  BY <1>1
<1>12. QED
  BY <1>1, <1>4, <1>9, <1>10, <1>11 DEF trail

\* The locks of a row are those of its entry, side, quantity and settings.
LEMMA LocksSame ==
    ASSUME NEW a, NEW b, a.side = b.side, a.entry = b.entry, a.qty = b.qty, a.risk = b.risk
    PROVE  Locks(a) = Locks(b)
BY DEF Locks, PctLock, AmountLock

Protected(row) ==
    /\ row.locked => \E lock \in Locks(row) : AtLeastAsTight(row.side, row.sl, Round(lock))
    /\ row.risk.trail_pct # 0 /\ row.peak # row.entry =>
            AtLeastAsTight(row.side, row.sl, Round(TrailStop(row.side, row.peak, row.risk)))

LEMMA ProtectedSame ==
    ASSUME NEW a, NEW b, SameRisk(a, b), a.side = b.side, a.sl = b.sl, Protected(b)
    PROVE  Protected(a)
<1>1. Locks(a) = Locks(b)
  BY LocksSame DEF SameRisk
<1>2. QED
  BY <1>1 DEF Protected, SameRisk

\* Writing the Risk Manager's result back protects the row, when it was computed from
\* a true copy of it.
LEMMA WriteProtects ==
    ASSUME NEW row \in Row, NEW copy \in Row, NEW price \in Int,
           SameRisk(copy, row), SameLevels(copy, row),
           OnGrid(row.sl), Truthy(row.entry), row.qty # 0, Protected(row)
    PROVE  Protected(RiskStateRow(row, ApplyRisk(copy, price)))
<1> DEFINE risk == ApplyRisk(copy, price)
           new  == RiskStateRow(row, risk)
<1>1. /\ OnGrid(copy.sl) /\ Truthy(copy.entry) /\ copy.side = row.side /\ copy.sl = row.sl
      /\ copy.risk = row.risk /\ copy.locked = row.locked /\ copy.side \in Sides
      /\ copy.qty = row.qty /\ copy.entry = row.entry
  BY DEF SameRisk, SameLevels, Row
<1>2. /\ risk.locked /\ ~copy.locked =>
            \E lock \in Locks(copy) : AtLeastAsTight(copy.side, risk.sl, Round(lock))
      /\ copy.risk.trail_pct # 0 =>
            AtLeastAsTight(copy.side, risk.sl, Round(TrailStop(copy.side, risk.peak, copy.risk)))
  BY <1>1, ApplyRiskProtects
<1>3. AtLeastAsTight(copy.side, risk.sl, copy.sl)
  BY <1>1, ApplyRiskTightens
<1>4. risk.sl \in Int /\ risk.peak \in Int /\ risk.locked \in BOOLEAN
  BY ApplyRiskType
<1> HIDE DEF risk
<1>5. /\ new.side = row.side /\ new.entry = row.entry /\ new.qty = row.qty
      /\ new.risk = row.risk /\ new.sl = risk.sl /\ new.peak = risk.peak
      /\ new.locked = risk.locked
  BY DEF RiskStateRow, Row
<1> HIDE DEF new
<1>6. Locks(copy) = Locks(row) /\ Locks(new) = Locks(row)
  BY <1>1, <1>5, LocksSame
<1>7. ASSUME new.locked
      PROVE  \E lock \in Locks(new) : AtLeastAsTight(new.side, new.sl, Round(lock))
  <2>1. CASE row.locked
    <3>1. PICK lock \in Locks(row) : AtLeastAsTight(row.side, row.sl, Round(lock))
      BY <2>1 DEF Protected
    <3>2. row.sl = None \/ row.sl \in Int
      BY DEF Row
    <3>3. AtLeastAsTight(row.side, risk.sl, row.sl)
      BY <1>1, <1>3
    <3>4. row.sl # None \/ Round(lock) = None
      BY <3>1 DEF AtLeastAsTight
    <3>5. AtLeastAsTight(row.side, risk.sl, Round(lock))
      <4>1. CASE Round(lock) = None
        BY <4>1 DEF AtLeastAsTight
      <4>2. CASE Round(lock) # None
        <5>1. Round(lock) \in Int
          <6>1. lock \in Int
            <7>1. /\ row.side \in Sides /\ row.entry \in Int /\ row.qty \in Int /\ row.qty > 0
                  /\ row.risk.lock_pct \in Int /\ row.risk.lock_amount \in Int
              BY DEF Row, RiskSettings
            <7>2. PctLock(row, row.risk) \in Int
              BY <7>1 DEF PctLock, ProfitLevel
            <7>3. AmountLock(row, row.risk) \in Int
              BY <7>1 DEF AmountLock
            <7>4. QED
              BY <7>2, <7>3 DEF Locks
          <6>2. QED
            BY <6>1 DEF Round, Tick
        <5>2. QED
          BY <1>1, <1>4, <3>1, <3>2, <3>3, <5>1, TightensTransitive DEF Row
      <4>3. QED
        BY <4>1, <4>2
    <3>6. QED
      BY <1>5, <1>6, <3>5
  <2>2. CASE ~row.locked
    BY <1>1, <1>2, <1>5, <1>6, <1>7, <2>2
  <2>3. QED
    BY <2>1, <2>2
<1>8. QED
  BY <1>1, <1>2, <1>5, <1>7 DEF Protected, new, risk

\* What a step does to the risk state of an existing row while nobody edits.
LEMMA RiskStateStep ==
    ASSUME SafetyInv, RoleInv, Editors = {}, Next, NEW o \in Orders, Exists(o)
    PROVE  \/ /\ SameRisk(rows'[o], rows[o])
              /\ rows'[o].side = rows[o].side /\ rows'[o].sl = rows[o].sl
           \/ /\ ManageRisk /\ mon.order = o
              /\ rows'[o] = RiskStateRow(rows[o], ApplyRisk(mon.row, mon.price))
<1>1. rows[o] \in Row
  BY DEF SafetyInv, TypeOK
<1>2. \A reason, exit, pnl :
          /\ SameRisk(CloseRow(rows[o], reason, exit, pnl), rows[o])
          /\ CloseRow(rows[o], reason, exit, pnl).side = rows[o].side
          /\ CloseRow(rows[o], reason, exit, pnl).sl = rows[o].sl
  BY <1>1 DEF CloseRow, Row, SameRisk
<1>3. /\ SameRisk([rows[o] EXCEPT !.alerted = TRUE], rows[o])
      /\ [rows[o] EXCEPT !.alerted = TRUE].side = rows[o].side
      /\ [rows[o] EXCEPT !.alerted = TRUE].sl = rows[o].sl
  BY <1>1 DEF Row, SameRisk
<1>4. CASE rows'[o] = rows[o]
  BY <1>4 DEF SameRisk
<1>5. ASSUME NEW exit, NEW pnl, NEW reason, rows'[o] = CloseRow(rows[o], reason, exit, pnl)
      PROVE  /\ SameRisk(rows'[o], rows[o])
             /\ rows'[o].side = rows[o].side /\ rows'[o].sl = rows[o].sl
  BY <1>2, <1>5
<1>6. CASE rows'[o] = [rows[o] EXCEPT !.alerted = TRUE]
  BY <1>3, <1>6
<1>7. CASE ~\/ rows'[o] = rows[o]
            \/ rows'[o] = [rows[o] EXCEPT !.alerted = TRUE]
            \/ \E exit, pnl, reason : rows'[o] = CloseRow(rows[o], reason, exit, pnl)
  <2>1. ~\E r \in Editors : ApplyEdit(r) /\ req[r].order = o
    OBVIOUS
  <2>2. QED
    BY <1>7, <2>1, RowWrites
<1>8. QED
  BY <1>4, <1>5, <1>6, <1>7

LEMMA RiskInvStep ==
    ASSUME SafetyInv, SnapshotInv, RoleInv, CopyInv, RiskInv, GridTerms, Editors = {}, Next
    PROVE  RiskInv'
<1>1. /\ TypeOK /\ PlacementInv /\ SeenInv /\ MonitorInv /\ mon \in Monitor
      /\ \A o \in Orders : rows[o] \in Row
  BY DEF SafetyInv, ThreadInv, TypeOK
<1>2. ASSUME NEW o \in Orders, seen'[o].status = "open" PROVE SameRisk(seen'[o], rows'[o])
  <2>1. CASE seen'[o] = rows[o] /\ rows' = rows
    BY <2>1 DEF SameRisk
  <2>2. CASE seen'[o] = seen[o]
    <3>1. Exists(o) /\ SameRisk(seen[o], rows[o])
      BY <1>1, <1>2, <2>2 DEF SeenInv, RiskInv
    <3>2. ~(ManageRisk /\ mon.order = o)
      BY <1>1, <1>2, <2>2 DEF ManageRisk, MonitorInv
    <3>3. SameRisk(rows'[o], rows[o])
      BY <3>1, <3>2, RiskStateStep
    <3>4. QED
      BY <2>2, <3>1, <3>3 DEF SameRisk
  <2>3. QED
    BY <1>2, <2>1, <2>2, SeenStep
<1>3. ASSUME mon'.pc = "priced" PROVE SameRisk(mon'.row, rows'[mon'.order])
  <2>1. CASE mon' = mon /\ ~ManageRisk
    <3>1. mon.order \in Orders /\ Exists(mon.order) /\ SameRisk(mon.row, rows[mon.order])
      BY <1>1, <1>3, <2>1 DEF MonitorInv, RiskInv
    <3>2. SameRisk(rows'[mon.order], rows[mon.order])
      BY <2>1, <3>1, RiskStateStep
    <3>3. QED
      BY <2>1, <3>1, <3>2 DEF SameRisk
  <2>2. ASSUME NEW o \in Orders, mon'.order = o, mon'.row = seen[o], rows' = rows,
               seen[o].status = "open"
        PROVE  SameRisk(mon'.row, rows'[mon'.order])
    BY <2>2 DEF RiskInv
  <2>3. QED
    BY <1>3, <2>1, <2>2, PricedStep
<1>4. ASSUME NEW o \in Orders
      PROVE  /\ rows'[o].status # "absent" => rows'[o].qty # 0
             /\ Protected(rows'[o])
  <2>1. Protected(rows[o]) /\ (Exists(o) => rows[o].qty # 0)
    BY DEF RiskInv, StopProtects, LockProtects, TrailProtects, Protected
  <2>2. CASE Exists(o)
    <3>1. CASE /\ SameRisk(rows'[o], rows[o])
               /\ rows'[o].side = rows[o].side /\ rows'[o].sl = rows[o].sl
      BY <2>1, <2>2, <3>1, ProtectedSame DEF SameRisk
    <3>2. CASE /\ ManageRisk /\ mon.order = o
               /\ rows'[o] = RiskStateRow(rows[o], ApplyRisk(mon.row, mon.price))
      <4>1. mon.pc = "priced" /\ mon.row \in Row /\ mon.price \in Prices
        BY <1>1, <3>2 DEF ManageRisk, Monitor, MonitorInv
      <4>2. SameRisk(mon.row, rows[o]) /\ SameLevels(mon.row, rows[o]) /\ OnGrid(rows[o].sl)
        BY <3>2, <4>1 DEF RiskInv, CopyInv, SnapshotInv
      <4>3. Truthy(rows[o].entry)
        <5>1. PICK t \in Terms : rows[o].entry = t.entry
          BY <1>1, <2>2 DEF PlacementInv
        <5>2. t.entry \in Nat \ {0}
          BY TermsAssumption
        <5>3. QED
          BY <5>1, <5>2 DEF Truthy, None
      <4>4. mon.price \in Int
        <5>1. \A p \in Prices : p \in Int
          BY PricesAssumption
        <5>2. QED
          BY <4>1, <5>1
      <4>5. Protected(rows'[o])
        BY <1>1, <2>1, <2>2, <3>2, <4>1, <4>2, <4>3, <4>4, WriteProtects
      <4>6. rows'[o].qty = rows[o].qty
        BY <1>1, <3>2 DEF RiskStateRow, Row
      <4>7. QED
        BY <2>1, <2>2, <4>5, <4>6
    <3>3. QED
      BY <2>2, <3>1, <3>2, RiskStateStep
  <2>3. CASE ~Exists(o)
    <3>1. rows'[o] = rows[o] \/ \E t \in Terms, s \in Settings : rows'[o] = NewRow(t, s)
      <4>1. ASSUME mon.order = o, mon.pc \notin {"idle", "loop"} PROVE FALSE
        BY <1>1, <2>3, <4>1 DEF MonitorInv
      <4>2. ASSUME NEW r \in Closers \cup Editors, req[r].order = o, req[r].pc # "idle" PROVE FALSE
        BY <2>3, <4>2 DEF SafetyInv, ThreadInv, RequestInv
      <4>3. QED
        BY <4>1, <4>2, RowWrites
           DEF ManageRisk, ClosePaperHit, CloseLiveHit, MarkAlertSent, RecordClose, ApplyEdit
    <3>2. ASSUME NEW t \in Terms, NEW s \in Settings, rows'[o] = NewRow(t, s)
          PROVE  rows'[o].qty # 0 /\ Protected(rows'[o])
      <4>1. t.qty # 0
        BY TermsAssumption
      <4>2. QED
        BY <3>2, <4>1 DEF NewRow, Protected
    <3>3. QED
      BY <2>1, <2>3, <3>1, <3>2 DEF Exists
  <2>4. QED
    BY <2>2, <2>3
<1>5. StopProtects'
  BY <1>4 DEF StopProtects, LockProtects, TrailProtects, Protected
<1>6. QED
  BY <1>2, <1>3, <1>4, <1>5 DEF RiskInv, SameRisk, Exists

\* While nobody edits the risk settings, a lock flag stands for a lock the stored stop
\* keeps, and a moved peak for a stop that trails it, whatever the settings, the prices,
\* the closes and the faults.
THEOREM StopsProtect ==
    ASSUME GridTerms, Editors = {} PROVE Spec => []StopProtects
<1>1. Init => SnapshotInv
  <2>1. Absent.status = "absent" /\ OnGrid(Absent.sl) /\ Idle.pc = "idle"
    BY DEF Absent, OnGrid, Idle
  <2>2. QED
    BY <2>1 DEF Init, NothingSeen, SnapshotInv
<1>2. Init => RiskInv
  <2>1. /\ Absent.status = "absent" /\ ~Absent.locked /\ Absent.risk.trail_pct = 0
        /\ Idle.pc = "idle"
    BY DEF Absent, NoRisk, Idle
  <2>2. ASSUME Init, NEW o \in Orders PROVE rows[o] = Absent /\ seen[o] = Absent
    BY <2>2 DEF Init, NothingSeen
  <2>3. ASSUME Init PROVE StopProtects
    BY <2>1, <2>2, <2>3 DEF StopProtects, LockProtects, TrailProtects
  <2>4. QED
    BY <2>1, <2>2, <2>3 DEF Init, RiskInv, Exists
<1>3. SafetyInv /\ SnapshotInv /\ [Next]_vars => SnapshotInv'
  BY SnapshotStep DEF SnapshotInv, vars
<1>4. SafetyInv /\ SnapshotInv /\ ExitInv /\ RiskInv /\ [Next]_vars => RiskInv'
  <2>1. ASSUME RiskInv, UNCHANGED vars PROVE RiskInv'
    BY <2>1 DEF RiskInv, StopProtects, LockProtects, TrailProtects, Exists, vars, SameRisk
  <2>2. QED
    BY <2>1, RiskInvStep DEF ExitInv
<1>5. RiskInv => StopProtects
  BY DEF RiskInv
<1>6. QED
  BY <1>1, <1>2, <1>3, <1>4, <1>5, SafetyHolds, ExitsHold, PTL DEF Spec
=============================================================================
