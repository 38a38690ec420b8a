---------------------------- MODULE RiskManager ----------------------------
(***************************************************************************)
(* The Risk Manager of app/trading.py: the pure functions the position     *)
(* monitor runs on one order and one price.                                *)
(*                                                                         *)
(* Money is counted in hundredths of a paise, so that a percentage of a    *)
(* whole-paise amount is exact and the code's round(x, 2), a rounding to   *)
(* whole paise, is visible.  Python's None is the integer None, which is   *)
(* no multiple of Tick; the code's truth test on a number is Truthy.       *)
(***************************************************************************)
EXTENDS Integers

Tick == 100          \* one paise
None == -1
Truthy(x) == x \notin {None, 0}

Sides == {"buy", "sell"}
NoHit == "none"
Hits  == {"sl_hit", "target_hit"}

(***************************************************************************)
(* The risk settings of an order.  A percentage or an amount is 0 when the *)
(* rule is switched off: the code asks that both halves of a lock rule be  *)
(* set, and that trailing be enabled with a percentage.  A trigger is the  *)
(* profit that arms a lock; a lock is the profit the stop is moved to.     *)
(***************************************************************************)
RiskSettings ==
    [trail_pct : 0..50,
     lock_trigger_pct : 0..100, lock_pct : 0..100,
     lock_trigger_amount : Nat, lock_amount : Nat]

\* round(x, 2): to the nearest whole paise, ties to the even one.
Round(x) ==
    LET whole == x \div Tick
        rest  == x % Tick
        up    == \/ 2 * rest > Tick
                 \/ 2 * rest = Tick /\ whole % 2 = 1
    IN  IF up THEN (whole + 1) * Tick ELSE whole * Tick

\* a is strictly better than b as a stop (or as a price) for this side.
Beyond(side, a, b) == IF side = "buy" THEN a > b ELSE a < b

\* The level that is pct percent of profit away from the price p.
ProfitLevel(side, p, pct) ==
    IF side = "buy" THEN (p * (100 + pct)) \div 100
                    ELSE (p * (100 - pct)) \div 100

\* Unrealised profit per share.
Profit(side, entry, price) ==
    IF side = "buy" THEN price - entry ELSE entry - price

\* Mutant: the old stop is not looked at.
BetterAlways(side, candidate, sl) == TRUE

\* _better: a candidate replaces no stop, or a stop that is less tight.
Better(side, candidate, sl) == sl = None \/ Beyond(side, candidate, sl)

\* The stop `new' protects at least as much as the stop `old'.
AtLeastAsTight(side, new, old) == old = None \/ (new # None /\ ~Beyond(side, old, new))

(***************************************************************************)
(* The stops the profit-lock rules of settings s propose, and which of     *)
(* them a price arms.                                                      *)
(***************************************************************************)
PctLock(o, s)    == ProfitLevel(o.side, o.entry, s.lock_pct)
AmountLock(o, s) == IF o.side = "buy" THEN o.entry + s.lock_amount \div o.qty
                                      ELSE o.entry - s.lock_amount \div o.qty

PctArmed(o, s, price) ==
    /\ s.lock_trigger_pct # 0
    /\ Profit(o.side, o.entry, price) * 100 >= s.lock_trigger_pct * o.entry

AmountArmed(o, s, price) ==
    /\ s.lock_trigger_amount # 0
    /\ o.qty # 0
    /\ Profit(o.side, o.entry, price) * o.qty >= s.lock_trigger_amount

\* Mutant: a lock only breaks even.
LockStopAtEntry(o, s, price) == o.entry

\* The tighter of the armed locks.
LockStop(o, s, price) ==
    IF ~AmountArmed(o, s, price) THEN PctLock(o, s)
    ELSE IF /\ PctArmed(o, s, price)
            /\ Beyond(o.side, PctLock(o, s), AmountLock(o, s))
         THEN PctLock(o, s)
         ELSE AmountLock(o, s)

TrailStop(side, peak, s) == ProfitLevel(side, peak, -s.trail_pct)

\* apply_risk_management: the order's stop, peak and lock flag after a price.
ApplyRisk(o, price) ==
    LET s      == o.risk
        old    == IF Truthy(o.peak) THEN o.peak ELSE o.entry
        peak   == IF Beyond(o.side, price, old) THEN price ELSE old
        fires  == ~o.locked /\ (PctArmed(o, s, price) \/ AmountArmed(o, s, price))
        lock   == LockStop(o, s, price)
        sl1    == IF fires /\ Better(o.side, lock, o.sl) THEN Round(lock) ELSE o.sl
        trail  == TrailStop(o.side, peak, s)
        trails == s.trail_pct # 0 /\ Better(o.side, trail, sl1)
        sl2    == IF trails THEN Round(trail) ELSE sl1
    IN  IF ~Truthy(o.entry)
        THEN [sl |-> o.sl, peak |-> old, locked |-> o.locked, changed |-> FALSE]
        ELSE [sl |-> sl2, peak |-> peak, locked |-> o.locked \/ fires,
              changed |-> peak # old \/ fires \/ trails]

\* _check_hit: the stop is looked at before the target.
ReachedStop(o, price)   == Truthy(o.sl) /\ ~Beyond(o.side, price, o.sl)
ReachedTarget(o, price) == Truthy(o.target) /\ ~Beyond(o.side, o.target, price)

CheckHit(o, price) ==
    IF ReachedStop(o, price) THEN "sl_hit"
    ELSE IF ReachedTarget(o, price) THEN "target_hit"
    ELSE NoHit

\* _calc_pnl, for an exit at the given price.
CalcPnl(o, exit) ==
    Round(Profit(o.side, IF o.entry = None THEN 0 ELSE o.entry, exit) * o.qty)
=============================================================================
