--------------------------- MODULE TradeGrouping ---------------------------
(***************************************************************************)
(* The pure part of the trading journal: FIFO grouping of executions into  *)
(* round trips (trademind/parser_zerodha.py), the charges of a round trip  *)
(* (trademind/charges.py) and its verdicts under the user's own rules      *)
(* (trademind/scoring.py).                                                 *)
(*                                                                         *)
(* An execution is [id, symbol, side, qty, price, day]; price times qty is *)
(* in thousands of rupees and money comes out in paise.                    *)
(***************************************************************************)
EXTENDS Integers, Sequences, FiniteSets, SequencesExt

None      == 0      \* no stop, target or risk in a plan
NotJudged == "none"

\* What parse_csv lets through.
Executions == [id : Nat, symbol : STRING, side : {"buy", "sell"}, qty : Nat \ {0},
               price : Nat \ {0}, day : Nat]

\* What at numbers differently, sorted by its number.
InOrder(at) ==
    LET rank(x) == Cardinality({y \in DOMAIN at : at[y] <= at[x]})
    IN  [i \in 1..Cardinality(DOMAIN at) |-> CHOOSE x \in DOMAIN at : rank(x) = i]

-----------------------------------------------------------------------------
(* group_into_trades *)

\* A leg is an execution and how much of it the trade matched.
Leg(ex, q)  == [ex |-> ex, qty |-> q]
Trade(side) == [side |-> side, entries |-> <<>>, exits |-> <<>>, pnl |-> 0]
SideOf(ex)  == IF ex.side = "buy" THEN "long" ELSE "short"
Sign(side)  == IF side = "long" THEN 1 ELSE -1
Lesser(a, b) == IF a < b THEN a ELSE b

\* An exit eats the open lots from the oldest on: what is left of the exit,
\* the lots still open and the profit it realized.
EatLot(m, lot, ex, side) ==
    LET q == Lesser(m.left, lot.qty)
    IN  [left |-> m.left - q,
         lots |-> IF lot.qty > q THEN Append(m.lots, [lot EXCEPT !.qty = @ - q]) ELSE m.lots,
         pnl  |-> m.pnl + q * (ex.price - lot.ex.price) * Sign(side)]

Eat(lots, ex, side) ==
    LET eaten[n \in 0..Len(lots)] ==
            IF n = 0 THEN [left |-> ex.qty, lots |-> <<>>, pnl |-> 0]
            ELSE EatLot(eaten[n - 1], lots[n], ex, side)
    IN  eaten[Len(lots)]

\* One execution: an entry, a partial exit, a full exit, or a flip, which
\* closes the trade and opens the opposite one with what is left.
Opened(g, ex)     == IF g.lots = <<>> THEN Trade(SideOf(ex)) ELSE g.open
Entered(t, ex, q) == [t EXCEPT !.entries = Append(@, Leg(ex, q))]
Exited(t, ex, m)  == [side |-> t.side, entries |-> t.entries,
                      exits |-> Append(t.exits, Leg(ex, ex.qty - m.left)), pnl |-> t.pnl + m.pnl]

Take(g, ex) ==
    LET open  == Opened(g, ex)
        eaten == Eat(g.lots, ex, open.side)
        exit  == Exited(open, ex, eaten)
    IN  CASE SideOf(ex) = open.side ->
               [g EXCEPT !.open = Entered(open, ex, ex.qty), !.lots = Append(@, Leg(ex, ex.qty))]
          [] SideOf(ex) # open.side /\ eaten.left > 0 ->
               [open   |-> Entered(Trade(SideOf(ex)), ex, eaten.left),
                lots   |-> <<Leg(ex, eaten.left)>>,
                closed |-> Append(g.closed, exit)]
          [] SideOf(ex) # open.side /\ eaten.left = 0 ->
               [open   |-> exit,
                lots   |-> eaten.lots,
                closed |-> IF eaten.lots = <<>> THEN Append(g.closed, exit) ELSE g.closed]

\* _group_one_symbol; an open lot is what is left of an entry.
NoGroup == [open |-> Trade("long"), lots |-> <<>>, closed |-> <<>>]
Grouped(execs, symbol) ==
    LET group[n \in 0..Len(execs)] ==
            IF n = 0 THEN NoGroup
            ELSE IF execs[n].symbol = symbol THEN Take(group[n - 1], execs[n])
                 ELSE group[n - 1]
    IN  group[Len(execs)]

\* execs in the order of their time; each symbol is grouped on its own.
Symbols(execs) == {execs[i].symbol : i \in DOMAIN execs}
GroupIntoTrades(execs) ==
    LET symbols == SetToSeq(Symbols(execs))
    IN  FlattenSeq([k \in DOMAIN symbols |-> Grouped(execs, symbols[k]).closed])

-----------------------------------------------------------------------------
(* finalize, and what run_import computes of a trade *)

SumSeq(s) ==
    LET sum[n \in 0..Len(s)] == IF n = 0 THEN 0 ELSE sum[n - 1] + s[n]
    IN  sum[Len(s)]
Quantity(ls) == SumSeq([i \in DOMAIN ls |-> ls[i].qty])
Value(ls)    == SumSeq([i \in DOMAIN ls |-> ls[i].qty * ls[i].ex.price])
ExitDay(t)   == t.exits[Len(t.exits)].ex.day
Product(t)   == IF t.entries[1].ex.day = ExitDay(t) THEN "intraday" ELSE "delivery"

\* Rates of a thousand rupees in 1/10000 rupee; GST is 18%.
Charges(product, buy, sell) ==
    LET delivery  == product = "delivery"
        brokerage == IF delivery THEN 0 ELSE Lesser(3000 * (buy + sell), 400000)
        exchange  == 297 * (buy + sell)
        stt       == IF delivery THEN 10000 * (buy + sell) ELSE 2500 * sell
        stamp     == (IF delivery THEN 1500 ELSE 300) * buy
        sebi      == 10 * (buy + sell)
    IN  (100 * (brokerage + stt + exchange + sebi + stamp) + 18 * (brokerage + exchange) + 5000)
            \div 10000

\* The entries count as bought and the exits as sold, whatever the side.
NetPnl(t) == 100000 * t.pnl - Charges(Product(t), Value(t.entries), Value(t.exits))

-----------------------------------------------------------------------------
(* evaluate_day_rules and evaluate_trade_rules, for an enabled rule *)

DayKinds == {"max_daily_loss", "max_trades_per_day"}

\* nets: the net profits of the day's trades.
DayCompliant(kind, threshold, nets) ==
    CASE kind = "max_daily_loss"     -> SumSeq(nets) >= -threshold
      [] kind = "max_trades_per_day" -> Len(nets) <= threshold

\* A plan is [sl, target, risk], each None or positive; a rule that needs what
\* the plan lacks does not judge the trade.
TradeVerdict(kind, threshold, plan, t) ==
    LET qty    == Quantity(t.entries)
        reward == IF plan.target * qty > Value(t.entries) THEN plan.target * qty - Value(t.entries)
                  ELSE Value(t.entries) - plan.target * qty
    IN  CASE kind = "mandatory_stop_loss" -> IF plan.sl = None THEN "broken" ELSE "kept"
          [] kind = "min_risk_reward" /\ None \in {plan.target, plan.risk} -> NotJudged
          [] kind = "min_risk_reward" /\ None \notin {plan.target, plan.risk} ->
               IF reward >= threshold * plan.risk * qty THEN "kept" ELSE "broken"

-----------------------------------------------------------------------------
(* What the grouping must do. *)

\* How much of an execution a trade and several trades use.
OfExecution(ls, ex) == SumSeq([i \in DOMAIN ls |-> IF ls[i].ex = ex THEN ls[i].qty ELSE 0])
UsedIn(t, ex)  == OfExecution(t.entries, ex) + OfExecution(t.exits, ex)
UsedOf(ts, ex) == SumSeq([i \in DOMAIN ts |-> UsedIn(ts[i], ex)])

\* A closed trade exits exactly what it entered, and its profit is what it got
\* for the one less what it paid for the other.
Balanced(t) ==
    /\ Quantity(t.entries) = Quantity(t.exits) /\ Quantity(t.exits) > 0
    /\ t.pnl = Sign(t.side) * (Value(t.exits) - Value(t.entries))
    /\ \A j \in DOMAIN t.entries : SideOf(t.entries[j].ex) = t.side
    /\ \A j \in DOMAIN t.exits : SideOf(t.exits[j].ex) # t.side

\* Every execution is used up by closed trades and the one position still
\* open, whose lots are what it entered and did not exit.
GroupingConserves(execs) ==
    \A symbol \in Symbols(execs) :
        LET g == Grouped(execs, symbol)
        IN  /\ \A i \in DOMAIN g.closed : Balanced(g.closed[i])
            /\ g.lots # <<>> =>
                   Quantity(g.open.entries) = Quantity(g.open.exits) + Quantity(g.lots)
            /\ \A i \in DOMAIN execs :
                   execs[i].symbol = symbol =>
                       UsedOf(g.closed, execs[i])
                         + (IF g.lots = <<>> THEN 0 ELSE UsedIn(g.open, execs[i])) = execs[i].qty
=============================================================================
