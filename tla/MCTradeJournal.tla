--------------------------- MODULE MCTradeJournal ---------------------------
(* Small instances of TradeJournal. *)
EXTENDS TradeJournal

CONSTANTS loss, stop

Ex(sym, side, qty, price, day) ==
    [id |-> 0, symbol |-> sym, side |-> side, qty |-> qty, price |-> price, day |-> day]

\* A short and a long position of two symbols; a position closed in part, then
\* turned over, then closed overnight.
Plain == <<Ex("A", "sell", 1, 5, 1), Ex("A", "buy", 1, 4, 1), Ex("B", "buy", 1, 5, 1),
           Ex("B", "sell", 1, 3, 1)>>
Turned == <<Ex("A", "buy", 2, 5, 1), Ex("A", "sell", 1, 6, 1), Ex("A", "sell", 2, 4, 1),
            Ex("A", "buy", 1, 6, 2)>>
\* The first two positions and one closed a day later: more than is listed.
Busy == Plain \o <<Ex("A", "buy", 1, 5, 1), Ex("A", "sell", 1, 6, 2)>>
MCHistories == {Turned, Busy}

AllFiles == {{}, 1..1, 1..3, 3..6}

MCRuleKind  == (loss :> "max_daily_loss") @@ (stop :> "mandatory_stop_loss")
MCThreshold == (loss :> 100000) @@ (stop :> 0)
MCPlans     == {NoPlan, [sl |-> 4, target |-> 8, risk |-> 1]}
=============================================================================
