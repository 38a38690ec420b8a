----------------------------- MODULE MCBacktest -----------------------------
(* Two symbols: the candles of the first cover a trade and what follows it, the second is there for the threads. *)
EXTENDS Backtest

CONSTANTS s1, s2

Bar(low, high, close) == [low |-> low, high |-> high, close |-> close]

MCSymbols == {s1, s2}
MCHorizon == (s1 :> 3) @@ (s2 :> 1)
\* a quiet day; up through the target of a CE trade opened on it; down through the target of a PE trade; across all levels
MCBars == {Bar(9800, 10200, 10000), Bar(9900, 10500, 10400), Bar(9600, 10100, 9800), Bar(9400, 10600, 10000)}
=============================================================================
