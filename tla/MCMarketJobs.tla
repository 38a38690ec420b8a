---------------------------- MODULE MCMarketJobs ----------------------------
(* Instances of MarketJobs and of BrokerSessions for TLC. *)
EXTENDS MarketJobs, TLC
CONSTANTS a, b, c

Universe == {a, b, c}
MCSector == [s \in Universe |-> IF s = c THEN "metal" ELSE "bank"]
OneSector == [s \in Universe |-> "bank"]
MCDownloads == {Universe, {c}}
AskedFor == {a}

\* A strong market and a weak one, by turns; two symbols tie at the open.
Strong == (a :> [long |-> TRUE, ret |-> 30, ext |-> 1, slope |-> 1]) @@ (b :> [long |-> TRUE, ret |-> 20, ext |-> 1, slope |-> 0])
            @@ (c :> [long |-> TRUE, ret |-> 20, ext |-> -1, slope |-> 0])
Weak == (a :> [long |-> TRUE, ret |-> 10, ext |-> -1, slope |-> -1]) @@ (b :> [long |-> TRUE, ret |-> 20, ext |-> -1, slope |-> 0])
          @@ (c :> [long |-> FALSE, ret |-> 0, ext |-> 1, slope |-> 1])
MCCloses(t) == IF t.slot = 1 THEN Weak ELSE Strong

Best == [tech |-> [trend |-> "up", breakout |-> "up", volume |-> 200, rsi |-> 60, rel |-> 1], oi |-> 5, news |-> "positive",
         stock |-> [tier |-> "large", rel |-> 1], market |-> Unavailable, screener |-> [passed |-> 9, total |-> 9],
         entry |-> 100, sl |-> 90, target |-> 120]
Middling == [tech |-> [trend |-> "mixed", breakout |-> "down", volume |-> 120, rsi |-> 72, rel |-> Unavailable], oi |-> -1, news |-> "none",
             stock |-> Unavailable, market |-> Unavailable, screener |-> Unavailable,
             entry |-> 100, sl |-> 90, target |-> Unavailable]
MCFacts == {Best, Middling}

KiteOnly == <<"kite">>
KiteAndDhan == <<"kite", "dhan">>
=============================================================================
