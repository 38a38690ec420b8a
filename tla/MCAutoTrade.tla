---------------------------- MODULE MCAutoTrade ----------------------------
(***************************************************************************)
(* Instances of AutoTrade for TLC.  The first letter of an event names its *)
(* source; every event is about the same symbol and direction.             *)
(***************************************************************************)
EXTENDS AutoTrade, TLC
CONSTANTS s1, c1, t1, t2, t3, m1, w1, w2

MCSource == [e \in Events |->
    CASE e = s1             -> "scanner"
      [] e = c1             -> "chartink"
      [] e \in {t1, t2, t3} -> "telegram"
      [] e = m1             -> "manual"]
MCChannel == [e \in Events |-> MCSource[e]]
MCPair    == [e \in Events |-> "pair"]
\* A Telegram message scores less than the rest.
MCScore   == [e \in Events |-> IF MCSource[e] = "telegram" THEN 7 ELSE 8]

ScanAndHit     == {s1, c1}
MessageAndText == {t1, m1}
Messages       == {t1, t2, t3}
OneScan        == {s1}

Off    == [mode |-> "off", min_score |-> 7]
Paper  == [mode |-> "paper", min_score |-> 7]
Live   == [mode |-> "live", min_score |-> 7]
Picky  == [mode |-> "live", min_score |-> 8]
OwnOn  == [on |-> TRUE, min_score |-> 7]
OwnOff == [on |-> FALSE, min_score |-> 7]
AnyGeneral  == {Off, Paper, Live, Picky}
PaperOrLive == {Paper, Live}
PaperOnly   == {Paper}
OnOnly      == {OwnOn}
OnOrOff     == {OwnOn, OwnOff}

Threads2 == {w1, w2}
Interchangeable == Permutations(Threads2)
=============================================================================
