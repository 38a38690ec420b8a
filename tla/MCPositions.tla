---------------------------- MODULE MCPositions ----------------------------
(***************************************************************************)
(* Instances of Positions for TLC.  Prices are in hundredths of a paise:   *)
(* one rupee is 10000.                                                     *)
(***************************************************************************)
EXTENDS Positions

\* Quotes around an entry at one rupee: below the stop, a gain that arms a
\* lock, and a further gain.
MCPrices == {9000, 10000, 11000, 12500}

\* At the stop, at the entry and at the target.
MCPrices2 == {9000, 10000, 12500}

Long  == [side |-> "buy",  qty |-> 2, entry |-> 10000, sl |-> 9500,  target |-> 12500]
Short == [side |-> "sell", qty |-> 2, entry |-> 11000, sl |-> 12000, target |-> 9000]
NoStop == [side |-> "buy", qty |-> 1, entry |-> 10000, sl |-> None,  target |-> None]
AllTerms == {Long, Short, NoStop}
BothSides == {Long, Short}
LongOnly == {Long}

\* At an entry of one rupee and 11000, the locks are above the trail: they
\* bind; at 12500 the trail is.  So they do, mirrored, for Short.
Trail == [NoRisk EXCEPT !.trail_pct = 7]
Lock == [NoRisk EXCEPT !.lock_trigger_pct = 9, !.lock_pct = 3]
All == [trail_pct |-> 7, lock_trigger_pct |-> 9, lock_pct |-> 3,
        lock_trigger_amount |-> 2000, lock_amount |-> 1100]
NoSettings == {NoRisk}
TwoSettings == {Trail, All}
LockOrAll == {Lock, All}
=============================================================================
