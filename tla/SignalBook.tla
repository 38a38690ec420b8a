----------------------------- MODULE SignalBook -----------------------------
(***************************************************************************)
(* What the intake promises: a signal is recorded once, on grounds that    *)
(* are recorded, and one order at most is placed for it, after that,       *)
(* however many actors try.  AutoTrade refines this.                       *)
(***************************************************************************)
EXTENDS Sequences

CONSTANTS
    Signals,
    Grounds  \* per signal: sets of signals, each enough to record it on

VARIABLES
    recorded, \* the signals in the table
    placed    \* the signals that orders were placed for, one by one

Init ==
    /\ recorded = {}
    /\ placed = <<>>

Record(s) ==
    /\ s \notin recorded
    /\ \E ground \in Grounds[s] : ground \subseteq recorded
    /\ recorded' = recorded \cup {s}
    /\ UNCHANGED placed

Place(s) ==
    /\ s \in recorded /\ \A i \in DOMAIN placed : placed[i] # s
    /\ placed' = Append(placed, s)
    /\ UNCHANGED recorded

Next == \E s \in Signals : Record(s) \/ Place(s)

Spec == Init /\ [][Next]_<<recorded, placed>>
=============================================================================
