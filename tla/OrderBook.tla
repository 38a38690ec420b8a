----------------------------- MODULE OrderBook -----------------------------
(***************************************************************************)
(* What the orders table promises: an order is opened once and closed at   *)
(* most once, for one reason and at one price, and stays as it was closed, *)
(* however many actors try to close it.  Positions refines this.           *)
(***************************************************************************)
CONSTANTS Orders, Exits, None
VARIABLES status, exit

Reasons == {"manual_close", "sl_hit", "target_hit"}

Init ==
    /\ status = [o \in Orders |-> "absent"]
    /\ exit = [o \in Orders |-> None]

Open(o) ==
    /\ status[o] = "absent"
    /\ status' = [status EXCEPT ![o] = "open"]
    /\ UNCHANGED exit

Close(o, reason) ==
    /\ status[o] = "open"
    /\ status' = [status EXCEPT ![o] = reason]
    /\ \E price \in Exits : exit' = [exit EXCEPT ![o] = price]

Next == \E o \in Orders : Open(o) \/ \E reason \in Reasons : Close(o, reason)

Spec == Init /\ [][Next]_<<status, exit>>
=============================================================================
