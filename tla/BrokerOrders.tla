---------------------------- MODULE BrokerOrders ----------------------------
(* Which broker a live order goes to: place_live_order and _close_live_order of trading.py.  The row of an order keeps
   the broker its entry went to, but nothing reads it again: entry and exit each take the first adapter with a session
   at their own moment, and place_order asks for the session once more.  Order rows and their monitor are the subject
   of Positions; here a position is only the broker of its entry and whether its row is open. *)
EXTENDS BrokerSessions

CONSTANT MaxPositions

VARIABLES
  order,      \* of each user, the entry or exit under way: what, and the adapter chosen for it, or None
  position,   \* of each user, the newest live order: the broker of its entry, and whether its row is open, or None
  opened,     \* how many positions a user has opened
  held        \* what each user really holds at each broker

orderVars == <<order, position, opened, held>>
vars == <<clock, brokerVars, orderVars>>

Init ==
  /\ clock = Start /\ BrokerInit
  /\ order = [u \in Users |-> None]
  /\ position = [u \in Users |-> None]
  /\ opened = [u \in Users |-> 0]
  /\ held = [u \in Users |-> [b \in Brokers |-> 0]]

ChooseFor(u, what) ==
  /\ order[u] = None /\ Connected(u) # None
  /\ order' = [order EXCEPT ![u] = [what |-> what, broker |-> Connected(u)]]
  /\ UNCHANGED <<clock, brokerVars, position, opened, held>>

IsOpen(u) == position[u] # None /\ position[u].open

\* place_live_order up to the order.
BeginEntry(u) == ~IsOpen(u) /\ opened[u] < MaxPositions /\ ChooseFor(u, "entry")

\* _close_live_order: a user's close, or the monitor's exit.
BeginExit(u) == IsOpen(u) /\ ChooseFor(u, "exit")

\* place_order asks for the session again.
Accepts(u, b) == ValidSession(u, b)

SubmitEntry(u) ==
  /\ order[u] # None /\ order[u].what = "entry" /\ Accepts(u, order[u].broker)
  /\ held' = [held EXCEPT ![u][order[u].broker] = @ + 1]
  /\ position' = [position EXCEPT ![u] = [broker |-> order[u].broker, open |-> TRUE]]
  /\ opened' = [opened EXCEPT ![u] = @ + 1]
  /\ order' = [order EXCEPT ![u] = None]
  /\ UNCHANGED <<clock, brokerVars>>

SubmitExit(u) ==
  /\ order[u] # None /\ order[u].what = "exit" /\ Accepts(u, order[u].broker)
  /\ held' = [held EXCEPT ![u][order[u].broker] = @ - 1]
  /\ position' = [position EXCEPT ![u].open = FALSE]
  /\ order' = [order EXCEPT ![u] = None]
  /\ UNCHANGED <<clock, brokerVars, opened>>

\* The session is gone, or the broker refuses: nothing is placed, no row is written or closed.
OrderFails(u) ==
  /\ order[u] # None
  /\ order' = [order EXCEPT ![u] = None]
  /\ UNCHANGED <<clock, brokerVars, position, opened, held>>

OrderStep ==
  \E u \in Users : BeginEntry(u) \/ BeginExit(u) \/ SubmitEntry(u) \/ SubmitExit(u) \/ OrderFails(u)

Next == OrderStep \/ ((BrokerStep \/ (Tick /\ UNCHANGED brokerVars)) /\ UNCHANGED orderVars)
Spec == Init /\ [][Next]_vars

------------------------------------------------------------------------------
(* A closed row means that the real position is closed where it is: "it never just marks the DB row closed while
   leaving the real position open on the broker" (trading.py:457-459). *)
ClosedIsFlat ==
  \A u \in Users : position[u] # None /\ ~position[u].open => held[u][position[u].broker] = 0
=============================================================================
