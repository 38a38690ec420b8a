--------------------------- MODULE BrokerSessions ---------------------------
(* The users' broker accounts and their sessions (brokers/*.py and the routes of main.py).  Time is a day and an instant
   of it.  Kite and Upstox log in through their own site and get a token for the day; Dhan's token is pasted and counts
   for 24 hours from then. *)
EXTENDS Integers, SequencesExt

CONSTANTS Users, Keys,
          Adapters,      \* BROKER_PRIORITY: the adapters in the order they are tried
          MaxDay, MaxSlot, MaxLogins
CONSTANT None            \* no value

ASSUME SessionsAssumption == MaxDay \in Nat /\ MaxSlot \in Nat /\ MaxLogins \in Nat

Brokers == ToSet(Adapters)
Pasted  == Brokers \cap {"dhan"}
Instant == [day : 0..MaxDay, slot : 0..MaxSlot]

VARIABLES
  clock,      \* the time in India
  accounts,   \* broker_accounts: a row per user and broker, or None
  login,      \* of each user, the callback under way: the broker and the credentials it has read, or None
  logins      \* how many callbacks and pasted tokens there were

brokerVars == <<accounts, login, logins>>

Accounts == [key : Keys, token : BOOLEAN, since : Instant, connected : BOOLEAN]
Start == [day |-> 0, slot |-> 0]

BrokerInit ==
  /\ accounts = [u \in Users |-> [b \in Brokers |-> None]]
  /\ login = [u \in Users |-> None]
  /\ logins = 0
------------------------------------------------------------------------------
\* get_client, _access_token, _creds: a token of today, or of the last 24 hours.
Fresh(b, since) ==
  \/ clock.day = since.day
  \/ b \in Pasted /\ clock.day = since.day + 1 /\ clock.slot < since.slot

ValidSession(u, b) == accounts[u][b] # None /\ accounts[u][b].token /\ Fresh(b, accounts[u][b].since)

\* get_connected_adapter
Sessions(u) == {i \in DOMAIN Adapters : ValidSession(u, Adapters[i])}
Connected(u) == IF Sessions(u) = {} THEN None ELSE Adapters[CHOOSE i \in Sessions(u) : \A j \in Sessions(u) : i <= j]

\* list_user_ids_with_broker
ListedUsers(b) == {u \in Users : accounts[u][b] # None /\ accounts[u][b].connected}

------------------------------------------------------------------------------
(* The accounts.  Only the callback talks to the broker between its reading and its writing. *)

\* A row without a token has no date: the start of time stands for it.
NewAccount(key) == [key |-> key, token |-> FALSE, since |-> Start, connected |-> FALSE]

SaveCredentials(u, b) ==
  /\ b \notin Pasted
  /\ \E key \in Keys :
       accounts' = [accounts EXCEPT ![u][b] = IF @ = None THEN NewAccount(key)
                                              ELSE [@ EXCEPT !.key = key, !.connected = accounts[u][b].token]]
  /\ UNCHANGED <<clock, login, logins>>

StartCallback(u, b) ==
  /\ b \notin Pasted /\ accounts[u][b] # None /\ login[u] = None /\ logins < MaxLogins
  /\ login' = [login EXCEPT ![u] = [broker |-> b, read |-> accounts[u][b]]]
  /\ logins' = logins + 1
  /\ UNCHANGED <<clock, accounts>>

\* generate_session, exchange_code: the token is stored with the date alone.
FinishCallback(u) ==
  /\ login[u] # None
  /\ accounts' = [accounts EXCEPT ![u][login[u].broker] =
                    [login[u].read EXCEPT !.token = TRUE, !.since = [clock EXCEPT !.slot = 0], !.connected = TRUE]]
  /\ login' = [login EXCEPT ![u] = None]
  /\ UNCHANGED <<clock, logins>>

CallbackFails(u) ==
  /\ login[u] # None
  /\ login' = [login EXCEPT ![u] = None]
  /\ UNCHANGED <<clock, accounts, logins>>

PasteToken(u, b) ==
  /\ b \in Pasted /\ logins < MaxLogins
  /\ \E key \in Keys :
       accounts' = [accounts EXCEPT ![u][b] = [key |-> key, token |-> TRUE, since |-> clock, connected |-> TRUE]]
  /\ logins' = logins + 1
  /\ UNCHANGED <<clock, login>>

Disconnect(u, b) ==
  /\ accounts[u][b] # None
  /\ accounts' = [accounts EXCEPT ![u][b].connected = FALSE]
  /\ UNCHANGED <<clock, login, logins>>

BrokerStep ==
  \E u \in Users :
    \/ \E b \in Brokers : SaveCredentials(u, b) \/ StartCallback(u, b) \/ PasteToken(u, b) \/ Disconnect(u, b)
    \/ FinishCallback(u) \/ CallbackFails(u)

\* Time goes by to the next instant that matters.
Tick ==
  /\ clock # [day |-> MaxDay, slot |-> MaxSlot]
  /\ clock' = IF clock.slot < MaxSlot THEN [clock EXCEPT !.slot = @ + 1] ELSE [day |-> clock.day + 1, slot |-> 0]

BrokerTypeOK ==
  /\ clock \in Instant
  /\ accounts \in [Users -> [Brokers -> Accounts \cup {None}]]
  /\ login \in [Users -> [broker : Brokers \ Pasted, read : Accounts] \cup {None}]
  /\ logins \in 0..MaxLogins
=============================================================================
