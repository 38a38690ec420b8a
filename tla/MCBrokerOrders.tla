--------------------------- MODULE MCBrokerOrders ---------------------------
(* An instance of BrokerOrders for TLC. *)
EXTENDS BrokerOrders

KiteAndDhan == <<"kite", "dhan">>
=============================================================================
