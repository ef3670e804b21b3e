------------------------- MODULE MCBrokerConnection -------------------------
(* Instances of BrokerConnection for TLC: the cfgs give all the constants. *)
EXTENDS BrokerConnection
=============================================================================
