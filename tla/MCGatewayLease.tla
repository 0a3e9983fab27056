---------------------------- MODULE MCGatewayLease ----------------------------
(* Two launchers, two gateway processes and an operator. *)
EXTENDS GatewayLease
=============================================================================
