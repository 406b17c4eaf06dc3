------------------------------ MODULE MCRouting ------------------------------
(* Two servers, so that laying the pins can stop half way, and two uplinks,  *)
(* so that a reconnect can find another one.                                 *)
EXTENDS Routing
=============================================================================
