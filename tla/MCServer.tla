------------------------------ MODULE MCServer ------------------------------
(* One client steers the connection and another asks for its state and       *)
(* reuses its connection; there are fewer slots than connections.            *)
EXTENDS Server
=============================================================================
