------------------------------- MODULE MCSplit -------------------------------
(* Two processes suffice for a parent and its child, two applications for a   *)
(* plan that keeps, drops or swaps a rule; one of them is a sandbox.          *)
EXTENDS Split
=============================================================================
