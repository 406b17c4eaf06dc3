------------------------------- MODULE MCProbe -------------------------------
(***************************************************************************)
(* A ping that may start over once and a preflight that starts once, on a  *)
(* host with two free ports.                                               *)
(***************************************************************************)
EXTENDS Probe, TLC

CONSTANTS a, v

MCStarts == a :> 2 @@ v :> 1
=============================================================================
