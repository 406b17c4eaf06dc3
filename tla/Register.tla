------------------------------- MODULE Register -------------------------------
(***************************************************************************)
(* What a file store promises: a register that several writers replace     *)
(* whole. A reader sees the old value or the new one. A write that was     *)
(* acknowledged outlives a power cut; one that was not may be lost, but    *)
(* never in part.                                                          *)
(***************************************************************************)
CONSTANTS Writers, Values, Idle, Done

VARIABLES
  value,     \* what a reader finds
  stable,    \* what a reader would find after a power cut
  pending    \* for each writer: the value it writes, Done once it is in, or Idle

regVars == <<value, stable, pending>>

RegInit ==
  /\ value \in Values /\ stable = value
  /\ pending = [w \in Writers |-> Idle]

Begin(w) ==
  /\ pending[w] = Idle
  /\ \E v \in Values : pending' = [pending EXCEPT ![w] = v]
  /\ UNCHANGED <<value, stable>>

Commit(w) ==
  /\ pending[w] \in Values
  /\ value' = pending[w]
  /\ stable' \in {stable, value'}
  /\ pending' = [pending EXCEPT ![w] = Done]

Acknowledge(w) ==
  /\ pending[w] = Done
  /\ stable' = value
  /\ pending' = [pending EXCEPT ![w] = Idle]
  /\ UNCHANGED value

(* The write failed or its process ended.                                   *)
Abandon(w) ==
  /\ pending' = [pending EXCEPT ![w] = Idle]
  /\ UNCHANGED <<value, stable>>

Settle == stable' = value /\ UNCHANGED <<value, pending>>

PowerCut ==
  /\ value' \in {value, stable}
  /\ stable' = value'
  /\ pending' = [w \in Writers |-> Idle]

RegNext ==
  \/ \E w \in Writers : Begin(w) \/ Commit(w) \/ Acknowledge(w) \/ Abandon(w)
  \/ Settle
  \/ PowerCut

RegSpec == RegInit /\ [][RegNext]_regVars
=============================================================================
