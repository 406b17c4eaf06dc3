------------------------------- MODULE MCDaemon -------------------------------
(* The daemon process on a small instance: one exception list, one fault of   *)
(* the lifecycle, every fault of the state file and of recovery, one end of   *)
(* the process.                                                               *)
EXTENDS Daemon

AllStoreFaults == {"persist", "inspect", "remove"}
==============================================================================
