----------------------------- MODULE MCLifecycle -----------------------------
(* The lifecycle on small instances: two exception lists, so that a          *)
(* reconnect can keep the list, change it or drop it, and the set of         *)
(* backend faults the run allows.                                            *)
EXTENDS Lifecycle

(* Without a cleanup whose failure the daemon cannot see or does not retry.  *)
SeenFaults == FaultKinds \ {"helper", "silent", "unsplit"}
=============================================================================
