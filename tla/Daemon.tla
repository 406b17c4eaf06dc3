------------------------------- MODULE Daemon -------------------------------
(***************************************************************************)
(* The life of a varmlend process around the connection lifecycle: startup *)
(* recovery (daemon/src/recovery.rs, main.rs), the state file the          *)
(* controller writes after every operation (controller.rs, state.rs), the  *)
(* shutdown signal, and the crash that may come between any two steps.     *)
(*                                                                         *)
(* What the kernel holds outlives the process; what the manager and the    *)
(* backend hold does not. Xray itself may or may not outlive its parent.   *)
(***************************************************************************)
EXTENDS Lifecycle

CONSTANTS
  StoreFaults,    \* subset of {"persist", "inspect", "remove"}
  MaxCrashes      \* bound on crashes and exits

ASSUME StoreAssumption ==
  /\ StoreFaults \subseteq {"persist", "inspect", "remove"}
  /\ MaxCrashes \in Nat

VARIABLES
  daemon,    \* "down", then "inspect", "remove", "save" (recovery), "up"
  todo,      \* recovery: resources still to be removed, in Resource's order
  file,      \* the Xray the state file names, "none", or "absent"
  dirty,     \* an operation has ended and is not persisted yet
  closing,   \* how far the shutdown task has come
  orderly,   \* history: it came up Disconnected and has persisted every state since
  crashes

daemonVars == <<daemon, todo, file, dirty, closing, orderly, crashes>>
allVars == <<vars, daemonVars>>

(* The order of `enum Resource`, in which a BTreeSet is walked.             *)
ResourceOrder == <<"xray", "tun", "routes", "dns", "hold", "split", "file">>
Resources == {ResourceOrder[i] : i \in DOMAIN ResourceOrder}

DaemonInit ==
  /\ Init
  /\ daemon = "down" /\ todo = {} /\ file = "absent" /\ dirty = FALSE
  /\ closing = "no" /\ orderly = FALSE /\ crashes = 0

(***************************************************************************)
(* Running                                                                 *)
(***************************************************************************)

(* Which process the identity in the state file belongs to after a step:    *)
(* the child it named may have been stopped, lost, replaced or have exited. *)
FileTracks ==
  file' =
    IF file = "child" /\ pc = "start" /\ pc' = "ready" THEN "orphan"
    ELSE IF file = "child" /\ xray' = "none" /\ identity' THEN "orphan"
    ELSE IF file = "child" /\ xray' # "running" THEN "dead"
    ELSE IF file = "orphan" /\ ~orphan' THEN "dead"
    ELSE file

(* A command, or the monitor, gets the manager's mutex. The shutdown task   *)
(* exits in the poll in which its disconnect returns: a command that gets   *)
(* the mutex in between is still validating, and has touched nothing.       *)
Begin ==
  /\ daemon = "up" /\ ~dirty
  /\ closing \in {"no", "wait"}
  /\ Command
  /\ dirty' = (pc' = "idle")
  /\ FileTracks
  /\ UNCHANGED <<daemon, todo, closing, orderly, crashes>>

(* Status with nothing to reconcile, and update_split when not connected,   *)
(* change nothing and are persisted all the same.                           *)
Touch ==
  /\ daemon = "up" /\ ~dirty /\ pc = "idle"
  /\ closing \in {"no", "wait"}
  /\ phase = "Connected" => DataPlaneAlive
  /\ dirty' = TRUE
  /\ UNCHANGED <<vars, daemon, todo, file, closing, orderly, crashes>>

(* One await of the operation; the one that ends it leaves it unpersisted.  *)
Proceed ==
  /\ daemon = "up" /\ Operation
  /\ dirty' = (pc' = "idle")
  /\ FileTracks
  /\ closing' = IF pc = "dropHold" /\ closing = "disconnecting"
                THEN (IF phase' = "Disconnected" THEN "done" ELSE "failed")
                ELSE closing
  /\ UNCHANGED <<daemon, todo, orderly, crashes>>

(* persist: StateStore.write is atomic, but its last step, syncing the      *)
(* directory, may fail after the rename. Any error is recorded as           *)
(* RecoveryRequired, without touching the data plane.                       *)
Identified ==
  IF ~identity THEN "none"
  ELSE IF xray = "running" THEN "child"
  ELSE IF xray = "none" /\ orphan THEN "orphan" ELSE "dead"

(* Mutation: a reconnect, which ends in the phase it began in, is taken for *)
(* no change.                                                               *)
Persist_OnChangeOnly ==
  /\ daemon = "up" /\ dirty /\ dirty' = FALSE
  /\ file' = IF was THEN file ELSE Identified
  /\ UNCHANGED <<vars, daemon, todo, closing, orderly, crashes>>

Persist ==
  /\ daemon = "up" /\ dirty /\ dirty' = FALSE
  /\ \/ file' = Identified /\ UNCHANGED <<phase, splitActive, dnsProtected, orderly>>
     \/ /\ "persist" \in StoreFaults
        /\ file' \in {file, Identified}
        /\ phase' = "RecoveryRequired"
        /\ splitActive' = FALSE /\ dnsProtected' = FALSE /\ orderly' = FALSE
  /\ UNCHANGED <<blockOnFailure, backendVars, kernelVars, opVars, daemon, todo,
                 closing, crashes>>

(* SIGTERM or SIGINT wakes the shutdown task; it queues for the mutex like  *)
(* any command, disconnects, and exits whatever came of it.                 *)
Terminate ==
  /\ daemon = "up" /\ closing = "no" /\ crashes < MaxCrashes
  /\ closing' = "wait"
  /\ UNCHANGED <<vars, daemon, todo, file, dirty, orderly, crashes>>

(* Mutation: the process exits without having disconnected.                 *)
ShutdownDisconnect_Skipped ==
  /\ daemon = "up" /\ closing = "wait" /\ ~dirty /\ pc = "idle"
  /\ closing' = "done"
  /\ UNCHANGED <<vars, daemon, todo, file, dirty, orderly, crashes>>

ShutdownDisconnect ==
  /\ daemon = "up" /\ closing = "wait" /\ ~dirty /\ Disconnect
  /\ closing' = "disconnecting"
  /\ UNCHANGED <<daemon, todo, file, dirty, orderly, crashes>>

(***************************************************************************)
(* The end of the process                                                  *)
(***************************************************************************)

(* What the process held is gone. Its Xray dies with it, or lives on with   *)
(* nobody to reap it; one survivor at a time is the bound of the model.     *)
ProcessEnds ==
  /\ daemon' = "down" /\ todo' = {} /\ dirty' = FALSE /\ closing' = "no"
  /\ phase' = "Disconnected" /\ splitActive' = FALSE /\ dnsProtected' = FALSE
  /\ blockOnFailure' = FALSE
  /\ xray' = "none" /\ identity' = FALSE /\ mode' = "none"
  /\ dnsActive' = FALSE /\ splitApps' = NoApps
  /\ pc' = "idle" /\ UNCHANGED <<ret, req, was, stopErr>>
  /\ \/ /\ tun' = IF tun = "child" THEN "none" ELSE tun
        /\ routes' = (routes /\ tun # "child")
        /\ file' = IF file = "child" THEN "dead" ELSE file
        /\ UNCHANGED orphan
     \/ /\ xray = "running" /\ ~orphan /\ orphan' = TRUE
        /\ tun' = IF tun = "child" THEN "orphan" ELSE tun
        /\ file' = IF file = "child" THEN "orphan" ELSE file
        /\ UNCHANGED routes
  /\ UNCHANGED <<hold, rules, dnsTable, splitLive, orderly>>

Crash ==
  /\ daemon # "down" /\ crashes < MaxCrashes
  /\ crashes' = crashes + 1
  /\ ProcessEnds

Exit ==
  /\ daemon = "up" /\ closing \in {"done", "failed"} /\ ~dirty
  /\ crashes' = crashes + 1
  /\ ProcessEnds

(***************************************************************************)
(* Startup recovery: inspect, remove what was found, inspect again         *)
(***************************************************************************)

(* SystemCleanupBackend.inspect. Xray is looked for only through the state  *)
(* file; the file itself is one of the resources.                           *)
Inspected ==
  { r \in Resources :
      CASE r = "xray"   -> file = "orphan"
        [] r = "tun"    -> tun # "none"
        [] r = "routes" -> routes \/ rules
        [] r = "dns"    -> dnsTable
        [] r = "hold"   -> hold
        [] r = "split"  -> splitLive
        [] r = "file"   -> file # "absent" }

Start ==
  /\ daemon = "down" /\ daemon' = "inspect"
  /\ UNCHANGED <<vars, todo, file, dirty, closing, orderly, crashes>>

Inspect ==
  /\ daemon = "inspect"
  /\ \/ todo' = Inspected /\ daemon' = "remove" /\ UNCHANGED phase
     \/ /\ "inspect" \in StoreFaults
        /\ daemon' = "save" /\ phase' = "RecoveryRequired" /\ UNCHANGED todo
  /\ UNCHANGED <<splitActive, dnsProtected, blockOnFailure, backendVars,
                 kernelVars, opVars, file, dirty, closing, orderly, crashes>>

(* The interface goes, and the routes through it.                           *)
DeleteTun == tun' = "none" /\ routes' = FALSE

Removal(r) ==
  \/ /\ r = "xray" /\ orphan' = FALSE /\ file' = "dead"
     /\ tun' = IF tun = "orphan" THEN "none" ELSE tun
     /\ routes' = (routes /\ tun # "orphan")
     /\ UNCHANGED <<hold, rules, dnsTable, splitLive>>
  \/ /\ r = "tun" /\ DeleteTun
     /\ UNCHANGED <<hold, rules, dnsTable, splitLive, orphan, file>>
  \/ /\ r = "routes" /\ hold' = FALSE /\ rules' = FALSE /\ DeleteTun
     /\ UNCHANGED <<dnsTable, splitLive, orphan, file>>
  \/ /\ r = "dns" /\ dnsTable' = FALSE
     /\ UNCHANGED <<hold, tun, routes, rules, splitLive, orphan, file>>
  \/ /\ r = "hold" /\ hold' = FALSE
     /\ UNCHANGED <<tun, routes, rules, dnsTable, splitLive, orphan, file>>
  \/ /\ r = "split" /\ splitLive' = FALSE
     /\ UNCHANGED <<hold, tun, routes, rules, dnsTable, orphan, file>>
  \/ /\ r = "file" /\ file' = "absent" /\ UNCHANGED kernelVars

(* The resource the walk comes to next.                                     *)
NextResource ==
  ResourceOrder[CHOOSE i \in DOMAIN ResourceOrder :
    /\ ResourceOrder[i] \in todo
    /\ \A j \in 1..(i - 1) : ResourceOrder[j] \notin todo]

(* The error of a removal is dropped; the second inspection tells.          *)
Remove ==
  /\ daemon = "remove" /\ todo # {}
  /\ todo' = todo \ {NextResource}
  /\ \/ Removal(NextResource)
     \/ "remove" \in StoreFaults /\ UNCHANGED <<kernelVars, file>>
  /\ UNCHANGED <<managerVars, backendVars, opVars, daemon, dirty, closing,
                 orderly, crashes>>

(* Mutation: what was tried counts as removed.                              *)
Reported_Optimistic(remaining) == "Disconnected"

Reported(remaining) ==
  IF remaining = {} THEN "Disconnected" ELSE "RecoveryRequired"

(* Mutation: recovery starts over for as long as something is left.         *)
Verify_UntilClean ==
  /\ daemon = "remove" /\ todo = {}
  /\ daemon' = IF Inspected = {} THEN "save" ELSE "inspect"
  /\ UNCHANGED <<vars, todo, file, dirty, closing, orderly, crashes>>

Verify ==
  /\ daemon = "remove" /\ todo = {} /\ daemon' = "save"
  /\ \/ phase' = Reported(Inspected)
     \/ "inspect" \in StoreFaults /\ phase' = "RecoveryRequired"
  /\ UNCHANGED <<splitActive, dnsProtected, blockOnFailure, backendVars,
                 kernelVars, opVars, todo, file, dirty, closing, orderly, crashes>>

(* A first state that cannot be written ends the process.                   *)
Save ==
  /\ daemon = "save"
  /\ \/ /\ file' = "none" /\ daemon' = "up" /\ orderly' = (phase = "Disconnected")
        /\ UNCHANGED <<vars, todo, dirty, closing, crashes>>
     \/ "persist" \in StoreFaults /\ Crash

Exits ==
  /\ Environment /\ FileTracks
  /\ UNCHANGED <<daemon, todo, dirty, closing, orderly, crashes>>

Recovery == Start \/ Inspect \/ Remove \/ Verify \/ Save

DaemonNext ==
  \/ Begin \/ Touch \/ Proceed \/ Persist \/ Terminate \/ ShutdownDisconnect
  \/ Crash \/ Exit \/ Recovery \/ Exits

DaemonSpec == DaemonInit /\ [][DaemonNext]_allVars

(* systemd starts the unit again (Restart=on-failure), and a process that   *)
(* runs goes on.                                                            *)
FairDaemonSpec ==
  DaemonSpec /\ WF_allVars(Recovery) /\ WF_allVars(Proceed \/ Persist)

(***************************************************************************)
(* Properties                                                              *)
(***************************************************************************)

RulesGone == ~hold /\ ~routes /\ ~rules /\ ~dnsTable /\ ~splitLive

NetworkRestored == RulesGone /\ tun = "none"

(* A daemon that comes up Disconnected found the machine's network in order  *)
(* on its second look, whatever point the process before it was killed at    *)
(* and whatever removal failed (recovery.rs:338-346, main.rs:82-90).         *)
RecoveredIsRestored ==
  [][daemon = "save" /\ daemon' = "up" /\ phase' = "Disconnected"
       => NetworkRestored']_allVars

(* "its startup cleanup is what repairs that state" (README.md:228-229): a   *)
(* killed daemon comes back, and what it left of its routes, rules and       *)
(* tables is gone by then or reported.                                       *)
KilledIsRepaired ==
  daemon = "down" ~> daemon = "up" /\ (NetworkRestored \/ phase = "RecoveryRequired")

(* Between operations, the state file names the Xray that carries the        *)
(* connection, so that a recovery can find it (controller.rs:43-57, 117).    *)
ConnectedIsRecorded ==
  daemon = "up" /\ pc = "idle" /\ ~dirty /\ phase = "Connected"
    /\ xray = "running" /\ identity => file = "child"

(* "`systemctl stop` must therefore tear the data plane down first"          *)
(* (main.rs:102): a process that ends after its shutdown disconnect has      *)
(* succeeded leaves no rule, route or table and no Xray of its own, if it    *)
(* came up on a network in order and could persist every state since. (After *)
(* a state it could not persist the phase is RecoveryRequired, and a connect *)
(* from there lays a second data plane over the first.)                      *)
ShutdownLeavesNothing ==
  [][closing = "done" /\ daemon' = "down" /\ orderly
       => RulesGone' /\ xray = "none"]_allVars
=============================================================================
