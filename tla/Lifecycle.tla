------------------------------ MODULE Lifecycle ------------------------------
(***************************************************************************)
(* The connection lifecycle of varmlend: LifecycleManager                  *)
(* (daemon/src/lifecycle.rs) over SystemLifecycleBackend                   *)
(* (daemon/src/system.rs) and the kernel state the two leave behind.       *)
(*                                                                         *)
(* One manager operation runs at a time (the controller's mutex), but it   *)
(* is a sequence of awaits: `pc` is the await it stands at, so Xray may    *)
(* die, and other modules may crash the daemon, between any two of them.   *)
(* Which calls of the backend may fail is the constant Faults.             *)
(***************************************************************************)
EXTENDS Naturals, FiniteSets

CONSTANTS
  AppLists,   \* the non-empty exception lists a client may send
  NoApps,     \* the empty exception list; also "no split is held"
  Faults      \* the backend calls that may go wrong, a subset of FaultKinds

FaultKinds ==
  { "validate",     \* candidate refused, or its egress probe fails
    "install",      \* nft refuses the hold block (atomic: nothing changes)
    "verifyHold",   \* `nft list table` cannot confirm the hold block
    "helper",       \* varmlen-net cannot be spawned, or is not there
    "silent",       \* a deletion inside varmlen-net fails; it still exits 0
    "dns",          \* nft refuses to add, probe or delete varmlen_dns
    "split",        \* the per-app split cannot be applied, updated, refreshed
    "unsplit",      \* the per-app split cannot be rolled back
    "kill",         \* Xray outlives SIGTERM and the kill itself errors
    "start",        \* Xray is not spawned, or is not ready in time
    "routeUp",      \* varmlen-net route-up fails and undoes itself
    "verify" }      \* the commit check itself fails

ASSUME FaultsAssumption == Faults \subseteq FaultKinds
ASSUME AppsAssumption == NoApps \notin AppLists

VARIABLES
  phase, splitActive, dnsProtected, blockOnFailure,   \* LifecycleManager
  xray,       \* the child handle: none, running, or exited but not reaped
  identity,   \* xray_identity is Some
  mode,       \* mode of the started data plane, or "none"
  dnsActive,  \* the dns_active flag
  splitApps,  \* split_apps; NoApps exactly when `split` is None
  hold, tun, routes, rules, dnsTable, splitLive, orphan,   \* the kernel
  pc, ret, req, was, stopErr                               \* the operation

managerVars == <<phase, splitActive, dnsProtected, blockOnFailure>>
backendVars == <<xray, identity, mode, dnsActive, splitApps>>
kernelVars  == <<hold, tun, routes, rules, dnsTable, splitLive, orphan>>
opVars      == <<pc, ret, req, was, stopErr>>
vars == <<managerVars, backendVars, kernelVars, opVars>>

Phases == {"Disconnected", "Preparing", "Connected", "Blocking",
           "Reconnecting", "RecoveryRequired"}
Lists == AppLists \cup {NoApps}

(* A connect request the protocol lets through: proxy mode carries no       *)
(* exception list.                                                          *)
Requests ==
  { r \in [mode : {"Tun", "Proxy"}, killswitch : BOOLEAN, apps : Lists] :
      r.mode = "Proxy" => r.apps = NoApps }

StopSteps == {"stopSplit", "stopDns", "stopRoutes", "stopXray"}
Steps == StopSteps \cup
  {"idle", "validate", "install", "verifyHold", "unhold", "start", "ready",
   "routeUp", "split", "dns", "verify", "failed", "release", "dropHold"}

Guarded == req.mode = "Tun"
May(fault) == fault \in Faults

TypeManager ==
  /\ phase \in Phases
  /\ splitActive \in BOOLEAN /\ dnsProtected \in BOOLEAN
  /\ blockOnFailure \in BOOLEAN
TypeBackend ==
  /\ xray \in {"none", "running", "exited"}
  /\ identity \in BOOLEAN
  /\ mode \in {"none", "Tun", "Proxy"}
  /\ dnsActive \in BOOLEAN
  /\ splitApps \in Lists
TypeKernel ==
  /\ hold \in BOOLEAN /\ routes \in BOOLEAN /\ rules \in BOOLEAN
  /\ tun \in {"none", "child", "orphan", "persistent"}
  /\ dnsTable \in BOOLEAN /\ splitLive \in BOOLEAN /\ orphan \in BOOLEAN
TypeOperation ==
  /\ pc \in Steps
  /\ ret \in {"start", "failed", "disconnect", "health"}
  /\ req \in Requests
  /\ was \in BOOLEAN /\ stopErr \in BOOLEAN

(* Every variable of the manager, the backend, the kernel and the running   *)
(* operation has its type.                                                  *)
TypeOK == TypeManager /\ TypeBackend /\ TypeKernel /\ TypeOperation

(***************************************************************************)
(* The initial state is a daemon whose startup recovery found nothing.     *)
(***************************************************************************)
Init ==
  /\ phase = "Disconnected"
  /\ splitActive = FALSE /\ dnsProtected = FALSE /\ blockOnFailure = FALSE
  /\ xray = "none" /\ identity = FALSE /\ mode = "none"
  /\ dnsActive = FALSE /\ splitApps = NoApps
  /\ hold = FALSE /\ tun = "none" /\ routes = FALSE /\ rules = FALSE
  /\ dnsTable = FALSE /\ splitLive = FALSE /\ orphan = FALSE
  /\ pc = "idle" /\ ret = "disconnect" /\ was = FALSE /\ stopErr = FALSE
  /\ req = [mode |-> "Tun", killswitch |-> FALSE, apps |-> NoApps]

(***************************************************************************)
(* Helpers                                                                 *)
(***************************************************************************)
Goto(step) == pc' = step /\ UNCHANGED <<ret, req, was, stopErr>>

Finish(p) == Goto("idle") /\ phase' = p

(* The phase a connect that touched nothing yet goes back to.              *)
Restored == IF was THEN "Connected" ELSE "Disconnected"

(* stop_data_plane(preserve_split), to return to `r`.                      *)
CallStop(preserve, r) ==
  /\ pc' = IF preserve THEN "stopDns" ELSE "stopSplit"
  /\ ret' = r /\ stopErr' = FALSE
  /\ UNCHANGED <<req, was>>

(* Mutation: the old data plane is left running.                           *)
AfterBlock_KeepsOld == Goto("start")

(* What follows the hold block: the old data plane goes down, if any.      *)
AfterBlock ==
  IF was THEN CallStop(TRUE, "start") ELSE Goto("start")

(* Mutation: a reconnect trusts the block it believes is still installed.  *)
AfterValidation_TrustsOldBlock ==
  IF Guarded /\ ~was THEN Goto("install") ELSE AfterBlock

(* What follows validation: only TUN mode is guarded by the hold block.    *)
AfterValidation == IF Guarded THEN Goto("install") ELSE AfterBlock

Fail == CallStop(FALSE, "failed")

(* Mutation: a failed reconnect keeps the block only for the kill switch.   *)
StaysBlocked_KillswitchOnly == Guarded /\ req.killswitch

(* A failed connect keeps the block when it took a tunnel down, or when the *)
(* user asked for the kill switch.                                          *)
StaysBlocked == Guarded /\ (was \/ req.killswitch)

(* Mutation: a proxy connection arms the flag too, without a block.         *)
BlocksOnFailure_AnyMode == req.killswitch

BlocksOnFailure == Guarded /\ req.killswitch

(* Mutation: a held handle counts as alive.                                 *)
DataPlaneAlive_HandleHeld == xray # "none"

(* data_plane_alive: an exited child that is still held is not alive.       *)
DataPlaneAlive == xray = "running"

(* remove_hold_block: varmlen-net always exits 0, so Ok says nothing about  *)
(* the table; only a helper that cannot be spawned is an error.             *)
RemoveHoldOk == hold' = FALSE \/ (May("silent") /\ UNCHANGED hold)
RemoveHoldErr == May("helper") /\ UNCHANGED hold

(***************************************************************************)
(* connect                                                                 *)
(***************************************************************************)
Connect(r) ==
  /\ pc = "idle"
  /\ was' = (phase = "Connected")
  /\ phase' = IF phase = "Connected" THEN "Reconnecting" ELSE "Preparing"
  /\ splitActive' = FALSE /\ dnsProtected' = FALSE
  /\ req' = r /\ pc' = "validate"
  /\ UNCHANGED <<blockOnFailure, ret, stopErr, backendVars, kernelVars>>

Validate ==
  /\ pc = "validate"
  /\ \/ AfterValidation /\ UNCHANGED phase
     \/ May("validate") /\ Finish(Restored)
  /\ UNCHANGED <<splitActive, dnsProtected, blockOnFailure, backendVars,
                 kernelVars>>

InstallHold ==
  /\ pc = "install"
  /\ \/ hold' = TRUE /\ Goto("verifyHold") /\ UNCHANGED phase
     \/ May("install") /\ Finish(Restored) /\ UNCHANGED hold
  /\ UNCHANGED <<splitActive, dnsProtected, blockOnFailure, backendVars, tun,
                 routes, rules, dnsTable, splitLive, orphan>>

VerifyHold ==
  /\ pc = "verifyHold"
  /\ \/ hold /\ phase' = "Blocking" /\ AfterBlock
     \/ /\ ~hold \/ May("verifyHold")
        /\ Goto("unhold") /\ UNCHANGED phase
  /\ UNCHANGED <<splitActive, dnsProtected, blockOnFailure, backendVars,
                 kernelVars>>

Unhold ==
  /\ pc = "unhold"
  /\ \/ RemoveHoldOk /\ Finish(Restored)
     \/ RemoveHoldErr /\ Finish("RecoveryRequired")
  /\ UNCHANGED <<splitActive, dnsProtected, blockOnFailure, backendVars, tun,
                 routes, rules, dnsTable, splitLive, orphan>>

(* start_data_plane up to the spawn. A handle that is still held is simply  *)
(* overwritten: its process lives on, with nobody to stop it.               *)
StartXray ==
  /\ pc = "start"
  /\ \/ /\ xray' = "running"
        /\ orphan' = (orphan \/ xray = "running")
        /\ tun' = IF tun = "child" THEN "orphan" ELSE tun
        /\ identity' \in BOOLEAN
        /\ mode' = req.mode
        /\ Goto("ready")
     \/ May("start") /\ Fail /\ UNCHANGED <<xray, orphan, tun, identity, mode>>
  /\ UNCHANGED <<managerVars, dnsActive, splitApps, hold, routes, rules,
                 dnsTable, splitLive>>

(* wait_until_ready. In TUN mode Xray creates the device unless one exists. *)
WaitUntilReady ==
  /\ pc = "ready"
  /\ \/ /\ xray = "running"
        /\ tun' = IF Guarded /\ tun = "none" THEN "child" ELSE tun
        /\ Goto(IF Guarded THEN "routeUp" ELSE "verify")
     \/ (xray = "exited" \/ May("start")) /\ Fail /\ UNCHANGED tun
  /\ UNCHANGED <<managerVars, backendVars, hold, routes, rules, dnsTable,
                 splitLive, orphan>>

(* route_up. ensure_tun makes a persistent device when Xray's own is gone;  *)
(* a failing route-up takes its routes and rules back itself.               *)
RouteUp ==
  /\ pc = "routeUp"
  /\ tun' = IF tun = "none" THEN "persistent" ELSE tun
  /\ \/ routes' = TRUE /\ rules' = TRUE /\ Goto("split")
     \/ May("routeUp") /\ routes' = FALSE /\ rules' = FALSE /\ Fail
  /\ UNCHANGED <<managerVars, backendVars, hold, dnsTable, splitLive, orphan>>

(* The split's rules and programs once `apps` is the list: an empty list    *)
(* takes down a split that is held, and leaves alone what a failed rollback *)
(* forgot.                                                                  *)
SplitAfter(apps) == apps # NoApps \/ (splitLive /\ splitApps = NoApps)

(* The split half of activate_network: a split with another list is rolled  *)
(* back and built anew, one with the same list only gets its routing again. *)
ActivateSplit ==
  LET mustGo == splitApps # NoApps /\ splitApps # req.apps
  IN
  /\ pc = "split"
  /\ \/ splitApps' = req.apps /\ splitLive' = SplitAfter(req.apps) /\ Goto("dns")
     \/ \* rollback fails: the split is forgotten, its rules stay
        /\ mustGo /\ May("unsplit")
        /\ splitApps' = NoApps /\ UNCHANGED splitLive /\ Fail
     \/ \* apply fails after the old split went; apply rolled itself back
        /\ req.apps # NoApps /\ splitApps # req.apps /\ May("split")
        /\ splitApps' = NoApps
        /\ splitLive' \in BOOLEAN
        /\ splitLive' => (splitLive /\ ~mustGo) \/ May("unsplit")
        /\ Fail
     \/ \* refresh_routing of a kept split fails
        /\ splitApps # NoApps /\ ~mustGo /\ May("split")
        /\ UNCHANGED <<splitApps, splitLive>> /\ Fail
  /\ UNCHANGED <<managerVars, xray, identity, mode, dnsActive, hold, tun,
                 routes, rules, dnsTable, orphan>>

(* DnsGuard.install, with dns_active raised first so that a failed          *)
(* verification is cleaned up again by stop_data_plane.                     *)
ActivateDns ==
  /\ pc = "dns"
  /\ dnsActive' = TRUE
  /\ \/ dnsTable' = TRUE /\ Goto("verify")
     \/ May("dns") /\ dnsTable' \in BOOLEAN /\ Fail
  /\ UNCHANGED <<managerVars, xray, identity, mode, splitApps, hold, tun,
                 routes, rules, splitLive, orphan>>

(* Mutation: protected DNS is claimed in proxy mode as well.                *)
Commit_ClaimsDns ==
  /\ phase' = "Connected"
  /\ splitActive' = (req.apps # NoApps)
  /\ dnsProtected' = TRUE
  /\ blockOnFailure' = BlocksOnFailure
  /\ Goto("idle")

(* The record connect leaves on success.                                    *)
Commit ==
  /\ phase' = "Connected"
  /\ splitActive' = (req.apps # NoApps)
  /\ dnsProtected' = Guarded
  /\ blockOnFailure' = BlocksOnFailure
  /\ Goto("idle")

VerifyConnection ==
  /\ pc = "verify"
  /\ \/ /\ xray = "running"
        /\ Guarded => tun # "none" /\ dnsActive /\ routes
        /\ IF Guarded /\ ~req.killswitch
           THEN Goto("release") /\ UNCHANGED managerVars
           ELSE Commit
     \/ /\ \/ xray # "running"
           \/ Guarded /\ (tun = "none" \/ ~dnsActive \/ ~routes)
           \/ May("verify")
        /\ Fail /\ UNCHANGED managerVars
  /\ UNCHANGED <<backendVars, kernelVars>>

Release ==
  /\ pc = "release"
  /\ \/ RemoveHoldOk /\ Commit
     \/ /\ RemoveHoldErr /\ Finish("RecoveryRequired")
        /\ UNCHANGED <<splitActive, dnsProtected, blockOnFailure>>
  /\ UNCHANGED <<backendVars, tun, routes, rules, dnsTable, splitLive, orphan>>

(* The error arm of connect, once stop_data_plane(false) has returned.      *)
ConnectFailed ==
  /\ pc = "failed"
  /\ \/ stopErr /\ Finish("RecoveryRequired") /\ UNCHANGED hold
     \/ ~stopErr /\ StaysBlocked /\ Finish("Blocking") /\ UNCHANGED hold
     \/ /\ ~stopErr /\ Guarded /\ ~StaysBlocked
        /\ RemoveHoldOk \/ RemoveHoldErr       \* `let _ =`: ignored
        /\ Finish("Disconnected")
     \/ ~stopErr /\ ~Guarded /\ Finish("Disconnected") /\ UNCHANGED hold
  /\ UNCHANGED <<splitActive, dnsProtected, blockOnFailure, backendVars, tun,
                 routes, rules, dnsTable, splitLive, orphan>>

(***************************************************************************)
(* stop_data_plane: four steps, each tried whatever happened to the others *)
(***************************************************************************)
StopNext(step, failed) ==
  /\ pc' = step
  /\ stopErr' = (stopErr \/ failed)
  /\ UNCHANGED <<ret, req, was>>

StopSplit ==
  /\ pc = "stopSplit"
  /\ splitApps' = NoApps
  /\ \/ /\ splitLive' = IF splitApps # NoApps THEN FALSE ELSE splitLive
        /\ StopNext("stopDns", FALSE)
     \/ /\ splitApps # NoApps /\ May("unsplit")
        /\ UNCHANGED splitLive /\ StopNext("stopDns", TRUE)
  /\ UNCHANGED <<managerVars, xray, identity, mode, dnsActive, hold, tun,
                 routes, rules, dnsTable, orphan>>

(* Mutation: dns_active is lowered before the table is known to be gone.    *)
StopDns_FlagFirst ==
  /\ pc = "stopDns" /\ dnsActive' = FALSE
  /\ \/ dnsTable' = (dnsTable /\ ~dnsActive) /\ StopNext("stopRoutes", FALSE)
     \/ dnsActive /\ May("dns") /\ UNCHANGED dnsTable /\ StopNext("stopRoutes", TRUE)
  /\ UNCHANGED <<managerVars, xray, identity, mode, splitApps, hold, tun,
                 routes, rules, splitLive, orphan>>

StopDns ==
  /\ pc = "stopDns"
  /\ \/ /\ dnsActive' = FALSE
        /\ dnsTable' = IF dnsActive THEN FALSE ELSE dnsTable
        /\ StopNext("stopRoutes", FALSE)
     \/ /\ dnsActive /\ May("dns")
        /\ UNCHANGED <<dnsActive, dnsTable>> /\ StopNext("stopRoutes", TRUE)
  /\ UNCHANGED <<managerVars, xray, identity, mode, splitApps, hold, tun,
                 routes, rules, splitLive, orphan>>

(* route_down runs only for a TUN data plane and an existing helper.        *)
StopRoutes ==
  /\ pc = "stopRoutes"
  /\ \/ /\ mode = "Tun"
        /\ routes' = FALSE /\ rules' = FALSE /\ StopNext("stopXray", FALSE)
     \/ /\ mode # "Tun" \/ May("silent")
        /\ UNCHANGED <<routes, rules>> /\ StopNext("stopXray", FALSE)
     \/ /\ mode = "Tun" /\ May("helper")
        /\ UNCHANGED <<routes, rules>>
        /\ \E failed \in BOOLEAN : StopNext("stopXray", failed)
  /\ UNCHANGED <<managerVars, backendVars, hold, tun, dnsTable, splitLive,
                 orphan>>

(* What each caller of stop_data_plane does with its result.               *)
StopReturns ==
  /\ UNCHANGED <<ret, req, was>>
  /\ \/ /\ ret = "start" /\ ~stopErr' /\ pc' = "start"
        /\ UNCHANGED <<phase, splitActive, dnsProtected>>
     \/ /\ ret = "start" /\ stopErr' /\ pc' = "idle"
        /\ phase' = IF Guarded THEN "Blocking" ELSE "RecoveryRequired"
        /\ UNCHANGED <<splitActive, dnsProtected>>
     \/ /\ ret = "failed" /\ pc' = "failed"
        /\ UNCHANGED <<phase, splitActive, dnsProtected>>
     \/ /\ ret = "disconnect" /\ pc' = "dropHold"
        /\ UNCHANGED <<phase, splitActive, dnsProtected>>
     \/ /\ ret = "health" /\ pc' = "idle"
        /\ phase' = IF stopErr' THEN "RecoveryRequired"
                    ELSE IF blockOnFailure THEN "Blocking" ELSE "Disconnected"
        /\ splitActive' = FALSE /\ dnsProtected' = FALSE

(* terminate_xray and the end of stop_data_plane. The handle is taken first *)
(* thing, so an Xray that could not be killed is never tried again.         *)
StopXray ==
  /\ pc = "stopXray"
  /\ xray' = "none" /\ mode' = "none"
  /\ \/ /\ identity' = FALSE /\ stopErr' = stopErr
        /\ tun' = IF tun = "child" THEN "none" ELSE tun
        /\ routes' = (routes /\ tun # "child")
        /\ UNCHANGED orphan
     \/ /\ xray = "running" /\ May("kill")
        /\ stopErr' = TRUE /\ orphan' = TRUE
        /\ tun' = IF tun = "child" THEN "orphan" ELSE tun
        /\ UNCHANGED <<identity, routes>>
  /\ StopReturns
  /\ UNCHANGED <<blockOnFailure, dnsActive, splitApps, hold, rules, dnsTable,
                 splitLive>>

(***************************************************************************)
(* disconnect, reconcile_health, update_split                              *)
(***************************************************************************)
Disconnect ==
  /\ pc = "idle"
  /\ CallStop(FALSE, "disconnect")
  /\ UNCHANGED <<managerVars, backendVars, kernelVars>>

DropHold ==
  /\ pc = "dropHold"
  /\ \/ /\ RemoveHoldOk /\ ~stopErr
        /\ Finish("Disconnected")
        /\ splitActive' = FALSE /\ dnsProtected' = FALSE
        /\ blockOnFailure' = FALSE
     \/ /\ (RemoveHoldOk /\ stopErr) \/ RemoveHoldErr
        /\ Finish("RecoveryRequired")
        /\ UNCHANGED <<splitActive, dnsProtected, blockOnFailure>>
  /\ UNCHANGED <<backendVars, tun, routes, rules, dnsTable, splitLive, orphan>>

ReconcileHealth ==
  /\ pc = "idle"
  /\ phase = "Connected" /\ ~DataPlaneAlive
  /\ CallStop(FALSE, "health")
  /\ UNCHANGED <<managerVars, backendVars, kernelVars>>

UpdateSplit(apps) ==
  /\ pc = "idle" /\ phase = "Connected"
  /\ \/ \* an empty list rolls the split back; a new one updates or builds it
        /\ splitApps' = apps /\ splitLive' = SplitAfter(apps)
        /\ splitActive' = (apps # NoApps)
     \/ \* remove_split fails: the split is gone, split_active is not told
        /\ apps = NoApps /\ splitApps # NoApps /\ May("unsplit")
        /\ splitApps' = NoApps /\ UNCHANGED <<splitLive, splitActive>>
     \/ \* update_plan or apply fails
        /\ apps # NoApps /\ May("split")
        /\ UNCHANGED <<splitApps, splitActive>>
        /\ IF splitApps # NoApps THEN UNCHANGED splitLive
           ELSE /\ splitLive' \in BOOLEAN
                /\ splitLive' => splitLive \/ May("unsplit")
  /\ UNCHANGED <<phase, dnsProtected, blockOnFailure, xray, identity, mode,
                 dnsActive, hold, tun, routes, rules, dnsTable, orphan, opVars>>

(***************************************************************************)
(* The environment: Xray exits on its own. Its device goes with it, and    *)
(* the tunnel's default routes with the device.                            *)
(***************************************************************************)
XrayExits ==
  /\ xray = "running" /\ xray' = "exited"
  /\ tun' = IF tun = "child" THEN "none" ELSE tun
  /\ routes' = (routes /\ tun # "child")
  /\ UNCHANGED <<managerVars, identity, mode, dnsActive, splitApps, hold, rules,
                 dnsTable, splitLive, orphan, opVars>>

OrphanExits ==
  /\ orphan /\ orphan' = FALSE
  /\ tun' = IF tun = "orphan" THEN "none" ELSE tun
  /\ routes' = (routes /\ tun # "orphan")
  /\ UNCHANGED <<managerVars, backendVars, hold, rules, dnsTable, splitLive,
                 opVars>>

Environment == XrayExits \/ OrphanExits

Operation ==
  \/ Validate \/ InstallHold \/ VerifyHold \/ Unhold
  \/ StartXray \/ WaitUntilReady \/ RouteUp \/ ActivateSplit \/ ActivateDns
  \/ VerifyConnection \/ Release \/ ConnectFailed
  \/ StopSplit \/ StopDns \/ StopRoutes \/ StopXray \/ DropHold

Command ==
  \/ \E r \in Requests : Connect(r)
  \/ \E apps \in Lists : UpdateSplit(apps)
  \/ Disconnect
  \/ ReconcileHealth

Next == Command \/ Operation \/ Environment

Spec == Init /\ [][Next]_vars

(* An operation that has begun goes on (its awaits return: every one is a   *)
(* child process or a timed wait), and the monitor's turn at the mutex,     *)
(* which tokio hands out first come first served, comes round.              *)
FairSpec == Spec /\ WF_vars(Operation) /\ SF_vars(ReconcileHealth)

(***************************************************************************)
(* Properties                                                              *)
(***************************************************************************)

(* The part of a connect after the point of no return: the old data plane   *)
(* is going down, the new one coming up, or the failed one going down.      *)
InWindow ==
  \/ pc \in {"start", "ready", "routeUp", "split", "dns", "verify", "failed",
             "release"}
  \/ pc \in StopSteps /\ ret \in {"start", "failed"}

(* connect (lifecycle.rs:81-137) verifies the hold block before it stops    *)
(* the old data plane, and nothing takes it away before the connect has     *)
(* been decided: in between, whatever fails or dies, traffic is blocked.    *)
HoldSpansConnect == Guarded /\ InWindow => hold

(* A guarded reconnect that took the old tunnel down either commits the new *)
(* one or returns with the block still up: it never fails into the open     *)
(* (lifecycle.rs:105-137, "failed_reconnect_stays_blocked_after_old_tunnel  *)
(* _was_stopped").                                                          *)
ReconnectFailsClosed ==
  [][was /\ Guarded /\ InWindow /\ pc' = "idle"
       => hold' \/ phase' = "Connected"]_vars

(* Whenever the manager reports Blocking, the hold block is installed: the  *)
(* phase is what a client shows the user (lifecycle.rs:103, 110, 130, 211). *)
BlockingIsHeld == phase = "Blocking" => hold

Empty == ~hold /\ ~routes /\ ~rules /\ ~dnsTable /\ ~splitLive /\ xray = "none"

(* When disconnect reports Disconnected, nothing the daemon laid is left,    *)
(* also after attempts that failed: "VPN cleanup did not reach a verified    *)
(* empty state" is the error it gives otherwise (lifecycle.rs:176-195).      *)
DisconnectLeavesNothing ==
  [][pc = "dropHold" /\ pc' = "idle" /\ phase' = "Disconnected" => Empty']_vars

(* Between operations, a connection that claims protected DNS or a live     *)
(* split has them: flags are raised only by what was installed, and lowered *)
(* before it goes (lifecycle.rs:69-70, 145-151, 171-172).                   *)
NeverOverclaims ==
  pc = "idle" /\ phase = "Connected" =>
    /\ dnsProtected => dnsActive /\ dnsTable
    /\ splitActive => splitApps # NoApps

(* An Xray slips out of the daemon's hands only where it could not be       *)
(* killed, and the operation is told: none is spawned over a live handle,   *)
(* whatever failed before (system.rs:845-868, 1056-1097).                   *)
NeverLosesXray ==
  [][orphan' => orphan \/ (pc = "stopXray" /\ stopErr')]_vars

(* A tunnel whose Xray has exited is not reported Connected for ever: the   *)
(* monitor's reconcile_health, or a command, settles it (lifecycle.rs:197). *)
DeadTunnelNoticed ==
  phase = "Connected" /\ xray # "running"
    ~> pc = "idle" /\ (phase # "Connected" \/ xray = "running")
=============================================================================
