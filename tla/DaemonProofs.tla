---------------------------- MODULE DaemonProofs ----------------------------
(***************************************************************************)
(* Proofs about the connection lifecycle, for every set of exception lists *)
(* and every set of backend faults, and then about the daemon around it:   *)
(* what the state file and the startup recovery are good for, for any      *)
(* number of crashes. The file names the Xray of the connection whenever   *)
(* the daemon is at rest, a daemon that comes up Disconnected has a        *)
(* network in order, and the block and the shutdown hold in it too.        *)
(***************************************************************************)
EXTENDS Daemon, TLAPS

(***************************************************************************)
(* The lifecycle                                                           *)
(***************************************************************************)
USE DEF Phases, Steps, StopSteps, managerVars, backendVars, kernelVars, opVars

(* Every request that reaches the manager is a record of its three fields.   *)
LEMMA RequestFields ==
  ASSUME NEW r \in Requests
  PROVE  r.mode \in {"Tun", "Proxy"} /\ r.killswitch \in BOOLEAN
           /\ r.apps \in Lists
  BY DEF Requests

(* The manager's record and the place an operation stands at keep their      *)
(* types, whatever step, backend failure or exit of Xray comes next.         *)
LEMMA ControlTypes ==
  ASSUME TypeOK, [Next]_vars PROVE TypeManager' /\ TypeOperation'
<1> USE DEF TypeOK, TypeManager, TypeOperation, TypeKernel
<1>1. CASE Command
  <2>1. ASSUME NEW r \in Requests, Connect(r) PROVE TypeManager' /\ TypeOperation'
    BY <2>1 DEF Connect
  <2>2. ASSUME NEW apps \in Lists, UpdateSplit(apps) PROVE TypeManager' /\ TypeOperation'
    BY <2>2 DEF UpdateSplit, SplitAfter, May
  <2>3. CASE Disconnect
    BY <2>3 DEF Disconnect, CallStop
  <2>4. CASE ReconcileHealth
    BY <2>4 DEF ReconcileHealth, CallStop
  <2> QED BY <1>1, <2>1, <2>2, <2>3, <2>4 DEF Command
<1>2. CASE Operation
  <2>1. CASE Validate
    BY <2>1 DEF Validate, AfterValidation, AfterBlock, CallStop, Goto,
       Finish, Restored
  <2>2. CASE InstallHold
    BY <2>2 DEF InstallHold, Goto, Finish, Restored
  <2>3. CASE VerifyHold
    BY ZenonT(60), <2>3 DEF VerifyHold, AfterBlock, CallStop, Goto
  <2>4. CASE Unhold
    BY <2>4 DEF Unhold, Goto, Finish, Restored, RemoveHoldOk, RemoveHoldErr
  <2>5. CASE StartXray
    BY ZenonT(60), <2>5, RequestFields DEF StartXray, Fail, CallStop, Goto
  <2>6. CASE WaitUntilReady
    BY ZenonT(60), <2>6 DEF WaitUntilReady, Fail, CallStop, Goto
  <2>7. CASE RouteUp
    BY ZenonT(60), <2>7 DEF RouteUp, Fail, CallStop, Goto
  <2>8. CASE ActivateSplit
    BY ZenonT(60), <2>8, RequestFields DEF ActivateSplit, SplitAfter, Fail, CallStop,
       Goto, May
  <2>9. CASE ActivateDns
    BY ZenonT(60), <2>9 DEF ActivateDns, Fail, CallStop, Goto
  <2>10. CASE VerifyConnection
    BY ZenonT(60), <2>10, RequestFields DEF VerifyConnection, Commit, BlocksOnFailure,
       Guarded, Fail, CallStop, Goto
  <2>11. CASE Release
    BY ZenonT(60), <2>11, RequestFields DEF Release, RemoveHoldOk, RemoveHoldErr,
       Commit, BlocksOnFailure, Guarded, Finish, Goto
  <2>12. CASE ConnectFailed
    BY <2>12 DEF ConnectFailed, RemoveHoldOk, RemoveHoldErr, Finish, Goto
  <2>13. CASE StopSplit
    BY ZenonT(60), <2>13 DEF StopSplit, StopNext
  <2>14. CASE StopDns
    BY ZenonT(60), <2>14 DEF StopDns, StopNext
  <2>15. CASE StopRoutes
    BY <2>15 DEF StopRoutes, StopNext
  <2>16. CASE StopXray
    BY ZenonT(60), <2>16 DEF StopXray, StopReturns
  <2>17. CASE DropHold
    BY <2>17 DEF DropHold, RemoveHoldOk, RemoveHoldErr, Finish, Goto
  <2> QED
    BY <1>2, <2>1, <2>2, <2>3, <2>4, <2>5, <2>6, <2>7, <2>8, <2>9, <2>10,
       <2>11, <2>12, <2>13, <2>14, <2>15, <2>16, <2>17 DEF Operation
<1>3. CASE Environment
  BY <1>3 DEF Environment, XrayExits, OrphanExits
<1>4. CASE UNCHANGED vars
  BY <1>4 DEF vars
<1> QED BY <1>1, <1>2, <1>3, <1>4 DEF Next

(* So do the handles and flags of the backend,                               *)
LEMMA BackendTypes ==
  ASSUME TypeOK, [Next]_vars PROVE TypeBackend'
<1> USE DEF TypeOK, TypeBackend, TypeOperation
<1>1. CASE Command
  <2>1. ASSUME NEW r \in Requests, Connect(r) PROVE TypeBackend'
    BY <2>1 DEF Connect
  <2>2. ASSUME NEW apps \in Lists, UpdateSplit(apps) PROVE TypeBackend'
    BY <2>2 DEF UpdateSplit, SplitAfter, May
  <2>3. CASE Disconnect
    BY <2>3 DEF Disconnect, CallStop
  <2>4. CASE ReconcileHealth
    BY <2>4 DEF ReconcileHealth, CallStop
  <2> QED BY <1>1, <2>1, <2>2, <2>3, <2>4 DEF Command
<1>2. CASE Operation
  <2>1. CASE Validate
    BY <2>1 DEF Validate, AfterValidation, AfterBlock, CallStop, Goto,
       Finish, Restored
  <2>2. CASE InstallHold
    BY <2>2 DEF InstallHold, Goto, Finish, Restored
  <2>3. CASE VerifyHold
    BY <2>3 DEF VerifyHold, AfterBlock, CallStop, Goto
  <2>4. CASE Unhold
    BY <2>4 DEF Unhold, Goto, Finish, Restored, RemoveHoldOk, RemoveHoldErr
  <2>5. CASE StartXray
    BY <2>5, RequestFields DEF StartXray, Fail, CallStop, Goto
  <2>6. CASE WaitUntilReady
    BY <2>6 DEF WaitUntilReady, Fail, CallStop, Goto
  <2>7. CASE RouteUp
    BY <2>7 DEF RouteUp, Fail, CallStop, Goto
  <2>8. CASE ActivateSplit
    BY <2>8, RequestFields DEF ActivateSplit, SplitAfter, Fail, CallStop,
       Goto, May, Lists
  <2>9. CASE ActivateDns
    BY <2>9 DEF ActivateDns, Fail, CallStop, Goto
  <2>10. CASE VerifyConnection
    BY <2>10, RequestFields DEF VerifyConnection, Commit, BlocksOnFailure,
       Guarded, Fail, CallStop, Goto
  <2>11. CASE Release
    BY <2>11, RequestFields DEF Release, RemoveHoldOk, RemoveHoldErr,
       Commit, BlocksOnFailure, Guarded, Finish, Goto
  <2>12. CASE ConnectFailed
    BY <2>12 DEF ConnectFailed, RemoveHoldOk, RemoveHoldErr, Finish, Goto
  <2>13. CASE StopSplit
    BY <2>13 DEF StopSplit, StopNext, Lists
  <2>14. CASE StopDns
    BY <2>14 DEF StopDns, StopNext
  <2>15. CASE StopRoutes
    BY <2>15 DEF StopRoutes, StopNext
  <2>16. CASE StopXray
    BY <2>16 DEF StopXray, StopReturns
  <2>17. CASE DropHold
    BY <2>17 DEF DropHold, RemoveHoldOk, RemoveHoldErr, Finish, Goto
  <2> QED
    BY <1>2, <2>1, <2>2, <2>3, <2>4, <2>5, <2>6, <2>7, <2>8, <2>9, <2>10,
       <2>11, <2>12, <2>13, <2>14, <2>15, <2>16, <2>17 DEF Operation
<1>3. CASE Environment
  BY <1>3 DEF Environment, XrayExits, OrphanExits
<1>4. CASE UNCHANGED vars
  BY <1>4 DEF vars
<1> QED BY <1>1, <1>2, <1>3, <1>4 DEF Next

(* and the kernel state.                                                     *)
LEMMA KernelTypes ==
  ASSUME TypeOK, [Next]_vars PROVE TypeKernel'
<1> USE DEF TypeOK, TypeKernel
<1>1. CASE Command
  <2>1. ASSUME NEW r \in Requests, Connect(r) PROVE TypeKernel'
    BY <2>1 DEF Connect
  <2>2. ASSUME NEW apps \in Lists, UpdateSplit(apps) PROVE TypeKernel'
    <3>1. splitLive' \in BOOLEAN
      BY <2>2, Zenon DEF UpdateSplit, SplitAfter, May
    <3> QED BY <2>2, <3>1 DEF UpdateSplit
  <2>3. CASE Disconnect
    BY <2>3 DEF Disconnect, CallStop
  <2>4. CASE ReconcileHealth
    BY <2>4 DEF ReconcileHealth, CallStop
  <2> QED BY <1>1, <2>1, <2>2, <2>3, <2>4 DEF Command
<1>2. CASE Operation
  <2>1. CASE Validate
    BY <2>1 DEF Validate, AfterValidation, AfterBlock, CallStop, Goto,
       Finish, Restored
  <2>2. CASE InstallHold
    BY <2>2 DEF InstallHold, Goto, Finish, Restored
  <2>3. CASE VerifyHold
    BY <2>3 DEF VerifyHold, AfterBlock, CallStop, Goto
  <2>4. CASE Unhold
    BY <2>4 DEF Unhold, Goto, Finish, Restored, RemoveHoldOk, RemoveHoldErr
  <2>5. CASE StartXray
    BY <2>5 DEF StartXray, Fail, CallStop, Goto
  <2>6. CASE WaitUntilReady
    BY <2>6 DEF WaitUntilReady, Fail, CallStop, Goto
  <2>7. CASE RouteUp
    BY <2>7 DEF RouteUp, Fail, CallStop, Goto
  <2>8. CASE ActivateSplit
    <3>1. splitLive' \in BOOLEAN
      BY <2>8, Zenon DEF ActivateSplit, SplitAfter, May
    <3> QED BY <2>8, <3>1 DEF ActivateSplit
  <2>9. CASE ActivateDns
    BY <2>9 DEF ActivateDns, Fail, CallStop, Goto
  <2>10. CASE VerifyConnection
    BY <2>10 DEF VerifyConnection, Commit, BlocksOnFailure, Guarded, Fail,
       CallStop, Goto
  <2>11. CASE Release
    BY <2>11 DEF Release, RemoveHoldOk, RemoveHoldErr, Commit,
       BlocksOnFailure, Guarded, Finish, Goto
  <2>12. CASE ConnectFailed
    BY <2>12 DEF ConnectFailed, RemoveHoldOk, RemoveHoldErr, Finish, Goto
  <2>13. CASE StopSplit
    BY <2>13 DEF StopSplit, StopNext
  <2>14. CASE StopDns
    BY <2>14 DEF StopDns, StopNext
  <2>15. CASE StopRoutes
    BY <2>15 DEF StopRoutes, StopNext
  <2>16. CASE StopXray
    BY <2>16 DEF StopXray, StopReturns
  <2>17. CASE DropHold
    BY <2>17 DEF DropHold, RemoveHoldOk, RemoveHoldErr, Finish, Goto
  <2> QED
    BY <1>2, <2>1, <2>2, <2>3, <2>4, <2>5, <2>6, <2>7, <2>8, <2>9, <2>10,
       <2>11, <2>12, <2>13, <2>14, <2>15, <2>16, <2>17 DEF Operation
<1>3. CASE Environment
  BY <1>3 DEF Environment, XrayExits, OrphanExits
<1>4. CASE UNCHANGED vars
  BY <1>4 DEF vars
<1> QED BY <1>1, <1>2, <1>3, <1>4 DEF Next

(* The initial state is well typed, and every step keeps it so.              *)
THEOREM TypeCorrect == Spec => []TypeOK
<1>1. Init => TypeOK
  <2> SUFFICES ASSUME Init PROVE TypeOK
    OBVIOUS
  <2>1. req \in Requests
    BY DEF Init, Requests, Lists
  <2> QED
    BY <2>1 DEF Init, TypeOK, TypeManager, TypeBackend, TypeKernel,
                TypeOperation, Lists
<1>2. TypeOK /\ [Next]_vars => TypeOK'
  BY ControlTypes, BackendTypes, KernelTypes DEF TypeOK
<1> QED BY <1>1, <1>2, PTL DEF Spec

(***************************************************************************)
(* The hold block                                                          *)
(***************************************************************************)

(* No step takes the hold block away inside a guarded connect: the steps     *)
(* that remove it are the ones that end the connect.                         *)
LEMMA HoldStep ==
  ASSUME HoldSpansConnect, [Next]_vars PROVE HoldSpansConnect'
<1> USE DEF HoldSpansConnect, InWindow, Guarded
<1>1. CASE Command
  <2>1. ASSUME NEW r \in Requests, Connect(r) PROVE HoldSpansConnect'
    BY <2>1 DEF Connect
  <2>2. ASSUME NEW apps \in Lists, UpdateSplit(apps) PROVE HoldSpansConnect'
    BY <2>2 DEF UpdateSplit, SplitAfter, May
  <2>3. CASE Disconnect
    BY <2>3 DEF Disconnect, CallStop
  <2>4. CASE ReconcileHealth
    BY <2>4 DEF ReconcileHealth, CallStop
  <2> QED BY <1>1, <2>1, <2>2, <2>3, <2>4 DEF Command
<1>2. CASE Operation
  <2>1. CASE Validate
    BY <2>1 DEF Validate, AfterValidation, AfterBlock, CallStop, Goto,
       Finish, Restored
  <2>2. CASE InstallHold
    BY <2>2 DEF InstallHold, Goto, Finish, Restored
  <2>3. CASE VerifyHold
    BY <2>3 DEF VerifyHold, AfterBlock, CallStop, Goto
  <2>4. CASE Unhold
    BY <2>4 DEF Unhold, Goto, Finish, Restored, RemoveHoldOk, RemoveHoldErr
  <2>5. CASE StartXray
    BY <2>5 DEF StartXray, Fail, CallStop, Goto
  <2>6. CASE WaitUntilReady
    BY <2>6 DEF WaitUntilReady, Fail, CallStop, Goto
  <2>7. CASE RouteUp
    BY <2>7 DEF RouteUp, Fail, CallStop, Goto
  <2>8. CASE ActivateSplit
    BY <2>8 DEF ActivateSplit, SplitAfter, Fail, CallStop, Goto, May
  <2>9. CASE ActivateDns
    BY <2>9 DEF ActivateDns, Fail, CallStop, Goto
  <2>10. CASE VerifyConnection
    BY <2>10 DEF VerifyConnection, Commit, BlocksOnFailure, Guarded, Fail,
       CallStop, Goto
  <2>11. CASE Release
    BY <2>11 DEF Release, RemoveHoldOk, RemoveHoldErr, Commit,
       BlocksOnFailure, Guarded, Finish, Goto
  <2>12. CASE ConnectFailed
    BY <2>12 DEF ConnectFailed, RemoveHoldOk, RemoveHoldErr, Finish, Goto
  <2>13. CASE StopSplit
    BY <2>13 DEF StopSplit, StopNext
  <2>14. CASE StopDns
    BY <2>14 DEF StopDns, StopNext
  <2>15. CASE StopRoutes
    BY <2>15 DEF StopRoutes, StopNext
  <2>16. CASE StopXray
    BY <2>16 DEF StopXray, StopReturns
  <2>17. CASE DropHold
    BY <2>17 DEF DropHold, RemoveHoldOk, RemoveHoldErr, Finish, Goto
  <2> QED
    BY <1>2, <2>1, <2>2, <2>3, <2>4, <2>5, <2>6, <2>7, <2>8, <2>9, <2>10,
       <2>11, <2>12, <2>13, <2>14, <2>15, <2>16, <2>17 DEF Operation
<1>3. CASE Environment
  BY <1>3 DEF Environment, XrayExits, OrphanExits
<1>4. CASE UNCHANGED vars
  BY <1>4 DEF vars
<1> QED BY <1>1, <1>2, <1>3, <1>4 DEF Next

(* From the verification of the block until a guarded connect is decided,    *)
(* traffic is blocked, whatever fails or dies in between                     *)
(* (lifecycle.rs:81-137): for every set of faults.                           *)
THEOREM HoldCorrect == Spec => []HoldSpansConnect
<1>1. Init => HoldSpansConnect
  BY DEF Init, HoldSpansConnect, InWindow
<1>2. HoldSpansConnect /\ [Next]_vars => HoldSpansConnect'
  BY HoldStep
<1> QED BY <1>1, <1>2, PTL DEF Spec

FailsClosedStep ==
  was /\ Guarded /\ InWindow /\ pc' = "idle" => hold' \/ phase' = "Connected"

(* A step that ends a guarded reconnect commits it or leaves the block up.   *)
LEMMA ClosedStep ==
  ASSUME HoldSpansConnect, [Next]_vars PROVE FailsClosedStep
<1> USE DEF HoldSpansConnect, FailsClosedStep, InWindow, Guarded
<1>1. CASE Command
  <2>1. ASSUME NEW r \in Requests, Connect(r) PROVE FailsClosedStep
    BY <2>1 DEF Connect
  <2>2. ASSUME NEW apps \in Lists, UpdateSplit(apps) PROVE FailsClosedStep
    BY <2>2 DEF UpdateSplit, SplitAfter, May
  <2>3. CASE Disconnect
    BY <2>3 DEF Disconnect, CallStop
  <2>4. CASE ReconcileHealth
    BY <2>4 DEF ReconcileHealth, CallStop
  <2> QED BY <1>1, <2>1, <2>2, <2>3, <2>4 DEF Command
<1>2. CASE Operation
  <2>1. CASE Validate
    BY <2>1 DEF Validate, AfterValidation, AfterBlock, CallStop, Goto,
       Finish, Restored
  <2>2. CASE InstallHold
    BY <2>2 DEF InstallHold, Goto, Finish, Restored
  <2>3. CASE VerifyHold
    BY <2>3 DEF VerifyHold, AfterBlock, CallStop, Goto
  <2>4. CASE Unhold
    BY <2>4 DEF Unhold, Goto, Finish, Restored, RemoveHoldOk, RemoveHoldErr
  <2>5. CASE StartXray
    BY <2>5 DEF StartXray, Fail, CallStop, Goto
  <2>6. CASE WaitUntilReady
    BY <2>6 DEF WaitUntilReady, Fail, CallStop, Goto
  <2>7. CASE RouteUp
    BY <2>7 DEF RouteUp, Fail, CallStop, Goto
  <2>8. CASE ActivateSplit
    BY <2>8 DEF ActivateSplit, SplitAfter, Fail, CallStop, Goto, May
  <2>9. CASE ActivateDns
    BY <2>9 DEF ActivateDns, Fail, CallStop, Goto
  <2>10. CASE VerifyConnection
    BY <2>10 DEF VerifyConnection, Commit, BlocksOnFailure, Guarded, Fail,
       CallStop, Goto
  <2>11. CASE Release
    BY <2>11 DEF Release, RemoveHoldOk, RemoveHoldErr, Commit,
       BlocksOnFailure, Guarded, Finish, Goto
  <2>12. CASE ConnectFailed
    BY <2>12 DEF ConnectFailed, RemoveHoldOk, RemoveHoldErr, Finish, Goto,
       StaysBlocked
  <2>13. CASE StopSplit
    BY <2>13 DEF StopSplit, StopNext
  <2>14. CASE StopDns
    BY <2>14 DEF StopDns, StopNext
  <2>15. CASE StopRoutes
    BY <2>15 DEF StopRoutes, StopNext
  <2>16. CASE StopXray
    BY <2>16 DEF StopXray, StopReturns
  <2>17. CASE DropHold
    BY <2>17 DEF DropHold, RemoveHoldOk, RemoveHoldErr, Finish, Goto
  <2> QED
    BY <1>2, <2>1, <2>2, <2>3, <2>4, <2>5, <2>6, <2>7, <2>8, <2>9, <2>10,
       <2>11, <2>12, <2>13, <2>14, <2>15, <2>16, <2>17 DEF Operation
<1>3. CASE Environment
  BY <1>3 DEF Environment, XrayExits, OrphanExits
<1>4. CASE UNCHANGED vars
  BY <1>4 DEF vars
<1> QED BY <1>1, <1>2, <1>3, <1>4 DEF Next

(* A guarded reconnect never fails into the open (lifecycle.rs:105-137).     *)
THEOREM ReconnectCorrect == Spec => ReconnectFailsClosed
<1>1. HoldSpansConnect /\ [Next]_vars => [FailsClosedStep]_vars
  BY ClosedStep
<1> QED
  BY <1>1, HoldCorrect, PTL DEF Spec, ReconnectFailsClosed, FailsClosedStep

(***************************************************************************)
(* The Blocking phase                                                      *)
(***************************************************************************)

(* Why Blocking means blocked. While the kill switch is armed the block is   *)
(* up, also through the part of a reconnect that may still return to the old *)
(* connection; and as long as the block can be confirmed, the path that      *)
(* removes it from under the old connection is never entered.                *)
ArmedIsHeld ==
  /\ BlockingIsHeld
  /\ HoldSpansConnect
  /\ pc = "verifyHold" => hold
  /\ pc # "unhold"
  /\ pc = "release" => ~req.killswitch
  /\ pc \in StopSteps /\ ret = "health" => phase = "Connected"
  /\ blockOnFailure /\ (phase = "Connected"
                        \/ (was /\ pc \in {"validate", "install", "verifyHold"}))
       => hold

(* Every step keeps the armed kill switch up, given that `nft list table`    *)
(* confirms an installed block.                                              *)
LEMMA ArmedStep ==
  ASSUME "verifyHold" \notin Faults, TypeOK, ArmedIsHeld, [Next]_vars
  PROVE  ArmedIsHeld'
<1>0. HoldSpansConnect'
  BY HoldStep DEF ArmedIsHeld
<1>00. req.killswitch \in BOOLEAN /\ blockOnFailure \in BOOLEAN
  BY RequestFields DEF TypeOK, TypeOperation, TypeManager
<1> USE <1>0, <1>00 DEF ArmedIsHeld, BlockingIsHeld, HoldSpansConnect, InWindow, Guarded
<1>1. CASE Command
  <2>1. ASSUME NEW r \in Requests, Connect(r) PROVE ArmedIsHeld'
    BY <2>1 DEF Connect
  <2>2. ASSUME NEW apps \in Lists, UpdateSplit(apps) PROVE ArmedIsHeld'
    BY <2>2 DEF UpdateSplit, SplitAfter, May
  <2>3. CASE Disconnect
    BY <2>3 DEF Disconnect, CallStop
  <2>4. CASE ReconcileHealth
    BY <2>4 DEF ReconcileHealth, CallStop
  <2> QED BY <1>1, <2>1, <2>2, <2>3, <2>4 DEF Command
<1>2. CASE Operation
  <2>1. CASE Validate
    BY <2>1 DEF Validate, AfterValidation, AfterBlock, CallStop, Goto,
       Finish, Restored
  <2>2. CASE InstallHold
    BY <2>2 DEF InstallHold, Goto, Finish, Restored
  <2>3. CASE VerifyHold
    BY <2>3 DEF VerifyHold, AfterBlock, CallStop, Goto, May
  <2>4. CASE Unhold
    BY <2>4 DEF Unhold, Goto, Finish, Restored, RemoveHoldOk, RemoveHoldErr
  <2>5. CASE StartXray
    BY <2>5 DEF StartXray, Fail, CallStop, Goto
  <2>6. CASE WaitUntilReady
    BY <2>6 DEF WaitUntilReady, Fail, CallStop, Goto
  <2>7. CASE RouteUp
    BY <2>7 DEF RouteUp, Fail, CallStop, Goto
  <2>8. CASE ActivateSplit
    BY <2>8 DEF ActivateSplit, SplitAfter, Fail, CallStop, Goto, May
  <2>9. CASE ActivateDns
    BY <2>9 DEF ActivateDns, Fail, CallStop, Goto
  <2>10. CASE VerifyConnection
    <3>0. pc = "verify" /\ hold' = hold /\ (Guarded => hold)
      BY <2>10 DEF VerifyConnection
    <3>1. CASE Commit
      <4>1. blockOnFailure' => Guarded
        BY <3>1 DEF Commit, BlocksOnFailure
      <4> QED BY <3>0, <3>1, <4>1 DEF Commit, Goto
    <3>2. CASE ~req.killswitch /\ Goto("release") /\ UNCHANGED managerVars
      BY <3>0, <3>2 DEF Goto
    <3>3. CASE Fail /\ UNCHANGED managerVars
      BY <3>0, <3>3 DEF Fail, CallStop
    <3> QED BY <2>10, <3>1, <3>2, <3>3 DEF VerifyConnection
  <2>11. CASE Release
    BY <2>11 DEF Release, RemoveHoldOk, RemoveHoldErr, Commit,
       BlocksOnFailure, Guarded, Finish, Goto
  <2>12. CASE ConnectFailed
    BY <2>12 DEF ConnectFailed, RemoveHoldOk, RemoveHoldErr, Finish, Goto,
       StaysBlocked
  <2>13. CASE StopSplit
    BY <2>13 DEF StopSplit, StopNext
  <2>14. CASE StopDns
    BY <2>14 DEF StopDns, StopNext
  <2>15. CASE StopRoutes
    BY <2>15 DEF StopRoutes, StopNext
  <2>16. CASE StopXray
    BY <2>16 DEF StopXray, StopReturns
  <2>17. CASE DropHold
    BY <2>17 DEF DropHold, RemoveHoldOk, RemoveHoldErr, Finish, Goto
  <2> QED
    BY <1>2, <2>1, <2>2, <2>3, <2>4, <2>5, <2>6, <2>7, <2>8, <2>9, <2>10,
       <2>11, <2>12, <2>13, <2>14, <2>15, <2>16, <2>17 DEF Operation
<1>3. CASE Environment
  BY <1>3 DEF Environment, XrayExits, OrphanExits
<1>4. CASE UNCHANGED vars
  BY <1>4 DEF vars
<1> QED BY <1>1, <1>2, <1>3, <1>4 DEF Next

(* A manager that reports Blocking has the hold block installed, for every   *)
(* set of faults in which an installed block can be confirmed. (A block that *)
(* cannot be is removed again while the armed flag survives it,              *)
(* lifecycle.rs:91-97, so the hypothesis is needed.)                         *)
THEOREM BlockingCorrect ==
  ASSUME "verifyHold" \notin Faults
  PROVE  Spec => []BlockingIsHeld
<1>1. Init => ArmedIsHeld
  BY DEF Init, ArmedIsHeld, BlockingIsHeld, HoldSpansConnect, InWindow
<1>2. TypeOK /\ ArmedIsHeld /\ [Next]_vars => ArmedIsHeld'
  BY ArmedStep
<1>3. ArmedIsHeld => BlockingIsHeld
  BY DEF ArmedIsHeld
<1> QED BY <1>1, <1>2, <1>3, TypeCorrect, PTL DEF Spec

(***************************************************************************)
(* What a connection claims                                                *)
(***************************************************************************)

(* Why a claim is true: connect lowers the flags before it can return to the *)
(* old connection, and reaches the commit only past what the flags stand     *)
(* for. While an operation runs, only a disconnect or a health check sees    *)
(* the phase Connected, and neither returns to it.                           *)
ClaimsAreBacked ==
  /\ NeverOverclaims
  /\ pc \in {"validate", "install", "verifyHold", "unhold"}
       => ~splitActive /\ ~dnsProtected
  /\ pc \in {"dns", "release"} => Guarded
  /\ pc = "dns" => splitApps = req.apps
  /\ pc \in {"verify", "release"} /\ Guarded
       => dnsActive /\ dnsTable /\ splitApps = req.apps
  /\ pc \in {"routeUp", "split"} => Guarded
  /\ pc \notin {"idle", "dropHold"} \cup StopSteps => phase # "Connected"
  /\ pc \in StopSteps /\ ret \in {"start", "failed"} => phase # "Connected"

(* Every step keeps the claims backed, given that a split is rolled back     *)
(* when it is asked to.                                                      *)
LEMMA ClaimsStep ==
  ASSUME "unsplit" \notin Faults, TypeOK, ClaimsAreBacked, [Next]_vars
  PROVE  ClaimsAreBacked'
<1>0. req \in Requests /\ (~Guarded => req.apps = NoApps)
  BY RequestFields DEF TypeOK, TypeOperation, Guarded, Requests
<1> USE <1>0 DEF TypeOK, TypeOperation, TypeManager, ClaimsAreBacked,
      NeverOverclaims, Guarded
<1>1. CASE Command
  <2>1. ASSUME NEW r \in Requests, Connect(r) PROVE ClaimsAreBacked'
    BY <2>1 DEF Connect
  <2>2. ASSUME NEW apps \in Lists, UpdateSplit(apps) PROVE ClaimsAreBacked'
    <3>1. /\ pc = "idle" /\ phase = "Connected"
          /\ UNCHANGED <<phase, dnsProtected, dnsActive, dnsTable, opVars>>
      BY <2>2 DEF UpdateSplit
    <3>2. \/ splitApps' = apps /\ splitActive' = (apps # NoApps)
          \/ UNCHANGED <<splitApps, splitActive>>
      BY <2>2 DEF UpdateSplit, May
    <3>3. splitActive' => splitApps' # NoApps
      BY ZenonT(60), <3>1, <3>2
    <3> QED BY <3>1, <3>3
  <2>3. CASE Disconnect
    BY <2>3 DEF Disconnect, CallStop
  <2>4. CASE ReconcileHealth
    BY <2>4 DEF ReconcileHealth, CallStop
  <2> QED BY <1>1, <2>1, <2>2, <2>3, <2>4 DEF Command
<1>2. CASE Operation
  <2>1. CASE Validate
    BY <2>1 DEF Validate, AfterValidation, AfterBlock, CallStop, Goto,
       Finish, Restored
  <2>2. CASE InstallHold
    BY <2>2 DEF InstallHold, Goto, Finish, Restored
  <2>3. CASE VerifyHold
    BY <2>3 DEF VerifyHold, AfterBlock, CallStop, Goto
  <2>4. CASE Unhold
    BY <2>4 DEF Unhold, Goto, Finish, Restored
  <2>5. CASE StartXray
    BY <2>5 DEF StartXray, Goto, Fail, CallStop
  <2>6. CASE WaitUntilReady
    BY <2>6 DEF WaitUntilReady, Fail, CallStop, Goto
  <2>7. CASE RouteUp
    BY <2>7 DEF RouteUp, Fail, CallStop, Goto
  <2>8. CASE ActivateSplit
    BY <2>8 DEF ActivateSplit, Fail, CallStop, Goto
  <2>9. CASE ActivateDns
    BY <2>9 DEF ActivateDns, Fail, CallStop, Goto
  <2>10. CASE VerifyConnection
    <3>0. pc = "verify" /\ UNCHANGED <<dnsActive, dnsTable, splitApps>>
      BY <2>10 DEF VerifyConnection
    <3>1. CASE Commit
      BY <3>0, <3>1 DEF Commit, Goto
    <3>2. CASE Guarded /\ Goto("release") /\ UNCHANGED managerVars
      BY <3>0, <3>2 DEF Goto
    <3>3. CASE Fail /\ UNCHANGED managerVars
      BY <3>0, <3>3 DEF Fail, CallStop
    <3> QED BY <2>10, <3>1, <3>2, <3>3 DEF VerifyConnection
  <2>11. CASE Release
    BY <2>11 DEF Release, Commit, Finish, Goto
  <2>12. CASE ConnectFailed
    BY <2>12 DEF ConnectFailed, Finish, Goto
  <2>13. CASE StopSplit
    BY <2>13 DEF StopSplit, StopNext
  <2>14. CASE StopDns
    BY <2>14 DEF StopDns, StopNext
  <2>15. CASE StopRoutes
    BY <2>15 DEF StopRoutes, StopNext
  <2>16. CASE StopXray
    BY <2>16 DEF StopXray, StopReturns
  <2>17. CASE DropHold
    BY <2>17 DEF DropHold, Finish, Goto
  <2> QED
    BY <1>2, <2>1, <2>2, <2>3, <2>4, <2>5, <2>6, <2>7, <2>8, <2>9, <2>10,
       <2>11, <2>12, <2>13, <2>14, <2>15, <2>16, <2>17 DEF Operation
<1>3. CASE Environment
  BY <1>3 DEF Environment, XrayExits, OrphanExits
<1>4. CASE UNCHANGED vars
  BY <1>4 DEF vars
<1> QED BY <1>1, <1>2, <1>3, <1>4 DEF Next

(* Between operations a connection has the protected DNS and the split it    *)
(* claims, for every set of faults in which a split can be rolled back. (One *)
(* that cannot is forgotten while split_active stays, lifecycle.rs:145-151,  *)
(* so the hypothesis is needed.)                                             *)
THEOREM ClaimsCorrect ==
  ASSUME "unsplit" \notin Faults
  PROVE  Spec => []NeverOverclaims
<1>1. Init => ClaimsAreBacked
  BY DEF Init, ClaimsAreBacked, NeverOverclaims
<1>2. TypeOK /\ ClaimsAreBacked /\ [Next]_vars => ClaimsAreBacked'
  BY ClaimsStep
<1>3. ClaimsAreBacked => NeverOverclaims
  BY DEF ClaimsAreBacked
<1> QED BY <1>1, <1>2, <1>3, TypeCorrect, PTL DEF Spec

(***************************************************************************)
(* Who owns the Xray                                                       *)
(***************************************************************************)

(* The places at which the backend may hold an Xray and its mode.            *)
MayOwn ==
  \/ phase = "Connected"
  \/ pc \in {"ready", "routeUp", "split", "dns", "verify", "release"}
  \/ pc \in StopSteps
  \/ was /\ pc \in {"validate", "install", "verifyHold", "unhold"}

(* A held Xray is one the manager knows to stop before it starts another:    *)
(* outside an operation it is that of the connection.                        *)
Owned ==
  /\ xray # "none" => MayOwn
  /\ mode # "none" => MayOwn
  /\ pc \notin {"idle", "dropHold"} \cup StopSteps => phase # "Connected"
  /\ pc \in StopSteps /\ ret \in {"start", "failed"} => phase # "Connected"
  /\ pc = "dropHold" => xray = "none" /\ mode = "none"

(* Every step keeps the ownership, as long as the helper can be spawned.     *)
LEMMA OwnedStep ==
  ASSUME "helper" \notin Faults, TypeOK, Owned, [Next]_vars
  PROVE  Owned'
<1> USE DEF TypeOK, TypeOperation, TypeBackend, Owned, MayOwn
<1>1. CASE Command
  <2>1. ASSUME NEW r \in Requests, Connect(r) PROVE Owned'
    BY <2>1 DEF Connect
  <2>2. ASSUME NEW apps \in Lists, UpdateSplit(apps) PROVE Owned'
    BY <2>2 DEF UpdateSplit
  <2>3. CASE Disconnect
    BY <2>3 DEF Disconnect, CallStop
  <2>4. CASE ReconcileHealth
    BY <2>4 DEF ReconcileHealth, CallStop
  <2> QED BY <1>1, <2>1, <2>2, <2>3, <2>4 DEF Command
<1>2. CASE Operation
  <2>1. CASE Validate
    BY <2>1 DEF Validate, AfterValidation, AfterBlock, CallStop, Goto,
       Finish, Restored
  <2>2. CASE InstallHold
    BY <2>2 DEF InstallHold, Goto, Finish, Restored
  <2>3. CASE VerifyHold
    BY <2>3 DEF VerifyHold, AfterBlock, CallStop, Goto
  <2>4. CASE Unhold
    BY <2>4 DEF Unhold, Goto, Finish, Restored, RemoveHoldErr, May
  <2>5. CASE StartXray
    BY <2>5 DEF StartXray, Goto, Fail, CallStop
  <2>6. CASE WaitUntilReady
    BY <2>6 DEF WaitUntilReady, Fail, CallStop, Goto
  <2>7. CASE RouteUp
    BY <2>7 DEF RouteUp, Fail, CallStop, Goto
  <2>8. CASE ActivateSplit
    BY <2>8 DEF ActivateSplit, Fail, CallStop, Goto
  <2>9. CASE ActivateDns
    BY <2>9 DEF ActivateDns, Fail, CallStop, Goto
  <2>10. CASE VerifyConnection
    BY <2>10 DEF VerifyConnection, Commit, Fail, CallStop, Goto
  <2>11. CASE Release
    BY <2>11 DEF Release, RemoveHoldErr, May, Commit, Finish, Goto
  <2>12. CASE ConnectFailed
    BY <2>12 DEF ConnectFailed, Finish, Goto
  <2>13. CASE StopSplit
    BY <2>13 DEF StopSplit, StopNext
  <2>14. CASE StopDns
    BY <2>14 DEF StopDns, StopNext
  <2>15. CASE StopRoutes
    BY <2>15 DEF StopRoutes, StopNext
  <2>16. CASE StopXray
    BY <2>16 DEF StopXray, StopReturns
  <2>17. CASE DropHold
    BY <2>17 DEF DropHold, Finish, Goto
  <2> QED
    BY <1>2, <2>1, <2>2, <2>3, <2>4, <2>5, <2>6, <2>7, <2>8, <2>9, <2>10,
       <2>11, <2>12, <2>13, <2>14, <2>15, <2>16, <2>17 DEF Operation
<1>3. CASE Environment
  BY <1>3 DEF Environment, XrayExits, OrphanExits
<1>4. CASE UNCHANGED vars
  BY <1>4 DEF vars
<1> QED BY <1>1, <1>2, <1>3, <1>4 DEF Next

KeepsXrayStep == orphan' => orphan \/ (pc = "stopXray" /\ stopErr')

(* While varmlen-net can be spawned, the daemon loses an Xray only where it  *)
(* could not kill it, and then says so (system.rs:845-868, 1056-1097). (A    *)
(* hold block that cannot be lifted leaves a running Xray behind the phase   *)
(* RecoveryRequired, from which connect stops nothing, so the hypothesis is  *)
(* needed.)                                                                  *)
THEOREM OrphanCorrect ==
  ASSUME "helper" \notin Faults
  PROVE  Spec => NeverLosesXray
<1>1. Init => Owned
  BY DEF Init, Owned
<1>2. TypeOK /\ Owned /\ [Next]_vars => Owned'
  BY OwnedStep
<1>3. TypeOK /\ Owned /\ [Next]_vars => [KeepsXrayStep]_vars
  <2> SUFFICES ASSUME TypeOK, Owned, Next, orphan', ~orphan
               PROVE  pc = "stopXray" /\ stopErr'
    BY DEF KeepsXrayStep
  <2>1. \/ StartXray
        \/ StopXray
    BY DEF Next, Command, Operation, Environment, Connect, UpdateSplit,
           Disconnect, ReconcileHealth, Validate, InstallHold, VerifyHold,
           Unhold, WaitUntilReady, RouteUp, ActivateSplit, ActivateDns,
           VerifyConnection, Release, ConnectFailed, StopSplit, StopDns,
           StopRoutes, DropHold, XrayExits, OrphanExits, kernelVars
  <2>2. ~StartXray
    BY DEF StartXray, Owned, MayOwn, StopSteps
  <2> QED BY <2>1, <2>2 DEF StopXray
<1> QED
  BY <1>1, <1>2, <1>3, TypeCorrect, PTL DEF Spec, NeverLosesXray, KeepsXrayStep

(***************************************************************************)
(* What disconnect leaves                                                  *)
(***************************************************************************)

(* The cleanups that fail, if they do, fail visibly and are tried again.     *)
CleanupIsSeen == {"helper", "silent", "unsplit"} \cap Faults = {}

(* Every piece of kernel state has a record in the backend that leads        *)
(* stop_data_plane to it, and as stop_data_plane advances the records go.    *)
Accounted ==
  /\ Owned
  /\ dnsTable => dnsActive
  /\ splitLive => splitApps # NoApps
  /\ routes => rules
  /\ rules => mode = "Tun"
  /\ pc = "ready" => mode = req.mode
  /\ pc \in {"routeUp", "split", "dns"} => mode = "Tun"
  /\ pc = "stopXray" => ~rules
  /\ ret # "start" /\ pc \in {"stopDns", "stopRoutes", "stopXray"}
       => splitApps = NoApps
  /\ pc \in {"stopRoutes", "stopXray"} /\ ~stopErr => ~dnsActive
  /\ pc = "dropHold" => splitApps = NoApps /\ (stopErr \/ ~dnsActive)

(* Every step keeps the account.                                             *)
LEMMA AccountStep ==
  ASSUME CleanupIsSeen, TypeOK, Accounted, [Next]_vars
  PROVE  Accounted'
<1>0. Owned'
  BY OwnedStep DEF Accounted, CleanupIsSeen
<1> USE <1>0 DEF CleanupIsSeen, TypeOK, TypeOperation, TypeBackend, Accounted, May
<1>1. CASE Command
  <2>1. ASSUME NEW r \in Requests, Connect(r) PROVE Accounted'
    BY <2>1 DEF Connect
  <2>2. ASSUME NEW apps \in Lists, UpdateSplit(apps) PROVE Accounted'
    BY <2>2 DEF UpdateSplit, SplitAfter, May
  <2>3. CASE Disconnect
    BY <2>3 DEF Disconnect, CallStop
  <2>4. CASE ReconcileHealth
    BY <2>4 DEF ReconcileHealth, CallStop
  <2> QED BY <1>1, <2>1, <2>2, <2>3, <2>4 DEF Command
<1>2. CASE Operation
  <2>1. CASE Validate
    BY <2>1 DEF Validate, AfterValidation, AfterBlock, CallStop, Goto,
       Finish, Restored
  <2>2. CASE InstallHold
    BY <2>2 DEF InstallHold, Goto, Finish, Restored
  <2>3. CASE VerifyHold
    BY <2>3 DEF VerifyHold, AfterBlock, CallStop, Goto
  <2>4. CASE Unhold
    BY <2>4 DEF Unhold, Goto, Finish, Restored, RemoveHoldOk, RemoveHoldErr
  <2>5. CASE StartXray
    <3>1. pc = "start" /\ phase # "Connected" /\ xray = "none" /\ mode = "none"
            /\ ~rules /\ ~routes
      BY <2>5 DEF StartXray, Owned, MayOwn
    <3>2. CASE Goto("ready") /\ mode' = req.mode
      BY <2>5, <3>1, <3>2 DEF StartXray, Goto
    <3>3. CASE Fail /\ UNCHANGED <<xray, orphan, tun, identity, mode>>
      BY <2>5, <3>1, <3>3 DEF StartXray, Fail, CallStop
    <3> QED BY <2>5, <3>2, <3>3 DEF StartXray
  <2>6. CASE WaitUntilReady
    BY <2>6 DEF WaitUntilReady, Fail, CallStop, Goto, Guarded
  <2>7. CASE RouteUp
    BY <2>7 DEF RouteUp, Fail, CallStop, Goto
  <2>8. CASE ActivateSplit
    BY <2>8 DEF ActivateSplit, SplitAfter, Fail, CallStop, Goto, May
  <2>9. CASE ActivateDns
    BY <2>9 DEF ActivateDns, Fail, CallStop, Goto
  <2>10. CASE VerifyConnection
    BY <2>10 DEF VerifyConnection, Commit, BlocksOnFailure, Guarded, Fail,
       CallStop, Goto
  <2>11. CASE Release
    BY <2>11 DEF Release, RemoveHoldOk, RemoveHoldErr, Commit,
       BlocksOnFailure, Guarded, Finish, Goto
  <2>12. CASE ConnectFailed
    BY <2>12 DEF ConnectFailed, RemoveHoldOk, RemoveHoldErr, Finish, Goto
  <2>13. CASE StopSplit
    BY ZenonT(60), <2>13 DEF StopSplit, StopNext
  <2>14. CASE StopDns
    BY ZenonT(60), <2>14 DEF StopDns, StopNext
  <2>15. CASE StopRoutes
    BY <2>15 DEF StopRoutes, StopNext
  <2>16. CASE StopXray
    <3>1. /\ pc = "stopXray" /\ ~rules /\ ~routes
          /\ ret # "start" => splitApps = NoApps
          /\ stopErr \/ ~dnsActive
      BY <2>16 DEF StopXray
    <3>2. stopErr => stopErr'
      BY <2>16 DEF StopXray
    <3>3. ~routes'
      BY ZenonT(60), <2>16, <3>1 DEF StopXray
    <3>4. UNCHANGED <<dnsActive, splitApps, rules, dnsTable, splitLive, ret, was>>
      BY <2>16 DEF StopXray, StopReturns
    <3>5. /\ pc' \in {"start", "idle", "failed", "dropHold"}
          /\ pc' = "dropHold" => ret = "disconnect"
      BY <2>16 DEF StopXray, StopReturns
    <3> QED BY <3>1, <3>2, <3>3, <3>4, <3>5
  <2>17. CASE DropHold
    BY <2>17 DEF DropHold, RemoveHoldOk, RemoveHoldErr, Finish, Goto
  <2> QED
    BY <1>2, <2>1, <2>2, <2>3, <2>4, <2>5, <2>6, <2>7, <2>8, <2>9, <2>10,
       <2>11, <2>12, <2>13, <2>14, <2>15, <2>16, <2>17 DEF Operation
<1>3. CASE Environment
  <2>1. CASE XrayExits
    <3>1. routes' => routes
      BY ZenonT(60), <2>1 DEF XrayExits
    <3> QED BY <2>1, <3>1 DEF XrayExits
  <2>2. CASE OrphanExits
    BY <2>2 DEF OrphanExits
  <2> QED BY <1>3, <2>1, <2>2 DEF Environment
<1>4. CASE UNCHANGED vars
  BY <1>4 DEF vars
<1> QED BY <1>1, <1>2, <1>3, <1>4 DEF Next


LeavesNothingStep ==
  pc = "dropHold" /\ pc' = "idle" /\ phase' = "Disconnected" => Empty'

(* When the cleanups that fail are seen to fail, a disconnect that reports   *)
(* Disconnected has left nothing behind, also after earlier attempts that    *)
(* failed (lifecycle.rs:176-195).                                            *)
THEOREM DisconnectCorrect ==
  ASSUME CleanupIsSeen
  PROVE  Spec => DisconnectLeavesNothing
<1>1. Init => Accounted
  BY DEF Init, Accounted, Owned
<1>2. TypeOK /\ Accounted /\ [Next]_vars => Accounted'
  BY AccountStep
<1>3. TypeOK /\ Accounted /\ [Next]_vars => [LeavesNothingStep]_vars
  <2> SUFFICES ASSUME TypeOK, Accounted, Next, pc = "dropHold",
                      pc' = "idle", phase' = "Disconnected"
               PROVE  Empty'
    BY DEF LeavesNothingStep
  <2>1. DropHold
    BY DEF Next, Command, Operation, Connect, UpdateSplit, Disconnect,
           ReconcileHealth, Validate, InstallHold, VerifyHold, Unhold,
           StartXray, WaitUntilReady, RouteUp, ActivateSplit, ActivateDns,
           VerifyConnection, Release, ConnectFailed, StopSplit, StopDns,
           StopRoutes, StopXray, Environment, XrayExits, OrphanExits, opVars
  <2>2. DropHold /\ hold' = FALSE /\ ~stopErr
    BY <2>1
       DEF DropHold, RemoveHoldOk, RemoveHoldErr, May, CleanupIsSeen, Finish
  <2> QED
    BY <2>2 DEF DropHold, Accounted, Owned, Empty
<1> QED
  BY <1>1, <1>2, <1>3, TypeCorrect, PTL
     DEF Spec, DisconnectLeavesNothing, LeavesNothingStep

(***************************************************************************)
(* The daemon                                                              *)
(***************************************************************************)
HIDE DEF Phases, Steps, StopSteps
USE DEF vars

(* Until recovery is over nothing claims to be connected, and what recovery  *)
(* is about to report is what its second inspection saw.                     *)
RecoveryIsHonest ==
  /\ ConnectedIsRecorded
  /\ daemon # "up" => phase # "Connected"
  /\ daemon = "save" /\ phase = "Disconnected" => NetworkRestored

(* An inspection that finds nothing has looked at everything.                *)
LEMMA NothingFound ==
  ASSUME Inspected = {} PROVE NetworkRestored
<1>1. \A r \in {"xray", "tun", "routes", "dns", "hold", "split", "file"} :
        r \in Resources
  BY DEF Resources, ResourceOrder
<1> QED BY <1>1 DEF Inspected, NetworkRestored, RulesGone

(* Steps of the running daemon leave the connection unpersisted or persisted, *)
(* and those of recovery leave it alone.                                     *)
LEMMA HonestStep ==
  ASSUME RecoveryIsHonest, [DaemonNext]_allVars
  PROVE  RecoveryIsHonest'
<1> USE DEF RecoveryIsHonest, ConnectedIsRecorded
<1>1. CASE Begin
  BY <1>1 DEF Begin
<1>2. CASE Touch
  BY <1>2 DEF Touch
<1>3. CASE Proceed
  BY <1>3 DEF Proceed
<1>4. CASE Persist
  BY <1>4 DEF Persist, Identified
<1>5. CASE Terminate
  BY <1>5 DEF Terminate
<1>6. CASE ShutdownDisconnect
  BY <1>6 DEF ShutdownDisconnect, Disconnect, CallStop
<1>7. CASE Crash \/ Exit
  BY <1>7 DEF Crash, Exit, ProcessEnds
<1>8. CASE Recovery
  <2>1. CASE Start
    BY <2>1 DEF Start
  <2>2. CASE Inspect
    BY <2>2 DEF Inspect
  <2>3. CASE Remove
    BY <2>3 DEF Remove
  <2>4. CASE Verify
    <3>1. daemon = "remove" /\ daemon' = "save" /\ UNCHANGED kernelVars
      BY <2>4 DEF Verify
    <3>2. phase' = "RecoveryRequired" \/ (phase' = "Disconnected" /\ Inspected = {})
      BY <2>4 DEF Verify, Reported
    <3>3. phase' = "Disconnected" => NetworkRestored'
      BY <3>1, <3>2, NothingFound DEF NetworkRestored, RulesGone
    <3> QED BY <3>1, <3>2, <3>3
  <2>5. CASE Save
    BY <2>5 DEF Save, Crash, ProcessEnds
  <2> QED BY <1>8, <2>1, <2>2, <2>3, <2>4, <2>5 DEF Recovery
<1>9. CASE Exits
  <2>1. UNCHANGED <<daemon, dirty, phase, identity, pc>>
    BY <1>9 DEF Exits, Environment, XrayExits, OrphanExits
  <2>2. xray' = "running" => xray = "running"
    BY <1>9 DEF Exits, Environment, XrayExits, OrphanExits
  <2>3. file = "child" /\ xray' = "running" => file' = "child"
    BY <1>9, <2>1 DEF Exits, FileTracks
  <2>4. NetworkRestored => NetworkRestored'
    BY <1>9 DEF Exits, Environment, XrayExits, OrphanExits, NetworkRestored,
       RulesGone
  <2> QED BY <2>1, <2>2, <2>3, <2>4
<1>10. CASE UNCHANGED allVars
  BY <1>10 DEF allVars, daemonVars, NetworkRestored, RulesGone
<1> QED
  BY <1>1, <1>2, <1>3, <1>4, <1>5, <1>6, <1>7, <1>8, <1>9, <1>10 DEF DaemonNext

(* The daemon starts with a state file that tells the truth.                 *)
LEMMA HonestInit == DaemonInit => RecoveryIsHonest
  BY DEF DaemonInit, Init, RecoveryIsHonest, ConnectedIsRecorded

(* Between operations the state file names the Xray that carries the         *)
(* connection, whatever failed, died or was persisted before, so that the    *)
(* recovery after a crash can find it (controller.rs:43-57, 117).            *)
THEOREM RecordedCorrect == DaemonSpec => []ConnectedIsRecorded
<1>1. RecoveryIsHonest => ConnectedIsRecorded
  BY DEF RecoveryIsHonest
<1> QED BY <1>1, HonestInit, HonestStep, PTL DEF DaemonSpec

RestoredStep ==
  daemon = "save" /\ daemon' = "up" /\ phase' = "Disconnected" => NetworkRestored'

(* A daemon that comes up Disconnected has found the network in order,       *)
(* wherever any number of processes before it were killed and whatever       *)
(* removal failed (recovery.rs:338-346, main.rs:82-90).                      *)
THEOREM RecoveryCorrect == DaemonSpec => RecoveredIsRestored
<1>1. RecoveryIsHonest /\ [DaemonNext]_allVars => [RestoredStep]_allVars
  <2> SUFFICES ASSUME RecoveryIsHonest, DaemonNext, daemon = "save",
                      daemon' = "up", phase' = "Disconnected"
               PROVE  NetworkRestored'
    BY DEF RestoredStep
  <2>1. Save
    BY DEF DaemonNext, Begin, Touch, Proceed, Persist, Terminate,
           ShutdownDisconnect, Crash, Exit, ProcessEnds, Recovery, Start, Inspect,
           Remove, Verify, Exits
  <2>2. UNCHANGED vars
    BY <2>1 DEF Save, Crash, ProcessEnds
  <2> QED BY <2>2 DEF RecoveryIsHonest, NetworkRestored, RulesGone
<1> QED
  BY <1>1, HonestInit, HonestStep, PTL
     DEF DaemonSpec, RecoveredIsRestored, RestoredStep

(***************************************************************************)
(* The lifecycle inside the daemon                                         *)
(***************************************************************************)

(* What the lifecycle guarantees survives the daemon around it: a process    *)
(* that is not up holds nothing in memory, and one that is up and unsaved    *)
(* stands between operations.                                                *)
Contained ==
  /\ TypeOK
  /\ RecoveryIsHonest
  /\ daemon # "up" =>
       /\ pc = "idle" /\ xray = "none" /\ mode = "none" /\ ~dnsActive
       /\ splitApps = NoApps /\ ~blockOnFailure /\ closing = "no" /\ ~dirty
       /\ phase \in {"Disconnected", "RecoveryRequired"}
  /\ dirty => pc = "idle"

(* A step of the running daemon is one of the lifecycle, or leaves it alone. *)
LifecycleStep == daemon = "up" /\ daemon' = "up" /\ [Next]_vars

(* The steps of the daemon, by what they do to the lifecycle.                *)
LEMMA DaemonSteps ==
  ASSUME Contained, [DaemonNext]_allVars
  PROVE  \/ LifecycleStep /\ UNCHANGED orderly
         \/ Persist
         \/ daemon # "down" /\ ProcessEnds
         \/ daemon # "up" /\ (Start \/ Inspect \/ Remove \/ Verify \/ Save \/ Exits)
         \/ UNCHANGED allVars
<1> USE DEF LifecycleStep, Next
<1>1. CASE Begin
  BY <1>1 DEF Begin
<1>2. CASE Touch \/ Terminate
  BY <1>2 DEF Touch, Terminate
<1>3. CASE Proceed
  BY <1>3 DEF Proceed
<1>4. CASE ShutdownDisconnect
  BY <1>4 DEF ShutdownDisconnect, Command
<1>5. CASE Crash \/ Exit
  BY <1>5 DEF Crash, Exit
<1>6. CASE Recovery
  BY <1>6 DEF Recovery, Start, Inspect, Remove, Verify, Save
<1>7. CASE Exits
  BY <1>7 DEF Exits
<1> QED BY <1>1, <1>2, <1>3, <1>4, <1>5, <1>6, <1>7 DEF DaemonNext

(* A process that ends leaves the memory of one that never ran.              *)
LEMMA EndedAtRest ==
  ASSUME TypeOK, ProcessEnds
  PROVE  /\ TypeOK' /\ daemon' = "down"
         /\ pc' = "idle" /\ xray' = "none" /\ mode' = "none" /\ ~dnsActive'
         /\ splitApps' = NoApps /\ ~blockOnFailure' /\ closing' = "no" /\ ~dirty'
         /\ phase' = "Disconnected"
<1>1. TypeManager' /\ TypeBackend' /\ TypeOperation'
  BY DEF ProcessEnds, TypeOK, TypeManager, TypeBackend, TypeOperation, Lists, Phases,
         Steps
<1>2. TypeKernel'
  <2>1. tun' \in {"none", "child", "orphan", "persistent"} /\ orphan' \in BOOLEAN
    BY DEF ProcessEnds, TypeOK, TypeKernel
  <2>2. routes' \in BOOLEAN
    BY Zenon DEF ProcessEnds, TypeOK, TypeKernel
  <2>3. UNCHANGED <<hold, rules, dnsTable, splitLive>>
    BY DEF ProcessEnds
  <2> QED BY <2>1, <2>2, <2>3 DEF TypeOK, TypeKernel
<1> QED BY <1>1, <1>2 DEF ProcessEnds, TypeOK

(* A removal leaves every piece of kernel state with its type.               *)
LEMMA RemovalTypes ==
  ASSUME TypeKernel, Remove
  PROVE  TypeKernel'
<1>1. CASE UNCHANGED kernelVars
  BY <1>1 DEF TypeKernel
<1>2. CASE Removal(NextResource)
  <2>1. tun' \in {"none", "child", "orphan", "persistent"}
    BY <1>2 DEF Removal, DeleteTun, TypeKernel
  <2>2. routes' \in BOOLEAN
    BY Zenon, <1>2 DEF Removal, DeleteTun, TypeKernel
  <2>3. /\ hold' \in BOOLEAN /\ rules' \in BOOLEAN /\ dnsTable' \in BOOLEAN
        /\ splitLive' \in BOOLEAN /\ orphan' \in BOOLEAN
    BY <1>2 DEF Removal, TypeKernel
  <2> QED BY <2>1, <2>2, <2>3 DEF TypeKernel
<1> QED BY <1>1, <1>2 DEF Remove

(* No step of the daemon, of a client or of a crash breaks Contained.        *)
LEMMA ContainedStep ==
  ASSUME Contained, [DaemonNext]_allVars
  PROVE  Contained'
<1>0. RecoveryIsHonest'
  BY HonestStep DEF Contained
<1>1. TypeOK'
  <2>1. CASE [Next]_vars
    BY <2>1, ControlTypes, BackendTypes, KernelTypes DEF TypeOK, Contained
  <2>2. CASE Persist
    <3>1. TypeManager'
      <4>1. CASE UNCHANGED <<phase, splitActive, dnsProtected, orderly>>
        BY <2>2, <4>1 DEF Persist, Contained, TypeOK, TypeManager
      <4>2. CASE phase' = "RecoveryRequired" /\ splitActive' = FALSE /\ dnsProtected' = FALSE
        BY <2>2, <4>2 DEF Persist, Contained, TypeOK, TypeManager, Phases
      <4> QED BY <2>2, <4>1, <4>2 DEF Persist
    <3>2. UNCHANGED <<backendVars, kernelVars, opVars>>
      BY <2>2 DEF Persist
    <3>3. TypeBackend' /\ TypeKernel' /\ TypeOperation'
      BY <3>2 DEF Contained, TypeOK, TypeBackend, TypeKernel, TypeOperation
    <3> QED BY <3>1, <3>3 DEF TypeOK
  <2>3. CASE ProcessEnds
    BY <2>3, EndedAtRest DEF Contained
  <2>4. CASE Start \/ UNCHANGED allVars
    BY <2>4 DEF Start, allVars, Contained, TypeOK, TypeManager, TypeBackend, TypeKernel,
       TypeOperation
  <2>5. CASE Inspect \/ Verify
    BY <2>5 DEF Inspect, Verify, Reported, Contained, TypeOK, TypeManager, TypeBackend,
       TypeKernel, TypeOperation, Phases
  <2>6. CASE Remove
    <3>1. TypeKernel'
      BY <2>6, RemovalTypes DEF Contained, TypeOK
    <3> QED BY <2>6, <3>1 DEF Remove, Contained, TypeOK, TypeManager, TypeBackend,
               TypeOperation
  <2>7. CASE Save
    <3>1. CASE UNCHANGED vars
      BY <3>1, ControlTypes, BackendTypes, KernelTypes DEF TypeOK, Contained
    <3>2. CASE Crash
      BY <3>2, EndedAtRest DEF Crash, Contained
    <3> QED BY <2>7, <3>1, <3>2 DEF Save
  <2>8. CASE Exits
    BY <2>8, <2>1 DEF Exits, Next
  <2> QED BY <2>1, <2>2, <2>3, <2>4, <2>5, <2>6, <2>7, <2>8, DaemonSteps DEF LifecycleStep
<1>2. dirty' => pc' = "idle"
  <2>1. CASE Begin \/ Proceed
    BY <2>1 DEF Begin, Proceed
  <2>2. CASE Touch \/ Terminate
    BY <2>2 DEF Touch, Terminate, Contained
  <2>3. CASE Persist
    BY <2>3 DEF Persist
  <2>4. CASE ShutdownDisconnect
    BY <2>4 DEF ShutdownDisconnect
  <2>5. CASE Crash \/ Exit
    BY <2>5 DEF Crash, Exit, ProcessEnds
  <2>6. CASE Recovery
    BY <2>6 DEF Recovery, Start, Inspect, Remove, Verify, Save, Crash, ProcessEnds, Contained
  <2>7. CASE Exits
    BY <2>7 DEF Exits, Environment, XrayExits, OrphanExits, Contained
  <2>8. CASE UNCHANGED allVars
    BY <2>8 DEF allVars, daemonVars, Contained
  <2> QED
    BY <2>1, <2>2, <2>3, <2>4, <2>5, <2>6, <2>7, <2>8 DEF DaemonNext
<1> DEFINE AtRest ==
      /\ pc = "idle" /\ xray = "none" /\ mode = "none" /\ ~dnsActive
      /\ splitApps = NoApps /\ ~blockOnFailure /\ closing = "no" /\ ~dirty
      /\ phase \in {"Disconnected", "RecoveryRequired"}
<1>3. daemon' # "up" => AtRest'
  <2>1. CASE LifecycleStep
    BY <2>1 DEF LifecycleStep
  <2>2. CASE Persist
    BY <2>2 DEF Persist
  <2>3. CASE ProcessEnds
    BY <2>3, EndedAtRest DEF Contained
  <2>4. CASE UNCHANGED allVars
    BY <2>4 DEF allVars, daemonVars, Contained
  <2>5. CASE daemon # "up" /\ (Start \/ Inspect \/ Remove \/ Verify)
    BY <2>5 DEF Start, Inspect, Remove, Verify, Reported, Contained
  <2>6. CASE daemon # "up" /\ Save
    BY <2>6, EndedAtRest DEF Save, Crash, Contained
  <2>7. CASE daemon # "up" /\ Exits
    BY <2>7 DEF Exits, Environment, XrayExits, OrphanExits, Contained
  <2> QED BY <2>1, <2>2, <2>3, <2>4, <2>5, <2>6, <2>7, DaemonSteps
<1> QED BY <1>0, <1>1, <1>2, <1>3 DEF Contained

(* Contained holds when the daemon first starts.                             *)
LEMMA ContainedInit == DaemonInit => Contained
<1> SUFFICES ASSUME DaemonInit PROVE Contained
  OBVIOUS
<1>1. TypeOK
  <2>1. req \in Requests
    BY DEF DaemonInit, Init, Requests, Lists
  <2> QED
    BY <2>1 DEF DaemonInit, Init, TypeOK, TypeManager, TypeBackend, TypeKernel,
                TypeOperation, Lists, Phases, Steps
<1> QED BY <1>1, HonestInit DEF DaemonInit, Init, Contained

(* Through crashes, recoveries and states that could not be persisted too, a *)
(* daemon that reports Blocking has the hold block installed, as long as an  *)
(* installed block can be confirmed (lifecycle.rs:103, 110, 130, 211;        *)
(* controller.rs:43-57): a failed persist reports RecoveryRequired, and a    *)
(* process that comes up again claims no block.                              *)
THEOREM BlockingSurvives ==
  ASSUME "verifyHold" \notin Faults
  PROVE  DaemonSpec => []BlockingIsHeld
<1>1. DaemonInit => Contained /\ ArmedIsHeld
  BY ContainedInit DEF DaemonInit, Init, ArmedIsHeld, BlockingIsHeld, HoldSpansConnect, InWindow
<1>2. Contained /\ ArmedIsHeld /\ [DaemonNext]_allVars => Contained' /\ ArmedIsHeld'
  <2> SUFFICES ASSUME Contained, ArmedIsHeld, [DaemonNext]_allVars PROVE ArmedIsHeld'
    BY ContainedStep
  <2>0. Contained'
    BY ContainedStep
  <2>1. CASE [Next]_vars
    BY <2>1, ArmedStep DEF Contained
  <2>2. CASE Persist
    <3>1. pc = "idle" /\ pc' = "idle" /\ hold' = hold /\ blockOnFailure' = blockOnFailure
            /\ (phase' = phase \/ phase' = "RecoveryRequired")
      BY <2>2 DEF Persist, Contained
    <3> QED BY <3>1 DEF ArmedIsHeld, BlockingIsHeld, HoldSpansConnect, InWindow, StopSteps
  <2>3. CASE daemon' # "up"
    <3>1. pc' = "idle" /\ ~blockOnFailure' /\ phase' # "Blocking"
      BY <2>0, <2>3 DEF Contained
    <3> QED BY <3>1 DEF ArmedIsHeld, BlockingIsHeld, HoldSpansConnect, InWindow, StopSteps
  <2>4. CASE UNCHANGED vars
    BY <2>1, <2>4
  <2>5. daemon # "up" /\ daemon' = "up" => UNCHANGED vars
    BY DEF DaemonNext, Begin, Touch, Proceed, Persist, Terminate, ShutdownDisconnect,
           Crash, Exit, ProcessEnds, Recovery, Start, Inspect, Remove, Verify, Save, Exits,
           allVars, daemonVars
  <2>6. UNCHANGED allVars => UNCHANGED vars
    BY DEF allVars
  <2>7. ProcessEnds => daemon' # "up"
    BY DEF ProcessEnds
  <2> QED BY <2>1, <2>2, <2>3, <2>4, <2>5, <2>6, <2>7, DaemonSteps DEF LifecycleStep
<1>3. ArmedIsHeld => BlockingIsHeld
  BY DEF ArmedIsHeld
<1> QED BY <1>1, <1>2, <1>3, PTL DEF DaemonSpec

(***************************************************************************)
(* What a shutdown leaves                                                  *)
(***************************************************************************)

(* As long as the process came up on a network in order and persisted every  *)
(* state, its records lead to all it laid; and once the disconnect of its    *)
(* shutdown has succeeded there is nothing left and nobody begins again.     *)
Orderly ==
  /\ Contained
  /\ daemon = "up" /\ orderly => Accounted
  /\ daemon = "up" /\ orderly /\ closing = "done" => pc = "idle" /\ Empty

(* The disconnect that reports success has emptied everything.               *)
LEMMA DropHoldEmpties ==
  ASSUME CleanupIsSeen, Accounted, Operation, pc = "dropHold", phase' = "Disconnected"
  PROVE  pc' = "idle" /\ Empty'
<1>1. DropHold
  BY DEF Operation, Validate, InstallHold, VerifyHold, Unhold, StartXray, WaitUntilReady,
         RouteUp, ActivateSplit, ActivateDns, VerifyConnection, Release, ConnectFailed,
         StopSplit, StopDns, StopRoutes, StopXray
<1>2. hold' = FALSE /\ ~stopErr /\ pc' = "idle"
  BY <1>1 DEF DropHold, RemoveHoldOk, RemoveHoldErr, May, CleanupIsSeen, Finish, Goto
<1> QED BY <1>1, <1>2 DEF DropHold, Accounted, Owned, Empty

(* No step breaks the account of what an orderly daemon owns.                *)
LEMMA OrderlyStep ==
  ASSUME CleanupIsSeen, Orderly, [DaemonNext]_allVars
  PROVE  Orderly'
<1>0. Contained'
  BY ContainedStep DEF Orderly
<1>1. daemon' = "up" /\ orderly' => Accounted'
  <2>1. CASE LifecycleStep /\ UNCHANGED orderly
    BY <2>1, AccountStep DEF LifecycleStep, Orderly, Contained
  <2>2. CASE Persist
    <3> SUFFICES ASSUME orderly' PROVE Accounted'
      OBVIOUS
    <3>1. daemon = "up" /\ orderly /\ UNCHANGED <<phase, backendVars, kernelVars, opVars>>
      BY <2>2 DEF Persist
    <3> QED BY <3>1 DEF Orderly, Accounted, Owned, MayOwn
  <2>3. CASE daemon # "up" /\ daemon' = "up"
    <3>1. Save /\ UNCHANGED vars /\ daemon = "save" /\ orderly' = (phase = "Disconnected")
      BY <2>3 DEF DaemonNext, Begin, Touch, Proceed, Persist, Terminate, ShutdownDisconnect,
           Crash, Exit, ProcessEnds, Recovery, Start, Inspect, Remove, Verify, Save, Exits,
           allVars, daemonVars
    <3>2. orderly' => NetworkRestored
      BY <3>1 DEF Orderly, Contained, RecoveryIsHonest
    <3>3. pc = "idle" /\ xray = "none" /\ mode = "none"
      BY <3>1 DEF Orderly, Contained
    <3>4. orderly' => Accounted
      BY <3>2, <3>3 DEF Accounted, Owned, NetworkRestored, RulesGone, StopSteps
    <3> QED BY <3>1, <3>4 DEF Accounted, Owned, MayOwn
  <2>4. CASE UNCHANGED allVars
    BY <2>4 DEF Orderly, allVars, daemonVars, Accounted, Owned, MayOwn
  <2>5. ProcessEnds => daemon' # "up"
    BY DEF ProcessEnds
  <2> QED BY <2>1, <2>2, <2>3, <2>4, <2>5, DaemonSteps DEF Orderly
<1>2. daemon' = "up" /\ orderly' /\ closing' = "done" => pc' = "idle" /\ Empty'
  <2> SUFFICES ASSUME daemon' = "up", orderly', closing' = "done"
               PROVE  pc' = "idle" /\ Empty'
    OBVIOUS
  <2> DEFINE Done == daemon = "up" /\ orderly /\ closing = "done"
  <2>0. Done => pc = "idle" /\ Empty
    BY DEF Orderly
  <2>1. CASE Begin \/ Touch
    BY <2>1 DEF Begin, Touch
  <2>2. CASE Proceed
    <3>1. Operation /\ daemon = "up" /\ orderly
      BY <2>2 DEF Proceed
    <3>2. CASE pc = "dropHold" /\ closing = "disconnecting"
      <4>1. phase' = "Disconnected"
        BY <2>2, <3>2 DEF Proceed
      <4> QED BY <3>1, <3>2, <4>1, DropHoldEmpties DEF Orderly
    <3>3. CASE ~(pc = "dropHold" /\ closing = "disconnecting")
      <4>1. Done
        BY <2>2, <3>1, <3>3 DEF Proceed
      <4>2. pc # "idle"
        BY <3>1 DEF Operation, Validate, InstallHold, VerifyHold, Unhold, StartXray,
           WaitUntilReady, RouteUp, ActivateSplit, ActivateDns, VerifyConnection, Release,
           ConnectFailed, StopSplit, StopDns, StopRoutes, StopXray, DropHold
      <4> QED BY <2>0, <4>1, <4>2
    <3> QED BY <3>2, <3>3
  <2>3. CASE Persist
    <3>1. Done /\ UNCHANGED <<backendVars, kernelVars, opVars>>
      BY <2>3 DEF Persist
    <3> QED BY <2>0, <3>1 DEF Empty
  <2>4. CASE Terminate \/ ShutdownDisconnect
    BY <2>4 DEF Terminate, ShutdownDisconnect
  <2>5. CASE Crash \/ Exit
    BY <2>5 DEF Crash, Exit, ProcessEnds
  <2>6. CASE Recovery
    <3>1. daemon # "up"
      BY <2>6 DEF Recovery, Start, Inspect, Remove, Verify, Save
    <3>2. closing' # "done"
      BY <2>6, <3>1 DEF Recovery, Start, Inspect, Remove, Verify, Save, Crash, ProcessEnds,
         Orderly, Contained
    <3> QED BY <3>2
  <2>7. CASE Exits
    <3>1. Done /\ UNCHANGED <<pc, hold, rules, dnsTable, splitLive>>
      BY <2>7 DEF Exits, Environment, XrayExits, OrphanExits
    <3>2. xray' = xray
      BY <2>0, <2>7, <3>1 DEF Exits, Environment, XrayExits, OrphanExits, Empty
    <3>3. ~routes'
      BY Zenon, <2>0, <2>7, <3>1 DEF Exits, Environment, XrayExits, OrphanExits, Empty
    <3> QED BY <2>0, <3>1, <3>2, <3>3 DEF Empty
  <2>8. CASE UNCHANGED allVars
    BY <2>0, <2>8 DEF allVars, daemonVars, Empty
  <2> QED BY <2>1, <2>2, <2>3, <2>4, <2>5, <2>6, <2>7, <2>8 DEF DaemonNext
<1> QED BY <1>0, <1>1, <1>2 DEF Orderly

ShutdownStep ==
  closing = "done" /\ daemon' = "down" /\ orderly => RulesGone' /\ xray = "none"

(* "`systemctl stop` must therefore tear the data plane down first"          *)
(* (main.rs:102): when the cleanups that fail are seen to fail, a process    *)
(* that ends after its shutdown disconnect has succeeded leaves no rule,     *)
(* route or table and no Xray of its own, if it came up on a network in      *)
(* order and could persist every state since.                                *)
THEOREM ShutdownCorrect ==
  ASSUME CleanupIsSeen
  PROVE  DaemonSpec => ShutdownLeavesNothing
<1>1. DaemonInit => Orderly
  BY ContainedInit DEF DaemonInit, Orderly
<1>2. Orderly /\ [DaemonNext]_allVars => Orderly'
  BY OrderlyStep
<1>3. Orderly /\ [DaemonNext]_allVars => [ShutdownStep]_allVars
  <2> SUFFICES ASSUME Orderly, DaemonNext, closing = "done", daemon' = "down", orderly
               PROVE  RulesGone' /\ xray = "none"
    BY DEF ShutdownStep
  <2>1. daemon = "up"
    BY DEF Orderly, Contained
  <2>2. Empty
    BY <2>1 DEF Orderly
  <2>3. ProcessEnds
    BY <2>1 DEF DaemonNext, Begin, Touch, Proceed, Persist, Terminate, ShutdownDisconnect,
           Crash, Exit, Recovery, Start, Inspect, Remove, Verify, Save, Exits
  <2>4. ~routes'
    BY Zenon, <2>2, <2>3 DEF ProcessEnds, Empty
  <2> QED BY <2>2, <2>3, <2>4 DEF ProcessEnds, RulesGone, Empty
<1> QED BY <1>1, <1>2, <1>3, PTL DEF DaemonSpec, ShutdownLeavesNothing, ShutdownStep
=============================================================================
