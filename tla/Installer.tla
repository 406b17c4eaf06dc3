------------------------------ MODULE Installer ------------------------------
(***************************************************************************)
(* How a client command gets at a daemon (cli/src/main.rs: daemon, update; *)
(* cli/src/setup.rs). A daemon that does not answer is installed from the  *)
(* staged files, with sudo, and started if systemd says it is not active;  *)
(* `update` replaces one that answers with another version.                *)
(*                                                                         *)
(* The daemon runs the helper and Xray from the installed files, by path,  *)
(* whenever it needs them (system.rs). systemd restarts it when it fails.  *)
(***************************************************************************)
EXTENDS Naturals, Sequences

CONSTANT None

VARIABLES
  compatible,  \* the old daemon speaks this client's protocol
  files,     \* the version of each installed component
  unit,      \* the unit is installed
  daemon,    \* the version that runs, or None
  stage,     \* how far it has come: down, started, bound, serving
  began,     \* history: the files as they were when it started
  tunnel,    \* it holds a tunnel
  op,        \* the command that runs: use or update, or none
  yes,       \* --yes
  pc, todo,  \* its step; components to copy
  restart    \* --restart

vars == <<compatible, files, unit, daemon, stage, began, tunnel, op, yes, pc, todo, restart>>

Components == <<"varmlend", "varmlen-net", "xray">>
Names == {Components[i] : i \in 1..3}
Versions == {"old", "new"}
AllOf(v) == [n \in Names |-> v]

(* Nothing is installed, or an old version is, and may run with a tunnel.   *)
Init ==
  /\ \/ files = AllOf(None) /\ unit = FALSE /\ daemon = None
     \/ files = AllOf("old") /\ unit = TRUE /\ daemon \in {None, "old"}
  /\ compatible \in BOOLEAN
  /\ stage = IF daemon = None THEN "down" ELSE "serving"
  /\ tunnel \in {FALSE, daemon # None}
  /\ began = files
  /\ op = "none" /\ yes = FALSE /\ pc = "idle" /\ todo = <<>> /\ restart = FALSE

System == <<compatible, files, unit, daemon, stage, began, tunnel>>

Run(command, flag) ==
  /\ pc \in {"idle", "ok", "error"}
  /\ op' = command /\ yes' = flag
  /\ pc' = "ask" /\ restart' = FALSE /\ todo' = <<>>
  /\ UNCHANGED System

(* connect_installed finds a daemon that answers and speaks the protocol.   *)
Speaks == daemon = "new" \/ (daemon = "old" /\ compatible)

Answers == stage = "serving" /\ Speaks

(* elevate_and_install begins.                                              *)
Elevate(again) ==
  /\ pc' = "sudo" /\ restart' = again /\ todo' = Components
  /\ UNCHANGED <<op, yes, System>>

End(result) == pc' = result /\ UNCHANGED <<op, yes, todo, restart, System>>

(* A command that needs the daemon, and finds it.                           *)
UseAnswered == pc = "ask" /\ op = "use" /\ Answers /\ End("ok")

(* update: the phase is read now, and the daemon replaced later.            *)
UpdateAnswered ==
  /\ pc \in {"ask", "status"} /\ op = "update" /\ Answers
  /\ IF daemon = "new" THEN End("ok")
     ELSE IF tunnel /\ ~yes THEN End("error")
     ELSE Elevate(TRUE)

(* daemon(): any failure to reach it (none runs, it is outdated, has no slot *)
(* free, or is busy) is taken for one that is not installed or not running. *)
Unanswered ==
  /\ pc = "ask"
  /\ Elevate(FALSE)

(* A staged file is missing, sudo is refused, a copy or systemctl fails.    *)
Refused ==
  /\ pc \in {"sudo", "copy", "unit", "start"}
  /\ pc' = "error"
  /\ UNCHANGED <<op, yes, todo, restart, System>>

Sudo ==
  /\ pc = "sudo"
  /\ pc' = "copy"
  /\ UNCHANGED <<op, yes, todo, restart, System>>

(* Mutated: the last component is forgotten.                                *)
Copy_ButOne ==
  /\ pc = "copy"
  /\ files' = [files EXCEPT ![Head(todo)] = "new"]
  /\ todo' = Tail(todo)
  /\ pc' = IF Len(todo') = 1 THEN "unit" ELSE "copy"
  /\ UNCHANGED <<compatible, unit, daemon, stage, began, tunnel, op, yes, restart>>

(* install_as_root: each component is renamed into its place.               *)
Copy ==
  /\ pc = "copy"
  /\ files' = [files EXCEPT ![Head(todo)] = "new"]
  /\ todo' = Tail(todo)
  /\ pc' = IF todo' = <<>> THEN "unit" ELSE "copy"
  /\ UNCHANGED <<compatible, unit, daemon, stage, began, tunnel, op, yes, restart>>

Unit ==
  /\ pc = "unit"
  /\ unit' = TRUE /\ pc' = "start"
  /\ UNCHANGED <<compatible, files, daemon, stage, began, tunnel, op, yes, todo, restart>>

(* systemd starts what is installed.                                        *)
Spawned ==
  /\ daemon' = files["varmlend"] /\ stage' = "started"
  /\ began' = files /\ tunnel' = FALSE

(* Mutated: a unit that is active is restarted all the same.                *)
MustStart_Always == TRUE

MustStart == restart \/ daemon = None

(* A restart brings the tunnel down with the old daemon.                    *)
Start ==
  /\ pc = "start"
  /\ IF MustStart THEN Spawned ELSE UNCHANGED <<daemon, stage, began, tunnel>>
  /\ pc' = "wait"
  /\ UNCHANGED <<compatible, files, unit, op, yes, todo, restart>>

(* socket_ready: something listens, which is all an update asks of the      *)
(* daemon it has restarted.                                                 *)
Wait ==
  /\ pc = "wait"
  /\ stage \in {"bound", "serving"}
  /\ End(IF restart THEN "ok" ELSE "again")

(* Mutated: the second attempt waits without a limit.                       *)
WaitTimeout_Once ==
  /\ pc = "wait"
  /\ pc' = "error"
  /\ UNCHANGED <<op, yes, todo, restart, System>>

(* The socket does not appear in time, or no answer comes on it.            *)
WaitTimeout ==
  /\ pc \in {"wait", "again"}
  /\ pc' = "error"
  /\ UNCHANGED <<op, yes, todo, restart, System>>

(* The second connect_installed, which waits while the daemon recovers. An  *)
(* update that was not answered at first now asks for the version.          *)
Again ==
  /\ pc = "again" /\ stage # "bound"
  /\ IF ~Answers THEN End("error")
     ELSE End(IF op = "update" THEN "status" ELSE "ok")

StatusFails == pc = "status" /\ End("error")

ClientStep ==
  \/ UseAnswered \/ UpdateAnswered \/ Unanswered \/ Sudo \/ Copy \/ Unit
  \/ Start \/ Wait \/ Again \/ StatusFails

(***************************************************************************)
(* The daemon and the others                                               *)
(***************************************************************************)
Client == <<op, yes, pc, todo, restart>>

(* main: the socket is bound before the recovery and served after it.       *)
Bind ==
  /\ stage = "started" /\ stage' = "bound"
  /\ UNCHANGED <<compatible, files, unit, daemon, began, tunnel, Client>>

Recover ==
  /\ stage = "bound" /\ stage' = "serving"
  /\ UNCHANGED <<compatible, files, unit, daemon, began, tunnel, Client>>

OtherConnects ==
  /\ stage = "serving" /\ ~tunnel
  /\ tunnel' = TRUE
  /\ UNCHANGED <<compatible, files, unit, daemon, stage, began, Client>>

OtherDisconnects ==
  /\ tunnel
  /\ tunnel' = FALSE
  /\ UNCHANGED <<compatible, files, unit, daemon, stage, began, Client>>

(* Restart=on-failure: systemd starts what is installed by now.             *)
Dies ==
  /\ daemon # None
  /\ Spawned
  /\ UNCHANGED <<compatible, files, unit, op, yes, pc, todo, restart>>

DaemonStep == Bind \/ Recover

Next ==
  \/ \E command \in {"use", "update"}, flag \in BOOLEAN : Run(command, flag)
  \/ ClientStep \/ Refused \/ WaitTimeout
  \/ DaemonStep \/ OtherConnects \/ OtherDisconnects \/ Dies

Spec == Init /\ [][Next]_vars

(* A command that runs goes on, and so does a daemon that starts.           *)
FairSpec == Spec /\ WF_vars(ClientStep \/ Refused \/ WaitTimeout) /\ WF_vars(DaemonStep)

(***************************************************************************)
(* Properties                                                              *)
(***************************************************************************)

(* "That brings the tunnel down with it, which is why only an explicit      *)
(* update asks for it" (setup.rs:163-164): no other command of the client   *)
(* ends a tunnel.                                                           *)
OnlyUpdateCutsTunnel ==
  [][tunnel /\ ~tunnel' /\ pc = "start" /\ pc' = "wait" => op = "update"]_vars

(* A daemon that the client starts has only files of one version, wherever  *)
(* an earlier installation was cut short.                                   *)
StartsWhole ==
  [][pc = "start" /\ began' # began => began' = AllOf("new")]_vars

(* Every command ends, with a daemon that serves or with an error.          *)
CommandsEnd == pc \notin {"idle", "ok", "error"} ~> pc \in {"ok", "error"}
=============================================================================
