------------------------------- MODULE Probe --------------------------------
(***************************************************************************)
(* The throwaway Xrays of the daemon (daemon/src/system.rs): run_proxy_ping *)
(* measures a location for a client, run_validation_egress_probe tries the *)
(* one a connect asks for. Both find free loopback ports, write them into  *)
(* a configuration, let them go and start an Xray that has to win them     *)
(* again; both wait until the ports answer and then ask the internet       *)
(* through them. Other probes and other programs take ports meanwhile.     *)
(*                                                                         *)
(* A path is the port it is asked through. The answer of its web request   *)
(* is the one who gave it: whoever listened on the port.                   *)
(***************************************************************************)
EXTENDS Naturals, FiniteSets

CONSTANTS
  Pings,        \* calls of run_proxy_ping
  Preflights,   \* calls of run_validation_egress_probe
  Ports,        \* loopback ports the kernel gives out
  Nobody,
  Stranger,     \* a program that is not the daemon's
  Starts,       \* starts of an Xray before each probe gives up, 4 in the code
  Rounds,       \* PROBE_ATTEMPTS
  MaxPaths,     \* bound: paths of a location
  Permits       \* pings a client has under way at one time, 4 in the code

Probes == Pings \cup Preflights

ASSUME ProbeAssumption ==
  /\ Pings \cap Preflights = {}
  /\ Nobody \notin Probes /\ Stranger \notin Probes /\ Nobody # Stranger
  /\ Starts \in [Probes -> Nat] /\ Rounds \in Nat \ {0}
  /\ "open" \notin Probes \cup {Stranger} /\ "failed" \notin Probes \cup {Stranger}

VARIABLES
  step,     \* how far each probe is
  paths,    \* how many ports it needs
  resolver, \* its profile has a resolver to ask
  tries,    \* starts it has used up
  ports,    \* the ports of the present start
  file,     \* its configuration is on disk
  child,    \* its Xray
  round,    \* of its requests
  http,     \* the web request of each path: open, failed, or who answered it
  dns,      \* the resolver request of each path
  result,
  holder,   \* who listens on each port
  robbed    \* history: a port of the present start was taken by another

vars == <<step, paths, resolver, tries, ports, file, child, round, http, dns,
          result, holder, robbed>>

Steps == {"idle", "start", "reserved", "released", "waiting", "asking", "done"}

Running == {"starting", "listening"}

Open == [q \in Ports |-> "open"]

Init ==
  /\ step = [p \in Probes |-> "idle"] /\ paths = [p \in Probes |-> 0]
  /\ resolver = [p \in Probes |-> FALSE] /\ tries = [p \in Probes |-> 0]
  /\ ports = [p \in Probes |-> {}] /\ file = [p \in Probes |-> FALSE]
  /\ child = [p \in Probes |-> "none"] /\ round = [p \in Probes |-> 0]
  /\ http = [p \in Probes |-> Open] /\ dns = [p \in Probes |-> Open]
  /\ result = [p \in Probes |-> "none"]
  /\ holder = [q \in Ports |-> Nobody] /\ robbed = {}

(***************************************************************************)
(* Ports. A port that is taken from a start under way is remembered.       *)
(***************************************************************************)
Exposed(p) == step[p] \in {"released", "waiting", "asking"}

Robs(taken, by) == {p \in Probes \ {by} : Exposed(p) /\ ports[p] \cap taken # {}}

Freed(p) == [q \in Ports |-> IF holder[q] = p THEN Nobody ELSE holder[q]]

(***************************************************************************)
(* The ends of a start and of a probe                                      *)
(***************************************************************************)

(* What both leave of a start: Xray is killed and waited for, and a ping    *)
(* removes its file; the file of a preflight belongs to the connect.        *)
Stop(p) ==
  /\ child' = [child EXCEPT ![p] = "none"] /\ holder' = Freed(p)
  /\ file' = [file EXCEPT ![p] = p \in Preflights]
  /\ ports' = [ports EXCEPT ![p] = {}]
  /\ round' = [round EXCEPT ![p] = 0]
  /\ http' = [http EXCEPT ![p] = Open] /\ dns' = [dns EXCEPT ![p] = Open]
  /\ robbed' = robbed \ {p}

(* The start came to nothing.                                               *)
Abandon(p) ==
  /\ Stop(p)
  /\ step' = [step EXCEPT ![p] = "start"]
  /\ tries' = [tries EXCEPT ![p] = @ + 1]
  /\ UNCHANGED <<paths, resolver, result>>

Return(p, verdict) ==
  /\ step' = [step EXCEPT ![p] = "done"]
  /\ result' = [result EXCEPT ![p] = verdict]
  /\ paths' = [paths EXCEPT ![p] = 0] /\ resolver' = [resolver EXCEPT ![p] = FALSE]
  /\ tries' = [tries EXCEPT ![p] = 0]

(* The probe has its answer.                                                *)
Finish(p, verdict) == Stop(p) /\ Return(p, verdict)

(***************************************************************************)
(* A start                                                                 *)
(***************************************************************************)

(* The client's sweep has a permit for it; a document that the daemon does  *)
(* not accept ends here.                                                    *)
Ask(p, n, withDns) ==
  /\ step[p] = "idle"
  /\ p \in Pings =>
       Cardinality({r \in Pings : step[r] \notin {"idle", "done"}}) < Permits
  /\ \/ /\ step' = [step EXCEPT ![p] = "start"]
        /\ paths' = [paths EXCEPT ![p] = n]
        /\ resolver' = [resolver EXCEPT ![p] = withDns /\ p \in Pings]
        /\ UNCHANGED <<tries, result>>
     \/ Return(p, "failed")
  /\ UNCHANGED <<ports, file, child, round, http, dns, holder, robbed>>

(* Mutated: the ports of the client's template are good enough.             *)
Reserve_Template(p) ==
  /\ step[p] = "start" /\ tries[p] < Starts[p]
  /\ \E S \in SUBSET Ports :
       /\ Cardinality(S) = paths[p]
       /\ ports' = [ports EXCEPT ![p] = S]
  /\ file' = [file EXCEPT ![p] = TRUE]
  /\ step' = [step EXCEPT ![p] = "reserved"]
  /\ UNCHANGED <<paths, resolver, tries, child, round, http, dns, result, holder, robbed>>

(* Ports are bound to reserve them, the template is rewritten and checked   *)
(* again, and the file is written; a preflight also has Xray test it.       *)
Reserve(p) ==
  /\ step[p] = "start" /\ tries[p] < Starts[p]
  /\ \E S \in SUBSET {q \in Ports : holder[q] = Nobody} :
       /\ Cardinality(S) = paths[p]
       /\ ports' = [ports EXCEPT ![p] = S]
       /\ holder' = [q \in Ports |-> IF q \in S THEN p ELSE holder[q]]
       /\ robbed' = robbed \cup Robs(S, p)
  /\ file' = [file EXCEPT ![p] = TRUE]
  /\ step' = [step EXCEPT ![p] = "reserved"]
  /\ UNCHANGED <<paths, resolver, tries, child, round, http, dns, result>>

(* An error on the way is the probe's answer. A file that could not be      *)
(* written whole is not there; one that Xray's test refused is.             *)
CannotReserve(p) ==
  /\ step[p] = "start" /\ tries[p] < Starts[p]
  /\ \E written \in {file[p], p \in Preflights} : file' = [file EXCEPT ![p] = written]
  /\ Return(p, "failed")
  /\ UNCHANGED <<ports, child, round, http, dns, holder, robbed>>

(* drop(reservations): Xray cannot inherit them.                            *)
Release(p) ==
  /\ step[p] = "reserved"
  /\ holder' = Freed(p) /\ step' = [step EXCEPT ![p] = "released"]
  /\ UNCHANGED <<paths, resolver, tries, ports, file, child, round, http, dns, result, robbed>>

Spawn(p) ==
  /\ step[p] = "released"
  /\ step' = [step EXCEPT ![p] = "waiting"]
  /\ child' = [child EXCEPT ![p] = "starting"]
  /\ UNCHANGED <<paths, resolver, tries, ports, file, round, http, dns, result, holder, robbed>>

(* Mutated: the file of a start that never ran is forgotten.                *)
SpawnFails_KeepsFile(p) ==
  /\ step[p] = "released"
  /\ step' = [step EXCEPT ![p] = "start"]
  /\ tries' = [tries EXCEPT ![p] = @ + 1]
  /\ ports' = [ports EXCEPT ![p] = {}]
  /\ UNCHANGED <<paths, resolver, file, child, round, http, dns, result, holder, robbed>>

(* A ping tries again, a preflight is over.                                 *)
SpawnFails(p) ==
  /\ step[p] = "released"
  /\ IF p \in Pings THEN Abandon(p) ELSE Finish(p, "failed")

(* The start loop has run out.                                              *)
GiveUp(p) ==
  /\ step[p] = "start" /\ tries[p] = Starts[p]
  /\ Return(p, "failed")
  /\ UNCHANGED <<ports, file, child, round, http, dns, holder, robbed>>

(***************************************************************************)
(* Xray and the other programs of the host                                 *)
(***************************************************************************)

(* Xray opens its listeners one by one, and exits when one is taken.        *)
Listen(p, q) ==
  /\ child[p] = "starting" /\ q \in ports[p] /\ holder[q] # p
  /\ IF holder[q] = Nobody
     THEN /\ holder' = [holder EXCEPT ![q] = p]
          /\ child' = [child EXCEPT ![p] =
               IF \A r \in ports[p] \ {q} : holder[r] = p THEN "listening" ELSE @]
          /\ robbed' = robbed \cup Robs({q}, p)
     ELSE holder' = Freed(p) /\ child' = [child EXCEPT ![p] = "exited"] /\ UNCHANGED robbed
  /\ UNCHANGED <<step, paths, resolver, tries, ports, file, round, http, dns, result>>

XrayExits(p) ==
  /\ child[p] \in Running
  /\ child' = [child EXCEPT ![p] = "exited"] /\ holder' = Freed(p)
  /\ UNCHANGED <<step, paths, resolver, tries, ports, file, round, http, dns, result, robbed>>

StrangerTakes(q) ==
  /\ holder[q] = Nobody
  /\ holder' = [holder EXCEPT ![q] = Stranger]
  /\ robbed' = robbed \cup Robs({q}, Stranger)
  /\ UNCHANGED <<step, paths, resolver, tries, ports, file, child, round, http, dns, result>>

StrangerLeaves(q) ==
  /\ holder[q] = Stranger
  /\ holder' = [holder EXCEPT ![q] = Nobody]
  /\ UNCHANGED <<step, paths, resolver, tries, ports, file, child, round, http, dns, result, robbed>>

(***************************************************************************)
(* Readiness and the requests                                              *)
(***************************************************************************)

(* The child has not been seen to exit, and every port takes a connection:  *)
(* whoever listens there.                                                   *)
Ready(p) ==
  /\ step[p] = "waiting" /\ child[p] \in Running
  /\ \A q \in ports[p] : holder[q] # Nobody
  /\ step' = [step EXCEPT ![p] = "asking"]
  /\ round' = [round EXCEPT ![p] = 1]
  /\ UNCHANGED <<paths, resolver, tries, ports, file, child, http, dns, result, holder, robbed>>

(* Mutated: the wait for the listeners has no timeout.                      *)
NotReady_ExitOnly(p) ==
  /\ step[p] = "waiting" /\ child[p] = "exited"
  /\ Abandon(p)

(* The child exited or the time is up; the time of a preflight runs on      *)
(* while it asks.                                                           *)
NotReady(p) ==
  /\ step[p] = "waiting" \/ (step[p] = "asking" /\ p \in Preflights)
  /\ Abandon(p)

(* Mutated: every round asks the resolver.                                  *)
Strict_Always(p) == resolver[p]

(* The first round asks the profile's resolver over the same path, the      *)
(* second one does not; a preflight never does.                             *)
Strict(p) == resolver[p] /\ round[p] = 1

PathWorks(p, q) ==
  http[p][q] \notin {"open", "failed"} /\ (Strict(p) => dns[p][q] = "ok")

PathFails(p, q) ==
  http[p][q] = "failed" \/ (Strict(p) /\ dns[p][q] = "failed")

(* The web request of a path: answered through whatever serves its port, or *)
(* refused, wrong or too late. The legs of a path that failed are dropped.  *)
HttpAnswer(p, q) ==
  /\ step[p] = "asking" /\ q \in ports[p] /\ http[p][q] = "open" /\ ~PathFails(p, q)
  /\ \E answer \in {"failed"} \cup
                   {r \in Probes \cup {Stranger} :
                      holder[q] = r /\ (r \in Probes => child[r] \in Running)} :
       http' = [http EXCEPT ![p][q] = answer]
  /\ UNCHANGED <<step, paths, resolver, tries, ports, file, child, round, dns, result, holder, robbed>>

DnsAnswer(p, q) ==
  /\ step[p] = "asking" /\ q \in ports[p] /\ Strict(p)
  /\ dns[p][q] = "open" /\ ~PathFails(p, q)
  /\ \E answer \in {"ok", "failed"} : dns' = [dns EXCEPT ![p][q] = answer]
  /\ UNCHANGED <<step, paths, resolver, tries, ports, file, child, round, http, result, holder, robbed>>

(* first_success_with_reason: the first path that works is the answer.      *)
Answered(p) ==
  /\ step[p] = "asking" /\ p \in Pings
  /\ \E q \in ports[p] : PathWorks(p, q)
  /\ Finish(p, "rtt")

(* No path works: another round, or the location is dead.                   *)
RoundFails(p) ==
  /\ step[p] = "asking" /\ p \in Pings
  /\ \A q \in ports[p] : PathFails(p, q)
  /\ \/ round[p] = Rounds /\ Finish(p, "dead")
     \/ /\ round[p] < Rounds
        /\ round' = [round EXCEPT ![p] = @ + 1]
        /\ http' = [http EXCEPT ![p] = Open] /\ dns' = [dns EXCEPT ![p] = Open]
        /\ UNCHANGED <<step, paths, resolver, tries, ports, file, child, result, holder, robbed>>

(* A preflight waits for all of its paths, and needs all of them.           *)
Verified(p) ==
  /\ step[p] = "asking" /\ p \in Preflights
  /\ \A q \in ports[p] : http[p][q] # "open"
  /\ IF \A q \in ports[p] : PathWorks(p, q) THEN Finish(p, "rtt") ELSE Abandon(p)

(***************************************************************************)
(* Specification                                                           *)
(***************************************************************************)
Daemon(p) ==
  \/ Reserve(p) \/ CannotReserve(p) \/ Release(p) \/ Spawn(p) \/ SpawnFails(p)
  \/ GiveUp(p) \/ Ready(p) \/ NotReady(p) \/ Answered(p) \/ RoundFails(p) \/ Verified(p)
  \/ \E q \in Ports : HttpAnswer(p, q) \/ DnsAnswer(p, q)

Next ==
  \/ \E p \in Probes, n \in 1..MaxPaths, withDns \in BOOLEAN : Ask(p, n, withDns)
  \/ \E p \in Probes : Daemon(p) \/ XrayExits(p) \/ \E q \in Ports : Listen(p, q)
  \/ \E q \in Ports : StrangerTakes(q) \/ StrangerLeaves(q)

Spec == Init /\ [][Next]_vars

(* The daemon's task goes on: every wait of it has a timeout.               *)
FairSpec == Spec /\ \A p \in Probes : WF_vars(Daemon(p))

(***************************************************************************)
(* Properties                                                              *)
(***************************************************************************)

(* A ping that has ended, however it ended, has left no Xray, no listener   *)
(* and no configuration behind (system.rs:432-440, 480-486, 537-540).       *)
NothingLeft ==
  \A p \in Pings : step[p] = "done" =>
    child[p] = "none" /\ ~file[p] /\ \A q \in Ports : holder[q] # p

(* The figure of a ping, and the verdict of a preflight, were measured      *)
(* through the probe's own Xray and never through that of another location, *)
(* unless another program or probe took one of its ports after the probe    *)
(* had let them go for its Xray (system.rs:417-419).                        *)
OwnAnswer ==
  [][\A p \in Probes :
       result'[p] = "rtt" /\ result[p] # "rtt" /\ p \notin robbed =>
         \A q \in ports[p] : http[p][q] \in {"open", "failed", p}]_vars

(* A location is called dead only when, in a last round that does not need  *)
(* the profile's resolver, the web request of every path has failed         *)
(* (system.rs:488-532).                                                     *)
DeadMeansDead ==
  [][\A p \in Probes :
       result'[p] = "dead" /\ result[p] # "dead" =>
         round[p] = Rounds /\ \A q \in ports[p] : http[p][q] = "failed"]_vars

(* Every probe that was accepted returns in the end, whatever its Xrays,    *)
(* its paths and the other programs do: the loops of system.rs:393-541 and  *)
(* 703-800 are bounded and each wait in them has a timeout.                 *)
ProbesEnd == \A p \in Probes : []<>(step[p] \in {"idle", "done"})
=============================================================================
