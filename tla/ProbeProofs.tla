---------------------------- MODULE ProbeProofs -----------------------------
(***************************************************************************)
(* What holds of the daemon's throwaway Xrays for any number of probes,    *)
(* ports, starts and rounds: a ping leaves nothing behind, an answer is    *)
(* the probe's own unless a port was taken from it, and a location is      *)
(* called dead only by its web requests.                                   *)
(***************************************************************************)
EXTENDS Probe, TLAPS

USE DEF Probes

Results == {"none", "failed", "rtt", "dead"}

(* The variables the argument is about are functions of the probes and the  *)
(* ports.                                                                   *)
ProbeTypes ==
  /\ step \in [Probes -> Steps]
  /\ ports \in [Probes -> SUBSET Ports]
  /\ file \in [Probes -> BOOLEAN]
  /\ child \in [Probes -> {"none", "starting", "listening", "exited"}]
  /\ http \in [Probes -> [Ports -> Probes \cup {"open", "failed", Stranger}]]
  /\ holder \in [Ports -> Probes \cup {Nobody, Stranger}]
  /\ robbed \in SUBSET Probes

(* One probe: it listens only on ports of its present start, and only while *)
(* it reserves them or its Xray runs; it has all of them from the           *)
(* reservation to the release; and afterwards nobody else listens on one,   *)
(* or has answered through one, without the probe counting as robbed.       *)
Sound(p) ==
  /\ p \in Pings /\ step[p] \in {"idle", "start", "done"} => ~file[p]
  /\ child[p] # "none" => step[p] \in {"waiting", "asking"}
  /\ \A q \in Ports : holder[q] = p =>
       q \in ports[p] /\ (step[p] = "reserved" \/ child[p] \in Running)
  /\ step[p] = "reserved" => \A q \in ports[p] : holder[q] = p
  /\ Exposed(p) /\ p \notin robbed =>
       \A q \in ports[p] : holder[q] \in {Nobody, p}
  /\ step[p] # "asking" => http[p] = Open
  /\ p \notin robbed =>
       \A q \in ports[p] : http[p][q] \in {"open", "failed", p}

ProbeInv == ProbeTypes /\ \A p \in Probes : Sound(p)

(* The end of a start, which five actions share, keeps every probe sound.   *)
LEMMA StopInv ==
  ASSUME NEW p \in Probes, NEW s \in {"start", "done"}, ProbeInv, Stop(p),
         step' = [step EXCEPT ![p] = s]
  PROVE  ProbeInv'
<1> USE ProbeAssumption DEF ProbeInv, ProbeTypes
<1>1. ProbeTypes'
  BY DEF Stop, Freed, Open, Steps
<1>2. ASSUME NEW r \in Probes PROVE Sound(r)'
  <2>1. \A q \in Ports : holder'[q] = IF holder[q] = p THEN Nobody ELSE holder[q]
    BY DEF Stop, Freed
  <2>2. CASE r = p
    <3>1. /\ step'[p] = s /\ child'[p] = "none" /\ ports'[p] = {}
          /\ http'[p] = Open
      BY DEF Stop
    <3>2. p \in Pings => ~file'[p]
      BY DEF Stop
    <3>3. http'[p] \in [Ports -> {"open"}]
      BY <3>1 DEF Open
    <3>4. \A q \in Ports : holder'[q] # p
      BY <2>1
    <3> QED BY <2>2, <3>1, <3>2, <3>3, <3>4 DEF Sound, Exposed, Open
  <2>3. CASE r # p
    <3>1. /\ step'[r] = step[r] /\ child'[r] = child[r] /\ ports'[r] = ports[r]
          /\ http'[r] = http[r] /\ file'[r] = file[r]
          /\ r \in robbed' <=> r \in robbed
      BY <2>3 DEF Stop
    <3> QED BY <2>1, <2>3, <3>1 DEF Sound, Exposed
  <2> QED BY <2>2, <2>3
<1> QED BY <1>1, <1>2

(* Steps that leave the ports, the listeners and the answers alone.         *)
LEMMA QuietInv ==
  ASSUME NEW p \in Probes, ProbeInv,
         UNCHANGED <<ports, child, http, holder, robbed>>,
         \/ /\ step[p] \in {"idle", "start"}
            /\ \E s \in {"start", "done"} : step' = [step EXCEPT ![p] = s]
            /\ \E written \in BOOLEAN :
                 /\ file' = [file EXCEPT ![p] = written]
                 /\ written => file[p] \/ p \in Preflights
         \/ /\ step[p] = "waiting" /\ step' = [step EXCEPT ![p] = "asking"]
            /\ UNCHANGED file
  PROVE  ProbeInv'
<1> USE ProbeAssumption DEF ProbeInv, ProbeTypes, Steps
<1>1. ProbeTypes'
  <2>1. file' \in [Probes -> BOOLEAN]
    OBVIOUS
  <2>2. step' \in [Probes -> Steps]
    OBVIOUS
  <2> QED BY <2>1, <2>2
<1>2. ASSUME NEW r \in Probes PROVE Sound(r)'
  <2>1. CASE r = p
    BY <2>1 DEF Sound, Exposed
  <2>2. CASE r # p
    BY <2>2 DEF Sound, Exposed
  <2> QED BY <2>1, <2>2
<1> QED BY <1>1, <1>2

(* A start reserves free ports; whoever was about to have one is robbed.    *)
LEMMA ReserveInv ==
  ASSUME NEW p \in Probes, ProbeInv, Reserve(p)
  PROVE  ProbeInv'
<1> USE ProbeAssumption DEF ProbeInv, ProbeTypes, Steps
<1>0. PICK S \in SUBSET {q \in Ports : holder[q] = Nobody} :
        /\ ports' = [ports EXCEPT ![p] = S]
        /\ holder' = [q \in Ports |-> IF q \in S THEN p ELSE holder[q]]
        /\ robbed' = robbed \cup Robs(S, p)
  BY DEF Reserve
<1>00. /\ step[p] = "start" /\ step' = [step EXCEPT ![p] = "reserved"]
       /\ file' = [file EXCEPT ![p] = TRUE]
       /\ UNCHANGED <<child, http>>
  BY DEF Reserve
<1>1. ProbeTypes'
  BY <1>0, <1>00 DEF Robs
<1>2. ASSUME NEW r \in Probes PROVE Sound(r)'
  <2>1. CASE r = p
    <3>1. /\ step'[p] = "reserved" /\ ports'[p] = S /\ child'[p] = "none"
          /\ http'[p] = Open
      BY <1>0, <1>00 DEF Sound
    <3>2. \A q \in Ports : holder'[q] = p <=> q \in S
      BY <1>0, <1>00 DEF Sound, Running
    <3>3. \A q \in Ports : http'[p][q] = "open"
      BY <3>1 DEF Open
    <3> QED BY <2>1, <3>1, <3>2, <3>3 DEF Sound, Exposed
  <2>2. CASE r # p
    <3>1. /\ step'[r] = step[r] /\ child'[r] = child[r] /\ ports'[r] = ports[r]
          /\ http'[r] = http[r] /\ file'[r] = file[r]
      BY <1>0, <1>00, <2>2
    <3>2. r \notin robbed' => r \notin robbed /\ (Exposed(r) => ports[r] \cap S = {})
      BY <1>0, <2>2 DEF Robs
    <3> QED BY <1>0, <2>2, <3>1, <3>2 DEF Sound, Exposed
  <2> QED BY <2>1, <2>2
<1> QED BY <1>1, <1>2

(* The release lets exactly the probe's ports go, and it had all of them.   *)
LEMMA ReleaseInv ==
  ASSUME NEW p \in Probes, ProbeInv, Release(p)
  PROVE  ProbeInv'
<1> USE ProbeAssumption DEF ProbeInv, ProbeTypes, Steps
<1>0. \A q \in Ports : holder'[q] = IF holder[q] = p THEN Nobody ELSE holder[q]
  BY DEF Release, Freed
<1>1. ProbeTypes'
  BY DEF Release, Freed
<1>2. ASSUME NEW r \in Probes PROVE Sound(r)'
  <2>1. CASE r = p
    BY <1>0, <2>1 DEF Release, Sound, Exposed, Running
  <2>2. CASE r # p
    BY <1>0, <2>2 DEF Release, Sound, Exposed
  <2> QED BY <2>1, <2>2
<1> QED BY <1>1, <1>2

(* Starting the Xray of a probe keeps the probes' invariant.                 *)
LEMMA SpawnInv ==
  ASSUME NEW p \in Probes, ProbeInv, Spawn(p)
  PROVE  ProbeInv'
<1> USE ProbeAssumption DEF ProbeInv, ProbeTypes, Steps
<1>1. ProbeTypes'
  BY DEF Spawn
<1>2. ASSUME NEW r \in Probes PROVE Sound(r)'
  <2>1. CASE r = p
    BY <2>1 DEF Spawn, Sound, Exposed, Running
  <2>2. CASE r # p
    BY <2>2 DEF Spawn, Sound, Exposed
  <2> QED BY <2>1, <2>2
<1> QED BY <1>1, <1>2

(* An Xray that is gone listens nowhere.                                    *)
LEMMA ExitInv ==
  ASSUME NEW p \in Probes, ProbeInv, child[p] \in Running,
         child' = [child EXCEPT ![p] = "exited"], holder' = Freed(p),
         UNCHANGED <<step, ports, file, http, robbed>>
  PROVE  ProbeInv'
<1> USE ProbeAssumption DEF ProbeInv, ProbeTypes, Steps
<1>0. \A q \in Ports : holder'[q] = IF holder[q] = p THEN Nobody ELSE holder[q]
  BY DEF Freed
<1>1. ProbeTypes'
  BY DEF Freed
<1>2. ASSUME NEW r \in Probes PROVE Sound(r)'
  <2>1. CASE r = p
    BY <1>0, <2>1 DEF Sound, Exposed, Running
  <2>2. CASE r # p
    BY <1>0, <2>2 DEF Sound, Exposed
  <2> QED BY <2>1, <2>2
<1> QED BY <1>1, <1>2

(* An Xray opens a free port of its own, or exits.                          *)
LEMMA ListenInv ==
  ASSUME NEW p \in Probes, NEW q \in Ports, ProbeInv, Listen(p, q)
  PROVE  ProbeInv'
<1> USE ProbeAssumption DEF ProbeInv, ProbeTypes, Steps
<1>0. /\ child[p] = "starting" /\ q \in ports[p]
      /\ UNCHANGED <<step, ports, file, http>>
  BY DEF Listen
<1>1. CASE holder[q] = Nobody
  <2>0. /\ holder' = [holder EXCEPT ![q] = p]
        /\ robbed' = robbed \cup Robs({q}, p)
    BY <1>1 DEF Listen
  <2>1. \E c \in Running : child' = [child EXCEPT ![p] = c]
    BY <1>0, <1>1 DEF Listen, Running
  <2>2. ProbeTypes'
    BY <1>0, <2>0, <2>1 DEF Robs, Running
  <2>3. ASSUME NEW r \in Probes PROVE Sound(r)'
    <3>1. CASE r = p
      BY <1>0, <2>0, <2>1, <3>1 DEF Sound, Exposed, Running, Robs
    <3>2. CASE r # p
      <4>1. r \notin robbed' => r \notin robbed /\ (Exposed(r) => q \notin ports[r])
        BY <2>0, <3>2 DEF Robs
      <4>2. child'[r] = child[r] /\ holder'[q] = p
              /\ \A x \in Ports \ {q} : holder'[x] = holder[x]
        BY <2>0, <2>1, <3>2
      <4> QED BY <1>0, <1>1, <3>2, <4>1, <4>2 DEF Sound, Exposed
    <3> QED BY <3>1, <3>2
  <2> QED BY <2>2, <2>3
<1>2. CASE holder[q] # Nobody
  BY <1>0, <1>2, ExitInv DEF Listen, Running
<1> QED BY <1>1, <1>2

(* Another program takes a free port, and robs whoever was about to have it. *)
LEMMA StrangerInv ==
  ASSUME NEW q \in Ports, ProbeInv, StrangerTakes(q) \/ StrangerLeaves(q)
  PROVE  ProbeInv'
<1> USE ProbeAssumption DEF ProbeInv, ProbeTypes, Steps
<1>1. CASE StrangerTakes(q)
  <2>1. ProbeTypes'
    BY <1>1 DEF StrangerTakes, Robs
  <2>2. ASSUME NEW r \in Probes PROVE Sound(r)'
    <3>1. r \notin robbed' => r \notin robbed /\ (Exposed(r) => q \notin ports[r])
      BY <1>1 DEF StrangerTakes, Robs
    <3> QED BY <1>1, <3>1 DEF StrangerTakes, Sound, Exposed
  <2> QED BY <2>1, <2>2
<1>2. CASE StrangerLeaves(q)
  BY <1>2 DEF StrangerLeaves, Sound, Exposed
<1> QED BY <1>1, <1>2

(* A request is answered by whoever listens on its port, and that is the    *)
(* probe itself unless it was robbed.                                       *)
LEMMA HttpInv ==
  ASSUME NEW p \in Probes, NEW q \in Ports, ProbeInv, HttpAnswer(p, q)
  PROVE  ProbeInv'
<1> USE ProbeAssumption DEF ProbeInv, ProbeTypes, Steps
<1>0. PICK answer \in {"failed"} \cup {r \in Probes \cup {Stranger} : holder[q] = r} :
        http' = [http EXCEPT ![p][q] = answer]
  BY DEF HttpAnswer
<1>00. /\ step[p] = "asking" /\ q \in ports[p]
       /\ UNCHANGED <<step, ports, file, child, holder, robbed>>
  BY DEF HttpAnswer
<1>1. ProbeTypes'
  BY <1>0, <1>00
<1>2. p \notin robbed => answer \in {"failed", p}
  BY <1>0, <1>00 DEF Sound, Exposed
<1>3. ASSUME NEW r \in Probes PROVE Sound(r)'
  <2>1. CASE r = p
    BY <1>0, <1>00, <1>2, <2>1 DEF Sound, Exposed
  <2>2. CASE r # p
    BY <1>0, <1>00, <2>2 DEF Sound, Exposed
  <2> QED BY <2>1, <2>2
<1> QED BY <1>1, <1>3

(* Another round begins with every request open.                            *)
LEMMA RoundInv ==
  ASSUME NEW p \in Probes, ProbeInv, http' = [http EXCEPT ![p] = Open],
         UNCHANGED <<step, ports, file, child, holder, robbed>>
  PROVE  ProbeInv'
<1> USE ProbeAssumption DEF ProbeInv, ProbeTypes
<1>1. ProbeTypes'
  BY DEF Open
<1>2. ASSUME NEW r \in Probes PROVE Sound(r)'
  <2>1. CASE r = p
    <3>1. \A q \in Ports : http'[p][q] = "open"
      BY DEF Open
    <3> QED BY <2>1, <3>1 DEF Sound, Exposed
  <2>2. CASE r # p
    BY <2>2 DEF Sound, Exposed
  <2> QED BY <2>1, <2>2
<1> QED BY <1>1, <1>2

(* Every step of the daemon, of an Xray and of the host keeps all probes     *)
(* sound.                                                                    *)
LEMMA ProbeStep ==
  ASSUME ProbeInv, [Next]_vars PROVE ProbeInv'
<1>1. ASSUME NEW p \in Probes, NEW n, NEW withDns, Ask(p, n, withDns)
      PROVE  ProbeInv'
  <2>1. file' = [file EXCEPT ![p] = file[p]] /\ file[p] \in BOOLEAN
    BY <1>1 DEF Ask, ProbeInv, ProbeTypes
  <2> QED BY <1>1, <2>1, QuietInv DEF Ask, Return
<1>2. ASSUME NEW p \in Probes, Daemon(p) PROVE ProbeInv'
  <2>0. file = [file EXCEPT ![p] = file[p]] /\ file[p] \in BOOLEAN
    BY DEF ProbeInv, ProbeTypes
  <2>1. CASE Reserve(p)
    BY <2>1, ReserveInv
  <2>2. CASE CannotReserve(p)
    <3>1. PICK written \in {file[p], p \in Preflights} :
            file' = [file EXCEPT ![p] = written]
      BY <2>2 DEF CannotReserve
    <3>2. written \in BOOLEAN /\ (written => file[p] \/ p \in Preflights)
      <4>1. CASE written = file[p]
        BY <2>0, <4>1
      <4>2. CASE written = (p \in Preflights)
        <5>1. CASE p \in Preflights
          BY <4>2, <5>1
        <5>2. CASE p \notin Preflights
          <6>1. (p \in Preflights) = FALSE
            BY <5>2
          <6> QED BY <4>2, <6>1
        <5> QED BY <5>1, <5>2
      <4> QED BY <4>1, <4>2
    <3>3. step[p] = "start" /\ step' = [step EXCEPT ![p] = "done"]
            /\ UNCHANGED <<ports, child, http, holder, robbed>>
      BY <2>2 DEF CannotReserve, Return
    <3> QED BY <3>1, <3>2, <3>3, QuietInv
  <2>3. CASE Release(p)
    BY <2>3, ReleaseInv
  <2>4. CASE Spawn(p)
    BY <2>4, SpawnInv
  <2>5. CASE SpawnFails(p)
    BY <2>5, StopInv DEF SpawnFails, Abandon, Finish, Return
  <2>6. CASE GiveUp(p)
    BY <2>0, <2>6, QuietInv DEF GiveUp, Return
  <2>7. CASE Ready(p)
    BY <2>7, QuietInv DEF Ready
  <2>8. CASE NotReady(p)
    BY <2>8, StopInv DEF NotReady, Abandon
  <2>9. CASE Answered(p)
    BY <2>9, StopInv DEF Answered, Finish, Return
  <2>10. CASE RoundFails(p)
    BY <2>10, StopInv, RoundInv DEF RoundFails, Finish, Return
  <2>11. CASE Verified(p)
    BY <2>11, StopInv DEF Verified, Abandon, Finish, Return
  <2>12. ASSUME NEW q \in Ports, HttpAnswer(p, q) PROVE ProbeInv'
    BY <2>12, HttpInv
  <2>13. ASSUME NEW q \in Ports, DnsAnswer(p, q) PROVE ProbeInv'
    BY <2>13 DEF DnsAnswer, ProbeInv, ProbeTypes, Sound, Exposed
  <2> QED
    BY <1>2, <2>1, <2>2, <2>3, <2>4, <2>5, <2>6, <2>7, <2>8, <2>9, <2>10,
       <2>11, <2>12, <2>13 DEF Daemon
<1>3. ASSUME NEW p \in Probes, XrayExits(p) PROVE ProbeInv'
  BY <1>3, ExitInv DEF XrayExits
<1>4. ASSUME NEW p \in Probes, NEW q \in Ports, Listen(p, q) PROVE ProbeInv'
  BY <1>4, ListenInv
<1>5. ASSUME NEW q \in Ports, StrangerTakes(q) \/ StrangerLeaves(q)
      PROVE  ProbeInv'
  BY <1>5, StrangerInv
<1>6. CASE UNCHANGED vars
  BY <1>6 DEF vars, ProbeInv, ProbeTypes, Sound, Exposed
<1> QED BY <1>1, <1>2, <1>3, <1>4, <1>5, <1>6 DEF Next

(* Before any probe runs the invariant holds.                                *)
LEMMA InitSound == Init => ProbeInv
  BY ProbeAssumption
     DEF Init, ProbeInv, ProbeTypes, Sound, Exposed, Steps, Open

(* Whatever fails on its way, and however many probes run beside it, a ping  *)
(* that has ended has left no Xray, no listener and no configuration behind  *)
(* (system.rs:432-440, 480-486, 537-540).                                    *)
THEOREM NothingLeftCorrect == Spec => []NothingLeft
<1>1. ProbeInv => NothingLeft
  BY DEF ProbeInv, ProbeTypes, Sound, NothingLeft, Running
<1> QED BY <1>1, InitSound, ProbeStep, PTL DEF Spec

OwnAnswerStep ==
  \A p \in Probes :
    result'[p] = "rtt" /\ result[p] # "rtt" /\ p \notin robbed =>
      \A q \in ports[p] : http[p][q] \in {"open", "failed", p}

(* A figure or a verdict comes from the probe's own Xray, for any number of  *)
(* probes that race for the ports, unless one of its ports was taken between *)
(* its release and its start (system.rs:417-419).                            *)
THEOREM OwnAnswerCorrect == Spec => OwnAnswer
<1>1. ProbeInv => OwnAnswerStep
  BY DEF ProbeInv, Sound, OwnAnswerStep
<1> QED
  BY <1>1, InitSound, ProbeStep, PTL DEF Spec, OwnAnswer, OwnAnswerStep

ResultType == result \in [Probes -> Results]

DeadStep ==
  \A p \in Probes :
    result'[p] = "dead" /\ result[p] # "dead" =>
      round[p] = Rounds /\ \A q \in ports[p] : http[p][q] = "failed"

(* With more than one round a location is called dead only when the web      *)
(* request of every path failed in the last one: the profile's resolver      *)
(* alone never condemns it (system.rs:488-532).                              *)
THEOREM DeadCorrect ==
  ASSUME Rounds > 1
  PROVE  Spec => DeadMeansDead
<1>1. Init => ResultType
  BY DEF Init, ResultType, Results
<1>2. ASSUME ResultType, [Next]_vars
      PROVE  ResultType' /\ (DeadStep \/ UNCHANGED vars)
  <2> USE <1>2 DEF ResultType, Results
  <2>1. ASSUME UNCHANGED result PROVE ResultType' /\ DeadStep
    BY <2>1 DEF DeadStep
  <2>2. ASSUME NEW p \in Probes, NEW verdict \in {"failed", "rtt"}, Return(p, verdict)
        PROVE  ResultType' /\ DeadStep
    BY <2>2 DEF Return, DeadStep
  <2>3. ASSUME NEW p \in Probes, RoundFails(p), Return(p, "dead"), round[p] = Rounds
        PROVE  ResultType' /\ DeadStep
    <3>1. \A q \in ports[p] : http[p][q] = "failed"
      BY <2>3, ProbeAssumption DEF RoundFails, PathFails, Strict
    <3>2. result' = [result EXCEPT ![p] = "dead"]
      BY <2>3 DEF Return
    <3> QED BY <2>3, <3>1, <3>2 DEF DeadStep
  <2>4. ASSUME NEW p \in Probes, Daemon(p) PROVE ResultType' /\ DeadStep
    <3>1. CASE Answered(p) \/ Verified(p) \/ SpawnFails(p)
      BY <2>1, <2>2, <3>1 DEF Answered, Verified, SpawnFails, Finish, Abandon
    <3>2. CASE CannotReserve(p) \/ GiveUp(p)
      BY <2>2, <3>2 DEF CannotReserve, GiveUp
    <3>3. CASE RoundFails(p)
      BY <2>1, <2>3, <3>3 DEF RoundFails, Finish
    <3> QED
      BY <2>1, <2>4, <3>1, <3>2, <3>3
         DEF Daemon, Reserve, Release, Spawn, Ready, NotReady, Abandon,
             HttpAnswer, DnsAnswer
  <2>5. ASSUME NEW p \in Probes, NEW n, NEW withDns, Ask(p, n, withDns)
        PROVE  ResultType' /\ DeadStep
    BY <2>1, <2>2, <2>5 DEF Ask
  <2> QED
    BY <2>1, <2>4, <2>5
       DEF Next, vars, XrayExits, Listen, StrangerTakes, StrangerLeaves
<1>3. ResultType /\ [Next]_vars => ResultType' /\ [DeadStep]_vars
  BY <1>2
<1> QED
  BY <1>1, <1>3, PTL DEF Spec, DeadMeansDead, DeadStep
=============================================================================
