-------------------------------- MODULE Split --------------------------------
(***************************************************************************)
(* The per-application split (daemon/src/split): which of the user's       *)
(* processes are in the bypass cgroup, and so go past the tunnel.          *)
(*                                                                         *)
(* Three parties move processes: the permission watcher when a listed      *)
(* program is executed, the reconciler thread on its pass over /proc, and  *)
(* the manager's own pass when a plan is applied or updated. Processes     *)
(* start, fork and exit beside them; a child is born into its parent's     *)
(* cgroup. An application in ById is one whose processes can be told only  *)
(* by the scope they were started in, which a move takes from them.        *)
(***************************************************************************)
EXTENDS Naturals, FiniteSets, Relation

CONSTANTS
  Procs,        \* process slots
  NoProc,       \* no parent that can be told
  Apps,         \* applications, each a rule that names it
  ById,         \* the rules that are sandbox application ids
  Off,          \* no watcher, no thread
  MaxOwned      \* MAX_OWNED_PIDS

ASSUME SplitAssumption ==
  /\ ById \subseteq Apps /\ Off \notin Apps /\ NoProc \notin Procs
  /\ MaxOwned \in Nat

VARIABLES
  alive, app, parent,     \* the user's processes
  scope,                  \* the sandbox scope each was started in, if any
  where,                  \* the cgroup each is in
  via,                    \* history: the application whose rule brought it in
  live,                   \* the split is Active (and its BPF mark attached)
  selectors, watch, thread, owned,   \* SystemSplitBackend
  pc, plan

procVars == <<alive, app, parent>>
placeVars == <<scope, where, via, owned>>
vars == <<alive, app, parent, scope, where, via, live, selectors, watch, thread,
          owned, pc, plan>>

Plans == SUBSET Apps \ {{}}

Init ==
  /\ alive = {} /\ app \in [Procs -> Apps]
  /\ parent = [p \in Procs |-> NoProc]
  /\ where = [p \in Procs |-> "session"]
  /\ scope = [p \in Procs |-> Off]
  /\ via = [p \in Procs |-> Off] /\ owned = [p \in Procs |-> Off]
  /\ live = FALSE /\ selectors = {} /\ watch = Off /\ thread = Off
  /\ pc = "idle" /\ plan = {}

(***************************************************************************)
(* Processes                                                               *)
(***************************************************************************)

(* AppSelector.matches by program name; an application id matches no name. *)
Named(a, sel) == a \in sel \ ById

(* The exec of a listed program, or by a listed one, moves it first: the   *)
(* watcher answers only after the move.                                    *)
Watched(p, q) ==
  /\ watch # Off
  /\ Named(app[p], watch) \/ (q # NoProc /\ Named(app[q], watch))

(* A sandboxed application is started in a scope of its own.               *)
OwnScope(p, q) == app[p] \in ById /\ (q = NoProc \/ app[q] # app[p])

Placed(p, cgroup, sandbox, by) ==
  /\ where' = [where EXCEPT ![p] = cgroup]
  /\ scope' = [scope EXCEPT ![p] = sandbox]
  /\ via' = [via EXCEPT ![p] = by]

Launch(p, q) ==
  /\ p \notin alive /\ q \in alive \cup {NoProc}
  /\ alive' = alive \cup {p}
  /\ parent' = [parent EXCEPT ![p] = q]
  /\ CASE OwnScope(p, q) -> Placed(p, "session", app[p], Off)
       [] ~OwnScope(p, q) /\ Watched(p, q) ->
            Placed(p, "bypass", Off, IF Named(app[p], watch) THEN app[p] ELSE app[q])
       [] ~OwnScope(p, q) /\ ~Watched(p, q) /\ q = NoProc ->
            Placed(p, "session", Off, Off)
       [] OTHER -> Placed(p, where[q], scope[q], via[q])
  /\ UNCHANGED <<app, live, selectors, watch, thread, owned, pc, plan>>

(* The children of a process that exits are given to init.                 *)
Exit(p) ==
  /\ p \in alive
  /\ alive' = alive \ {p}
  /\ parent' = [c \in Procs |-> IF parent[c] = p \/ c = p THEN NoProc
                                ELSE parent[c]]
  /\ where' = [where EXCEPT ![p] = "session"]
  /\ scope' = [scope EXCEPT ![p] = Off] /\ via' = [via EXCEPT ![p] = Off]
  /\ UNCHANGED <<app, live, selectors, watch, thread, owned, pc, plan>>

(***************************************************************************)
(* reconcile_with: one pass over /proc against the rules `sel`             *)
(***************************************************************************)

(* The rules a process answers to: the name of its program, or the sandbox *)
(* scope that only a process nobody has moved still carries.               *)
Rules(p, sel) ==
  {a \in sel : (a = app[p] /\ a \notin ById) \/ a = scope[p]}

Rule(p, sel) == CHOOSE a \in Rules(p, sel) : TRUE

(* Mutated: a process an earlier plan handed back is passed over.           *)
Candidates_OnlyFresh(sel) ==
  {p \in alive : where[p] = "session" /\ Rules(p, sel) # {}}

Candidates(sel) ==
  {p \in alive : where[p] # "bypass" /\ Rules(p, sel) # {}}

Held(own) == {p \in Procs : own[p] # Off}

(* `new` are recorded under the rules they answer to, as far as the table   *)
(* has room.                                                                *)
Record(own, new, sel) ==
  LET room == MaxOwned - Cardinality(Held(own))
  IN { [p \in Procs |-> IF p \in kept THEN Rule(p, sel) ELSE own[p]] :
         kept \in {k \in SUBSET new :
                     \/ k = new /\ Cardinality(k) <= room
                     \/ Cardinality(k) = room} }

(* Members join by losing their scope.                                      *)
MoveIn(moved, sel) ==
  /\ scope' = [p \in Procs |-> IF p \in moved THEN Off ELSE scope[p]]
  /\ where' = [p \in Procs |-> IF p \in moved THEN "bypass" ELSE where[p]]
  /\ via' = [p \in Procs |-> IF p \in moved THEN Rule(p, sel) ELSE via[p]]
  /\ owned' \in Record(owned, moved, sel)

(* subtree: a process and everything below it.                             *)
Descendants(root) ==
  LET up == TransitiveClosure(
              [pq \in Procs \X Procs |-> parent[pq[1]] = pq[2]], Procs)
  IN {p \in alive : up[p, root]}

Below(root) == {root} \cup Descendants(root)

(* A pass the disappearance of a process cuts short: some were moved, and  *)
(* nothing else was done.                                                  *)
CutShort(sel) ==
  \E moved \in SUBSET Candidates(sel) :
    moved # Candidates(sel) /\ MoveIn(moved, sel)

(* A pass that runs to its end: listed processes in, what the watcher moved *)
(* attributed by name, what a dropped rule moved taken back with its        *)
(* descendants.                                                             *)
FullPass(sel) ==
  LET new      == Candidates(sel)
      members  == {p \in alive : p \in new \/ where[p] = "bypass"}
      kept(o)  == [p \in Procs |-> IF p \in members THEN o[p] ELSE Off]
      named(o) == {p \in members : o[p] = Off /\ Named(app[p], sel)}
  IN \E o1 \in Record(owned, new, sel) :
     \E o2 \in Record(kept(o1), named(kept(o1)), sel) :
       LET out == UNION {Below(p) : p \in {q \in Held(o2) : o2[q] \notin sel}}
       IN /\ scope' = [p \in Procs |-> IF p \in new THEN Off ELSE scope[p]]
          /\ where' = [p \in Procs |-> CASE p \in out \cap members -> "tunneled"
                                         [] p \in new \ out -> "bypass"
                                         [] OTHER -> where[p]]
          /\ owned' = [p \in Procs |-> IF p \in out THEN Off ELSE o2[p]]
          /\ via' = [p \in Procs |-> CASE p \in out \cap members -> Off
                                       [] p \in new \ out -> Rule(p, sel)
                                       [] OTHER -> via[p]]

Reconcile ==
  /\ thread # Off
  /\ FullPass(thread) \/ CutShort(thread)
  /\ UNCHANGED <<procVars, live, selectors, watch, thread, pc, plan>>

(***************************************************************************)
(* SplitManager.apply, with a fresh backend: no record of earlier moves,   *)
(* and a cgroup directory that may still have members.                     *)
(***************************************************************************)
(* The watcher is armed or refused.                                        *)
Apply(list) ==
  /\ pc = "idle" /\ ~live
  /\ \/ /\ selectors' = list /\ watch' = list /\ pc' = "apply"
     \/ UNCHANGED <<selectors, watch, pc>>
  /\ owned' = [p \in Procs |-> Off] /\ plan' = list
  /\ UNCHANGED <<procVars, scope, where, via, live, thread>>

ReconcileExisting ==
  /\ pc = "apply" /\ pc' = "idle"
  /\ \/ /\ FullPass(selectors)
        /\ thread' = selectors /\ live' = TRUE /\ UNCHANGED <<selectors, watch>>
     \/ /\ CutShort(selectors)
        /\ watch' = Off /\ selectors' = {} /\ UNCHANGED <<thread, live>>
  /\ UNCHANGED <<procVars, plan>>

(* stop_reconciler: the thread asleep when told to stop makes one pass more. *)
StopThread ==
  /\ \/ thread # Off /\ (FullPass(thread) \/ CutShort(thread))
     \/ thread = Off /\ UNCHANGED placeVars
  /\ thread' = Off

(* The record goes with the backend; the cgroup keeps its members.           *)
Rollback ==
  /\ pc = "idle" /\ live
  /\ StopThread
  /\ watch' = Off /\ selectors' = {} /\ live' = FALSE
  /\ UNCHANGED <<procVars, pc, plan>>

(***************************************************************************)
(* update_plan on a live split                                             *)
(***************************************************************************)
UpdatePlan(list) ==
  /\ pc = "idle" /\ live
  /\ plan' = list /\ pc' = "stop"
  /\ UNCHANGED <<procVars, placeVars, live, selectors, watch, thread>>

StopReconciler ==
  /\ pc = "stop" /\ pc' = "drop"
  /\ StopThread
  /\ UNCHANGED <<procVars, live, selectors, watch, plan>>

(* Mutated: the old watcher lives until the new one replaces it.             *)
DropWatcher_Later ==
  /\ pc = "drop" /\ pc' = "arm"
  /\ selectors' = plan
  /\ UNCHANGED <<procVars, placeVars, live, watch, thread, plan>>

DropWatcher ==
  /\ pc = "drop" /\ pc' = "arm"
  /\ watch' = Off /\ selectors' = plan
  /\ UNCHANGED <<procVars, placeVars, live, thread, plan>>

ArmWatcher ==
  /\ pc = "arm"
  /\ \/ watch' = selectors /\ pc' = "pass"
     \/ pc' = "idle" /\ UNCHANGED watch
  /\ UNCHANGED <<procVars, placeVars, live, selectors, thread, plan>>

(* Mutated: the thread is started although the pass has failed.              *)
UpdatePass_Lenient ==
  /\ pc = "pass" /\ pc' = "idle"
  /\ FullPass(selectors) \/ CutShort(selectors)
  /\ thread' = selectors
  /\ UNCHANGED <<procVars, live, selectors, watch, plan>>

UpdatePass ==
  /\ pc = "pass" /\ pc' = "idle"
  /\ \/ FullPass(selectors) /\ thread' = selectors
     \/ CutShort(selectors) /\ UNCHANGED thread
  /\ UNCHANGED <<procVars, live, selectors, watch, plan>>

Update == StopReconciler \/ DropWatcher \/ ArmWatcher \/ UpdatePass

Next ==
  \/ \E p \in Procs : Exit(p)
  \/ \E p \in Procs, q \in Procs \cup {NoProc} : Launch(p, q)
  \/ \E list \in Plans : Apply(list) \/ UpdatePlan(list)
  \/ ReconcileExisting \/ Reconcile \/ Rollback \/ Update

Spec == Init /\ [][Next]_vars

(* The reconciler wakes every second, and not every pass of it is cut short; *)
(* an operation that has begun goes on.                                     *)
FairSpec == Spec /\ WF_vars(Reconcile /\ FullPass(thread))
                 /\ WF_vars(Update \/ ReconcileExisting)

(***************************************************************************)
(* Properties                                                              *)
(***************************************************************************)

(* From the moment an update has dropped the old watcher, no process is     *)
(* brought in by a rule the new plan does not have (split/system.rs:        *)
(* 344-346: "stops the old rules from being applied a moment later").       *)
OldRulesAreDead ==
  [][\A p \in Procs :
       pc \in {"arm", "pass"} /\ where[p] # "bypass" /\ where'[p] = "bypass"
         => \/ via'[p] \in plan
            \/ p \notin alive /\ parent'[p] # NoProc
                 /\ where[parent'[p]] = "bypass"]_vars

(* A running process of an application listed by program name does go past  *)
(* the tunnel sooner or later, however it was started and wherever an       *)
(* earlier plan had put it (split/system.rs:54-60).                         *)
ListedBypasses ==
  \A p \in Procs :
    live /\ thread # Off /\ p \in alive /\ Named(app[p], selectors)
      ~> where[p] = "bypass" \/ p \notin alive \/ thread = Off
           \/ ~Named(app[p], selectors)

(* Once a plan is in force, no process is on record under a rule that the   *)
(* plan does not have: whoever was recorded under a dropped rule has been   *)
(* handed back, and a pass that was cut short on the way leaves no thread   *)
(* behind (split/system.rs:193-233, 341-364).                               *)
RecordedLeave ==
  live /\ pc = "idle" /\ thread # Off => \A p \in Held(owned) : owned[p] \in selectors

=============================================================================
