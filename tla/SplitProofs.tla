----------------------------- MODULE SplitProofs -----------------------------
(***************************************************************************)
(* Why no process stays on record under a rule that was dropped, and none  *)
(* is brought in by one while the plan is replaced, for any number of      *)
(* processes, applications and plans, and at any limit of the table of     *)
(* owned processes.                                                        *)
(***************************************************************************)
EXTENDS Split, TLAPS

(* Everything on record in `own` is there under a rule of `sel`.             *)
Within(own, sel) == \A p \in Procs : own[p] # Off => own[p] \in sel

(* A reconciler thread works with the rules of the plan in force, outside    *)
(* the part of an update that replaces them, and all of the record is theirs.*)
ThreadIsCurrent ==
  /\ thread # Off =>
       live /\ thread = selectors /\ pc \in {"idle", "stop"} /\ Within(owned, selectors)
  /\ pc \in {"stop", "drop", "arm", "pass"} => live

(* A process is put on record under a rule it answers to.                    *)
LEMMA RuleIsListed ==
  ASSUME NEW p, NEW sel, Rules(p, sel) # {}
  PROVE  Rule(p, sel) \in sel
  BY DEF Rule, Rules

(* What a pass records is what was recorded or one of its rules.             *)
LEMMA RecordWithin ==
  ASSUME NEW own, NEW sel, NEW new, \A p \in new : Rules(p, sel) # {},
         NEW o \in Record(own, new, sel)
  PROVE  \A p \in Procs : o[p] = own[p] \/ o[p] \in sel
<1>1. PICK kept \in SUBSET new :
        o = [p \in Procs |-> IF p \in kept THEN Rule(p, sel) ELSE own[p]]
  BY DEF Record
<1> QED BY <1>1, RuleIsListed

(* A subtree has its root.                                                   *)
LEMMA RootIsBelow ==
  ASSUME NEW p \in Procs PROVE p \in Below(p)
  BY DEF Below

(* A pass that is cut short adds to the record, under the rules it applies.  *)
LEMMA CutShortWithin ==
  ASSUME NEW sel, CutShort(sel), Within(owned, sel)
  PROVE  Within(owned', sel)
<1>1. PICK moved \in SUBSET Candidates(sel) : owned' \in Record(owned, moved, sel)
  BY DEF CutShort, MoveIn
<1>2. \A p \in moved : Rules(p, sel) # {}
  BY <1>1 DEF Candidates
<1> QED BY <1>1, <1>2, RecordWithin DEF Within

(* A pass that runs to its end leaves nothing on record under another rule,  *)
(* whatever was there before.                                                *)
LEMMA FullPassWithin ==
  ASSUME NEW sel, FullPass(sel)
  PROVE  Within(owned', sel)
<1>1. PICK o2 :
        owned' = [p \in Procs |->
          IF p \in UNION {Below(r) : r \in {q \in Held(o2) : o2[q] \notin sel}}
          THEN Off ELSE o2[p]]
  BY DEF FullPass
<1>2. ASSUME NEW p \in Procs, owned'[p] # Off PROVE owned'[p] \in sel
  <2>1. owned'[p] = o2[p] /\ p \notin UNION {Below(r) : r \in {q \in Held(o2) : o2[q] \notin sel}}
    BY <1>1, <1>2
  <2>2. p \in Held(o2)
    BY <1>2, <2>1 DEF Held
  <2> QED BY <2>1, <2>2, RootIsBelow
<1> QED BY <1>2 DEF Within

(* Every step keeps the thread at the rules it was started with.             *)
LEMMA ThreadStep ==
  ASSUME ThreadIsCurrent, [Next]_vars
  PROVE  ThreadIsCurrent'
<1> USE DEF ThreadIsCurrent
<1>1. ASSUME NEW p \in Procs, Exit(p) PROVE ThreadIsCurrent'
  BY <1>1 DEF Exit, Within
<1>2. ASSUME NEW p \in Procs, NEW q \in Procs \cup {NoProc}, Launch(p, q)
      PROVE  ThreadIsCurrent'
  BY <1>2 DEF Launch, Within
<1>3. ASSUME NEW list \in Plans, Apply(list) PROVE ThreadIsCurrent'
  BY <1>3 DEF Apply
<1>4. ASSUME NEW list \in Plans, UpdatePlan(list) PROVE ThreadIsCurrent'
  BY <1>4 DEF UpdatePlan, placeVars, Within
<1>5. CASE ReconcileExisting
  <2>1. CASE FullPass(selectors) /\ thread' = selectors /\ live' /\ UNCHANGED selectors
    BY <1>5, <2>1, FullPassWithin DEF ReconcileExisting
  <2>2. CASE UNCHANGED <<thread, live>>
    BY <1>5, <2>2 DEF ReconcileExisting
  <2> QED BY <1>5, <2>1, <2>2 DEF ReconcileExisting
<1>6. CASE Reconcile
  <2>1. Within(owned', selectors)
    BY <1>6, FullPassWithin, CutShortWithin DEF Reconcile
  <2> QED BY <1>6, <2>1 DEF Reconcile
<1>7. CASE Rollback
  BY <1>7 DEF Rollback, StopThread
<1>8. CASE Update
  <2>1. CASE StopReconciler
    BY <2>1 DEF StopReconciler, StopThread
  <2>2. CASE DropWatcher
    BY <2>2 DEF DropWatcher
  <2>3. CASE ArmWatcher
    BY <2>3 DEF ArmWatcher
  <2>4. CASE UpdatePass
    BY <2>4, FullPassWithin DEF UpdatePass
  <2> QED BY <1>8, <2>1, <2>2, <2>3, <2>4 DEF Update
<1>9. CASE UNCHANGED vars
  BY <1>9 DEF vars, Within
<1> QED BY <1>1, <1>2, <1>3, <1>4, <1>5, <1>6, <1>7, <1>8, <1>9 DEF Next

(* Once a plan is in force, everybody on record answers to a rule of it: who *)
(* was recorded under a dropped rule has been handed back, and a pass that   *)
(* was cut short on the way leaves no thread (split/system.rs:193-233,       *)
(* 341-364).                                                                 *)
THEOREM HandedBackCorrect == Spec => []RecordedLeave
<1>1. Init => ThreadIsCurrent
  BY DEF Init, ThreadIsCurrent
<1>2. ThreadIsCurrent => RecordedLeave
  BY DEF ThreadIsCurrent, RecordedLeave, Within, Held
<1> QED BY <1>1, <1>2, ThreadStep, PTL DEF Spec

(***************************************************************************)
(* Rules that were dropped bring nobody in                                 *)
(***************************************************************************)

(* Where the state has a value for every process.                           *)
Places ==
  /\ alive \subseteq Procs
  /\ where \in [Procs -> {"session", "bypass", "tunneled"}]
  /\ DOMAIN via = Procs /\ DOMAIN parent = Procs
  /\ via = [p \in Procs |-> via[p]] /\ parent = [p \in Procs |-> parent[p]]

(* Once the old watcher is dropped, the rules are those of the new plan: no  *)
(* thread has others, and a watcher that is armed again has the same.        *)
RulesAreNew ==
  /\ pc = "arm" => selectors = plan /\ watch = Off
  /\ pc = "pass" => selectors = plan /\ watch = plan

UpdateInv == Places /\ ThreadIsCurrent /\ RulesAreNew

(* Whom a pass with the rules `sel` moves into the cgroup.                   *)
MovesBy(sel) ==
  \A p \in Procs : where[p] # "bypass" /\ where'[p] = "bypass" => via'[p] \in sel

(* What a pass does to the places of the processes.                          *)
PassFields ==
  /\ where' \in [Procs -> {"session", "bypass", "tunneled"}]
  /\ DOMAIN via' = Procs /\ via' = [p \in Procs |-> via'[p]]

(* A pass that is cut short has moved only processes that a rule of `sel`    *)
(* names.                                                                    *)
LEMMA CutShortMoves ==
  ASSUME Places, NEW sel, CutShort(sel)
  PROVE  PassFields /\ MovesBy(sel)
<1>1. PICK moved \in SUBSET Candidates(sel) : MoveIn(moved, sel)
  BY DEF CutShort
<1>2. \A p \in moved : Rule(p, sel) \in sel
  BY <1>1, RuleIsListed DEF Candidates
<1>3. /\ where' = [p \in Procs |-> IF p \in moved THEN "bypass" ELSE where[p]]
      /\ via' = [p \in Procs |-> IF p \in moved THEN Rule(p, sel) ELSE via[p]]
  BY <1>1 DEF MoveIn
<1>4. PassFields
  BY <1>3 DEF PassFields, Places
<1>5. MovesBy(sel)
  BY <1>2, <1>3 DEF MovesBy
<1> QED BY <1>4, <1>5

(* So has one that runs to its end.                                          *)
LEMMA FullPassMoves ==
  ASSUME Places, NEW sel, FullPass(sel)
  PROVE  PassFields /\ MovesBy(sel)
<1> DEFINE members == {p \in alive : p \in Candidates(sel) \/ where[p] = "bypass"}
           Out(o) == UNION {Below(p) : p \in {q \in Held(o) : o[q] \notin sel}}
           Kept(o) == [p \in Procs |-> IF p \in members THEN o[p] ELSE Off]
           Unnamed(o) == {p \in members : o[p] = Off /\ Named(app[p], sel)}
           Where(out) == [p \in Procs |-> CASE p \in out \cap members -> "tunneled"
                                            [] p \in Candidates(sel) \ out -> "bypass"
                                            [] OTHER -> where[p]]
           Via(out) == [p \in Procs |-> CASE p \in out \cap members -> Off
                                          [] p \in Candidates(sel) \ out -> Rule(p, sel)
                                          [] OTHER -> via[p]]
<1>1. \E o1 \in Record(owned, Candidates(sel), sel) :
        \E o2 \in Record(Kept(o1), Unnamed(Kept(o1)), sel) :
          where' = Where(Out(o2)) /\ via' = Via(Out(o2))
  BY Zenon DEF FullPass
<1>2. PICK o2 : where' = Where(Out(o2)) /\ via' = Via(Out(o2))
  <2> HIDE DEF Where, Via, Out, members, Kept, Unnamed
  <2> QED BY <1>1
<1> HIDE DEF members, Out, Kept, Unnamed
<1>3. \A p \in Candidates(sel) : Rule(p, sel) \in sel
  BY RuleIsListed DEF Candidates
<1>4. PassFields
  BY <1>2 DEF PassFields, Places
<1>5. MovesBy(sel)
  BY <1>2, <1>3 DEF MovesBy
<1> QED BY <1>4, <1>5

(* A process that starts while the rules are replaced is brought in by a     *)
(* rule of the new plan, or born into the cgroup its parent is in.           *)
Born ==
  \A p \in Procs :
    where[p] # "bypass" /\ where'[p] = "bypass"
      => \/ watch # Off /\ via'[p] \in watch
         \/ p \notin alive /\ parent'[p] # NoProc /\ where[parent'[p]] = "bypass"

(* A launched process is placed by the watcher, by its own scope, or by its  *)
(* parent's cgroup, and nobody else moves.                                   *)
LEMMA LaunchMoves ==
  ASSUME Places, NEW p \in Procs, NEW q \in Procs \cup {NoProc}, Launch(p, q)
  PROVE  Places' /\ Born
<1>1. /\ p \notin alive /\ alive' = alive \cup {p}
      /\ parent' = [parent EXCEPT ![p] = q]
  BY DEF Launch
<1>2. \E cgroup \in {"session", "bypass", "tunneled"} : \E by :
        /\ where' = [where EXCEPT ![p] = cgroup] /\ via' = [via EXCEPT ![p] = by]
        /\ cgroup = "bypass" => \/ watch # Off /\ by \in watch
                                \/ q # NoProc /\ where[q] = "bypass"
  <2>1. CASE OwnScope(p, q)
    BY <2>1 DEF Launch, Placed
  <2>2. CASE ~OwnScope(p, q) /\ Watched(p, q)
    <3> DEFINE by == IF Named(app[p], watch) THEN app[p] ELSE app[q]
    <3>1. where' = [where EXCEPT ![p] = "bypass"] /\ via' = [via EXCEPT ![p] = by]
      BY <2>2 DEF Launch, Placed
    <3>2. watch # Off /\ by \in watch
      BY <2>2 DEF Watched, Named
    <3> HIDE DEF by
    <3> QED BY <3>1, <3>2
  <2>3. CASE ~OwnScope(p, q) /\ ~Watched(p, q) /\ q = NoProc
    BY <2>3 DEF Launch, Placed
  <2>4. CASE ~OwnScope(p, q) /\ ~Watched(p, q) /\ q # NoProc
    <3>1. where' = [where EXCEPT ![p] = where[q]] /\ via' = [via EXCEPT ![p] = via[q]]
      BY <2>4 DEF Launch, Placed
    <3>2. where[q] \in {"session", "bypass", "tunneled"}
      BY <2>4 DEF Places
    <3> QED BY <2>4, <3>1, <3>2
  <2> QED BY <2>1, <2>2, <2>3, <2>4
<1>3. PICK cgroup \in {"session", "bypass", "tunneled"} : \E by :
        /\ where' = [where EXCEPT ![p] = cgroup] /\ via' = [via EXCEPT ![p] = by]
        /\ cgroup = "bypass" => \/ watch # Off /\ by \in watch
                                \/ q # NoProc /\ where[q] = "bypass"
  BY <1>2
<1>4. PICK by :
        /\ where' = [where EXCEPT ![p] = cgroup] /\ via' = [via EXCEPT ![p] = by]
        /\ cgroup = "bypass" => \/ watch # Off /\ by \in watch
                                \/ q # NoProc /\ where[q] = "bypass"
  BY <1>3
<1>5. Places'
  BY <1>1, <1>4 DEF Places
<1>6. Born
  BY <1>1, <1>4 DEF Places, Born
<1> QED BY <1>5, <1>6

(* The thread that is told to stop makes one pass more, or none.             *)
LEMMA StopKeepsPlaces ==
  ASSUME Places, StopThread, UNCHANGED procVars
  PROVE  Places'
<1>1. CASE UNCHANGED placeVars
  BY <1>1 DEF Places, procVars, placeVars
<1>2. CASE FullPass(thread) \/ CutShort(thread)
  BY <1>2, FullPassMoves, CutShortMoves DEF Places, PassFields, procVars
<1> QED BY <1>1, <1>2 DEF StopThread

(* A pass over /proc moves only processes its selection names.               *)
LEMMA PassKeepsPlaces ==
  ASSUME Places, NEW sel, FullPass(sel) \/ CutShort(sel), UNCHANGED procVars
  PROVE  Places' /\ MovesBy(sel)
  BY FullPassMoves, CutShortMoves DEF Places, PassFields, procVars

(* What a step moves into the cgroup while the rules are replaced.           *)
NewRulesOnly ==
  \A p \in Procs :
    pc \in {"arm", "pass"} /\ where[p] # "bypass" /\ where'[p] = "bypass"
      => \/ via'[p] \in plan
         \/ p \notin alive /\ parent'[p] # NoProc /\ where[parent'[p]] = "bypass"

(* Every step keeps the places and, while the rules are replaced, brings     *)
(* processes into the bypass cgroup only by the new rules.                   *)
LEMMA UpdateStep ==
  ASSUME UpdateInv, [Next]_vars
  PROVE  Places' /\ RulesAreNew' /\ NewRulesOnly
<1> USE DEF UpdateInv
<1>1. ASSUME NEW p \in Procs, Exit(p) PROVE Places' /\ RulesAreNew' /\ NewRulesOnly
  BY <1>1 DEF Exit, Places, RulesAreNew, NewRulesOnly
<1>2. ASSUME NEW p \in Procs, NEW q \in Procs \cup {NoProc}, Launch(p, q)
      PROVE  Places' /\ RulesAreNew' /\ NewRulesOnly
  <2>1. Places' /\ Born
    BY <1>2, LaunchMoves
  <2>2. RulesAreNew'
    BY <1>2 DEF Launch, RulesAreNew
  <2>3. NewRulesOnly
    BY <2>1 DEF Born, RulesAreNew, NewRulesOnly
  <2> QED BY <2>1, <2>2, <2>3
<1>3. ASSUME NEW list \in Plans, Apply(list) PROVE Places' /\ RulesAreNew' /\ NewRulesOnly
  BY <1>3 DEF Apply, Places, RulesAreNew, NewRulesOnly, procVars
<1>4. ASSUME NEW list \in Plans, UpdatePlan(list)
      PROVE  Places' /\ RulesAreNew' /\ NewRulesOnly
  BY <1>4 DEF UpdatePlan, Places, RulesAreNew, NewRulesOnly, procVars, placeVars
<1>5. CASE ReconcileExisting
  <2>1. Places'
    BY <1>5, PassKeepsPlaces DEF ReconcileExisting
  <2> QED BY <1>5, <2>1 DEF ReconcileExisting, RulesAreNew, NewRulesOnly
<1>6. CASE Reconcile
  <2>1. Places'
    BY <1>6, PassKeepsPlaces DEF Reconcile, procVars
  <2>2. pc \in {"idle", "stop"} /\ pc' = pc
    BY <1>6 DEF Reconcile, ThreadIsCurrent
  <2> QED BY <2>1, <2>2 DEF RulesAreNew, NewRulesOnly
<1>7. CASE Rollback
  <2>1. Places'
    BY <1>7, StopKeepsPlaces DEF Rollback
  <2> QED BY <1>7, <2>1 DEF Rollback, RulesAreNew, NewRulesOnly
<1>8. CASE Update
  <2>1. CASE StopReconciler
    <3>1. Places'
      BY <2>1, StopKeepsPlaces DEF StopReconciler
    <3> QED BY <2>1, <3>1 DEF StopReconciler, RulesAreNew, NewRulesOnly
  <2>2. CASE DropWatcher
    BY <2>2 DEF DropWatcher, Places, RulesAreNew, NewRulesOnly, procVars, placeVars
  <2>3. CASE ArmWatcher
    BY <2>3 DEF ArmWatcher, Places, RulesAreNew, NewRulesOnly, procVars, placeVars
  <2>4. CASE UpdatePass
    <3>1. Places' /\ MovesBy(selectors)
      BY <2>4, PassKeepsPlaces DEF UpdatePass
    <3>2. selectors = plan
      BY <2>4 DEF UpdatePass, RulesAreNew
    <3> QED BY <2>4, <3>1, <3>2 DEF UpdatePass, MovesBy, RulesAreNew, NewRulesOnly
  <2> QED BY <1>8, <2>1, <2>2, <2>3, <2>4 DEF Update
<1>9. CASE UNCHANGED vars
  BY <1>9 DEF vars, Places, RulesAreNew, NewRulesOnly
<1> QED BY <1>1, <1>2, <1>3, <1>4, <1>5, <1>6, <1>7, <1>8, <1>9 DEF Next

(* From the moment an update has dropped the old watcher, a process comes    *)
(* into the bypass cgroup only by a rule of the new plan or as the child of  *)
(* one that is in it (split/system.rs:344-346), however the passes, the      *)
(* watcher and the processes interleave.                                     *)
THEOREM DroppedRulesAreDead == Spec => OldRulesAreDead
<1>1. Init => UpdateInv
  BY SplitAssumption DEF Init, UpdateInv, Places, ThreadIsCurrent, RulesAreNew
<1>2. UpdateInv /\ [Next]_vars => UpdateInv'
  BY UpdateStep, ThreadStep DEF UpdateInv
<1>3. UpdateInv /\ [Next]_vars =>
        [\A p \in Procs :
           pc \in {"arm", "pass"} /\ where[p] # "bypass" /\ where'[p] = "bypass"
             => \/ via'[p] \in plan
                \/ p \notin alive /\ parent'[p] # NoProc
                     /\ where[parent'[p]] = "bypass"]_vars
  BY UpdateStep DEF NewRulesOnly
<1> QED BY <1>1, <1>2, <1>3, PTL DEF Spec, OldRulesAreDead
=============================================================================
