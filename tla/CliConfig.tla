------------------------------ MODULE CliConfig ------------------------------
(***************************************************************************)
(* The command line client's store (cli/src/config.rs): the locations, the *)
(* subscriptions they came from, and the chosen location that a bare       *)
(* `connect` uses.                                                         *)
(*                                                                         *)
(* Every command loads the store, which migrates what older versions left, *)
(* works on the copy, and saves it. A server is told by its label and by   *)
(* its endpoint; `key` is both, as LocationKey is. The chosen location is  *)
(* stored as a key and the subscription it was chosen in, and is looked up *)
(* again whenever it is needed.                                            *)
(***************************************************************************)
EXTENDS Naturals, Sequences, SequencesExt, FiniteSets

CONSTANTS
  Catalogue,    \* servers a provider or the user may name: [label, host]
  Urls,         \* subscription addresses
  None,
  Offers,       \* for each address, the lists its provider may send
  MaxManual,    \* the most locations added by hand
  OldStores     \* stores that earlier versions may have left

VARIABLES
  store,    \* the file
  renewed   \* history: subscriptions the last update replaced; None after others

vars == <<store, renewed>>

Location(server, source) == [server |-> server, source |-> source]

Locations == {Location(s, u) : s \in Catalogue, u \in Urls \cup {None}}

Empty == [locs |-> <<>>, subs |-> <<>>, active |-> None, home |-> None,
          servers |-> <<>>, legacy |-> None]

Init == store \in {Empty} \cup OldStores /\ renewed = None

(***************************************************************************)
(* load: what older versions left is brought into the present shape        *)
(***************************************************************************)
OnlyUrl(c) == IF Len(c.subs) = 1 THEN c.subs[1] ELSE None

(* The flat list of servers of the old schema, each once.                   *)
Flattened(c) ==
  FoldLeft(LAMBDA locs, s : IF \E l \in ToSet(locs) : l.server = s THEN locs
                            ELSE Append(locs, Location(s, OnlyUrl(c))),
           c.locs, c.servers)

FirstOf(locs) == IF locs = <<>> THEN None ELSE locs[1]

Labelled(locs, label) == SelectSeq(locs, LAMBDA l : l.server.label = label)

Keyed(locs, server) == SelectSeq(locs, LAMBDA l : l.server = server)

Migrate(c) ==
  LET flat   == Flattened(c)
      byName == FirstOf(Labelled(flat, c.legacy))
      active == IF c.legacy = None THEN c.active
                ELSE IF byName = None THEN None ELSE byName.server
      locs   == [i \in DOMAIN flat |->
                   IF flat[i].source \in ToSet(c.subs) THEN flat[i]
                   ELSE Location(flat[i].server, None)]
      chosen == FirstOf(Keyed(locs, active))
      home   == IF c.home = None /\ active # None /\ chosen # None
                THEN chosen.source ELSE c.home
  IN [c EXCEPT !.locs = locs, !.active = active, !.home = home,
               !.servers = <<>>, !.legacy = None]

Loaded == Migrate(store)

(***************************************************************************)
(* The chosen location                                                     *)
(***************************************************************************)

(* active_home: the subscription confines the choice while it is there.     *)
ActiveHome(c) == IF c.home \in ToSet(c.subs) THEN c.home ELSE None

Pool(c) ==
  SelectSeq(c.locs, LAMBDA l : ActiveHome(c) = None \/ l.source = ActiveHome(c))

(* The location with the recorded key, from the recorded source if it can.  *)
Preferred(c) ==
  LET hits == Keyed(Pool(c), c.active)
      own  == SelectSeq(hits, LAMBDA l : l.source = c.home)
  IN FirstOf(own \o hits)

(* active_position and active_location.                                     *)
Active(c) ==
  IF c.active = None THEN None
  ELSE Preferred(c)

(* is_active: several entries may be equal, and the first is the one.        *)
IsActive(c, i) ==
  c.locs[i] = Active(c) /\ \A j \in 1..(i - 1) : c.locs[j] # c.locs[i]

SetActive(c, l) == [c EXCEPT !.active = l.server, !.home = l.source]

ClearActive(c) == [c EXCEPT !.active = None, !.home = None]

(* Mutated: with nothing left that matches, the first location will do.     *)
ReconcileActive_Any(c, previous) ==
  IF c.active = None \/ Pool(c) = <<>> THEN c
  ELSE LET exact == Preferred(c)
       IN SetActive(c, IF exact # None THEN exact ELSE Pool(c)[1])

(* Mutated: a choice that is not found is forgotten.                        *)
ReconcileActive_Forgets(c, previous) ==
  LET found == Preferred(c)
  IN IF c.active = None THEN c
     ELSE IF found = None THEN ClearActive(c) ELSE SetActive(c, found)

(* reconcile_active: the same key, then the same endpoint (with the label   *)
(* deciding between several), then the same label; else left as it is.      *)
ReconcileActive(c, previous) ==
  LET exact  == Preferred(c)
      shared == SelectSeq(Pool(c), LAMBDA l : previous # None
                                     /\ l.server.host = previous.server.host)
      same   == FirstOf(Labelled(shared, c.active.label))
      label  == FirstOf(Labelled(Pool(c), c.active.label))
      found  == IF exact # None THEN exact
                ELSE IF same # None THEN same
                ELSE IF shared # <<>> THEN shared[1] ELSE label
  IN IF c.active = None \/ found = None THEN c ELSE SetActive(c, found)

(***************************************************************************)
(* Commands                                                                *)
(***************************************************************************)
Save(c) == store' = c

(* Mutated: what the provider sends now is taken from the others.           *)
Replaced_ByKey(c, url, fresh) ==
  ReconcileActive(
    [c EXCEPT !.locs = SelectSeq(@, LAMBDA l : l.source # url /\ l.server \notin ToSet(fresh))
                         \o [i \in DOMAIN fresh |-> Location(fresh[i], url)]],
    Active(c))

(* replace_subscription_locations: the new list takes the old one's place.  *)
Replaced(c, url, fresh) ==
  LET from(l) == l.source = url
      others  == SelectSeq(c.locs, LAMBDA l : ~from(l))
      first   == {i \in DOMAIN c.locs : from(c.locs[i])}
      at      == IF first = {} THEN Len(c.locs)
                 ELSE (CHOOSE i \in first : \A j \in first : i <= j) - 1
      new     == [i \in DOMAIN fresh |-> Location(fresh[i], url)]
  IN ReconcileActive(
       [c EXCEPT !.locs = SubSeq(others, 1, at) \o new
                            \o SubSeq(others, at + 1, Len(others))],
       Active(c))

Add(server) ==
  LET c == Loaded
      known == Location(server, None) \in ToSet(c.locs)
  IN /\ known \/ Cardinality({i \in DOMAIN c.locs : c.locs[i].source = None}) < MaxManual
     /\ Save(IF known THEN c
             ELSE [c EXCEPT !.locs = Append(@, Location(server, None))])
     /\ renewed' = None

SubAdd(url, fresh) ==
  LET c == Loaded
  IN /\ url \notin ToSet(c.subs)
     /\ Save(Replaced([c EXCEPT !.subs = Append(@, url)], url, fresh))
     /\ renewed' = None

(* What an update, of one subscription or of all, brought: a list or None.  *)
Outcomes ==
  LET subs == ToSet(Loaded.subs)
      all  == UNION {Offers[u] : u \in subs} \cup {None}
  IN {r \in UNION {[us -> all] : us \in {subs} \cup {{u} : u \in subs}} :
        r # <<>> /\ \A u \in DOMAIN r : r[u] \in Offers[u] \cup {None}}

(* sub update: each stands on its own; one that failed keeps what it had.   *)
SubUpdate(outcome) ==
  LET updated(c, url) ==
        IF url \notin DOMAIN outcome \/ outcome[url] = None THEN c
        ELSE Replaced(c, url, outcome[url])
      loaded == Loaded
  IN /\ Save(FoldLeft(updated, loaded, loaded.subs))
     /\ renewed' = {u \in DOMAIN outcome : outcome[u] # None}

SubRemove(url) ==
  LET c == Loaded
  IN /\ url \in ToSet(c.subs)
     /\ Save(ReconcileActive(
               [c EXCEPT !.subs = SelectSeq(@, LAMBDA u : u # url),
                         !.locs = SelectSeq(@, LAMBDA l : l.source # url)],
               Active(c)))
     /\ renewed' = None

(* remove: a location added by hand; the choice goes with it.               *)
RemoveManual(i) ==
  LET c == Loaded
  IN /\ c.locs[i].source = None
     /\ Save([(IF IsActive(c, i) THEN ClearActive(c) ELSE c)
                EXCEPT !.locs = RemoveAt(@, i)])
     /\ renewed' = None

(* connect <name>: naming a location is also choosing it.                   *)
Connect(i) ==
  LET c == Loaded
  IN /\ Save(SetActive(c, c.locs[i]))
     /\ renewed' = None

Next ==
  \/ \E server \in Catalogue : Add(server)
  \/ \E url \in Urls : \E fresh \in Offers[url] : SubAdd(url, fresh)
  \/ \E outcome \in Outcomes : SubUpdate(outcome)
  \/ \E url \in Urls : SubRemove(url)
  \/ \E i \in DOMAIN Loaded.locs : RemoveManual(i) \/ Connect(i)

Spec == Init /\ [][Next]_vars

(***************************************************************************)
(* Properties                                                              *)
(***************************************************************************)

(* The choice as the next command will see it.                              *)
NextChoice == Active(Migrate(store'))

(* This step was an update.                                                 *)
Updates == renewed' # None

(* "Never picks a different location" (config.rs:630): when an update moves *)
(* a choice that its subscription confines, the new one is of the same      *)
(* subscription and has the endpoint or the label of the old.               *)
NeverAnother ==
  [][LET was == Active(Loaded) IN
     Updates /\ was # None /\ NextChoice # None /\ ActiveHome(Loaded) # None
     => /\ NextChoice.source = was.source
        /\ \/ NextChoice.server.host = was.server.host
           \/ NextChoice.server.label = was.server.label]_vars

(* "a later update that brings it back restores it" (config.rs:632): when   *)
(* the new list has the recorded key, that location is the choice, and an   *)
(* update that leaves no choice keeps the record for a later one.           *)
BroughtBack ==
  [][LET back == Location(Loaded.active, ActiveHome(Loaded)) IN
     Updates /\ back.source # None
     => /\ back \in ToSet(store'.locs) => NextChoice = back
        /\ NextChoice = None => /\ store'.active = Loaded.active
                                /\ store'.home = Loaded.home]_vars

(* "nothing another subscription or the user added is touched even when it  *)
(* shares an endpoint" (config.rs:538-539), and a failed update keeps the   *)
(* locations of the last one: what was not renewed keeps all it had, in its *)
(* order.                                                                   *)
OthersUntouched ==
  [][LET kept(locs) == SelectSeq(locs, LAMBDA l : l.source \notin renewed')
     IN Updates => kept(store'.locs) = kept(Loaded.locs)]_vars
=============================================================================
