----------------------------- MODULE MCCliConfig -----------------------------
(* Three servers: two that share a label, two that share a host. Two         *)
(* subscriptions may offer the same ones.                                    *)
EXTENDS CliConfig

Server(label, host) == [label |-> label, host |-> host]

ThreeServers == {Server("de", "h1"), Server("de", "h2"), Server("nl", "h1")}

(* One provider sends any two of the locations in any order, or one; the     *)
(* other sends one location that the first may send too.                     *)
SomeOffers ==
  [u \in {"u1", "u2"} |->
     IF u = "u1"
     THEN {q \in [1..2 -> ThreeServers] : IsInjective(q)} \cup {<<Server("de", "h2")>>}
     ELSE {<<Server("de", "h1")>>, <<Server("nl", "h1")>>}]

(* A pre-0.2 store with its flat list and a choice by name, with one         *)
(* subscription or none; a 0.1.2 store with locations of a subscription that *)
(* was removed.                                                              *)
SomeOldStores ==
  { [Empty EXCEPT !.servers = <<Server("nl", "h1"), Server("de", "h2")>>,
                  !.legacy = name, !.subs = subs] :
      name \in {"de", "us"}, subs \in {<<>>, <<"u1">>} }
  \cup
  { [Empty EXCEPT !.locs = <<Location(Server("de", "h1"), "u1")>>,
                  !.active = Server("de", "h1")] }
=============================================================================
