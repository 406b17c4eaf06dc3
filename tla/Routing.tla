------------------------------- MODULE Routing -------------------------------
(***************************************************************************)
(* The kernel's routing state under its three writers: the network         *)
(* helper's route_up and route_down, the per-application split's own table *)
(* and rule (daemon/src/split/routing.rs), and start-up recovery.          *)
(*                                                                         *)
(* Each writer is a list of `ip` and `nft` commands run one at a time, so  *)
(* the model takes one step per command; a packet may be routed between    *)
(* any two. `net` is what the commands change, `todo` the commands left.   *)
(* IPv4 destinations are the two halves of the internet, the LAN and the   *)
(* proxy servers; for IPv6 the model keeps what recovery and teardown can  *)
(* miss: the blackhole, the policy rules and the bypass table.             *)
(***************************************************************************)
EXTENDS Naturals, Sequences, Functions

CONSTANTS
  Servers,      \* proxy server addresses
  MaxServers,   \* MAX_SERVER_IPS: the longest list that a request may bring
  Ifaces,       \* physical interfaces
  HostV6,       \* the host has an IPv6 default route
  MaxRefresh    \* how often the split's rules may pile up before we stop

ASSUME RoutingAssumption ==
  /\ MaxServers \in Nat /\ Servers \cap {"low_net", "high_net", "lan"} = {}
  /\ Ifaces \cap {"none", "tun"} = {}
  /\ HostV6 \in BOOLEAN

VARIABLES
  net, uplink,
  op, todo,          \* the writer at work, and its commands left
  list,              \* the servers of the last route_up
  routesUp, split,   \* what the daemon takes to be laid
  astray             \* history: a kill, or a refused pin, has left things unrecorded

vars == <<net, uplink, op, todo, list, routesUp, split, astray>>

None == "none"
Marks == {"dns", "dial", "bypass"}
Tables == {"100", "101", "102", "100v6"}

Pristine ==
  [tun |-> FALSE, low |-> FALSE, high |-> FALSE, hole |-> FALSE,
   pins |-> {}, pinFile |-> {}, table |-> [t \in Tables |-> None],
   rules4 |-> {}, rules6 |-> {}, rp |-> "strict", rpFile |-> None, nat |-> <<>>]

Init ==
  /\ net = Pristine /\ uplink \in Ifaces
  /\ op = "idle" /\ todo = <<>> /\ list = {}
  /\ routesUp = FALSE /\ split = FALSE /\ astray = FALSE

(***************************************************************************)
(* The commands                                                            *)
(***************************************************************************)
Cmd(name) == [do |-> name, at |-> None]
Cmds(names) == [i \in DOMAIN names |-> Cmd(names[i])]
PinCmds(servers) == [i \in DOMAIN servers |-> [do |-> "pin", at |-> servers[i]]]

(* Deleting the device takes the routes through it along.                  *)
WithoutTun(n) ==
  [n EXCEPT !.tun = FALSE, !.low = FALSE, !.high = FALSE,
            !.table = [t \in Tables |-> IF @[t] = "tun" THEN None ELSE @[t]]]

Set(n, t, to) == [n EXCEPT !.table[t] = to]
AddRule(n, r) == [n EXCEPT !.rules4 = @ \cup {r}]
DropMark(rules, mark) == {r \in rules : r[1] # mark}

(* route_up, install_dns_policy_route, set_rp_filter_loose, add_rule_fwmark *)
UpEffect(c, n) ==
  CASE c.do = "ensure_tun"  -> [n EXCEPT !.tun = TRUE]
    [] c.do = "dns_table"   -> Set(n, "101", "tun")
    [] c.do = "dns_rule"    -> AddRule(n, <<"dns", "101">>)
    [] c.do = "rp"          -> [n EXCEPT !.rpFile = n.rp, !.rp = "loose"]
    [] c.do = "phys"        -> Set(n, "100", uplink)
    [] c.do = "dial_rule"   -> AddRule(n, <<"dial", "100">>)
    [] c.do = "bypass_rule" -> AddRule(n, <<"bypass", "100">>)
    [] c.do = "phys6"       -> Set(n, "100v6", uplink)
    [] c.do = "dial_rule6"  -> [n EXCEPT !.rules6 = @ \cup {<<"dial", "100v6">>}]
    [] c.do = "bypass_rule6" -> [n EXCEPT !.rules6 = @ \cup {<<"bypass", "100v6">>}]
    [] c.do = "pin"         -> [n EXCEPT !.pins = @ \cup {c.at}]
    [] c.do = "save_pins"   -> [n EXCEPT !.pinFile = list]
    [] c.do = "low"         -> [n EXCEPT !.low = TRUE]
    [] c.do = "high"        -> [n EXCEPT !.high = TRUE]
    [] c.do = "hole"        -> [n EXCEPT !.hole = TRUE]

UpNames == {"ensure_tun", "dns_table", "dns_rule", "rp", "phys", "dial_rule",
            "bypass_rule", "phys6", "dial_rule6", "bypass_rule6", "pin",
            "save_pins", "low", "high", "hole"}

(* Mutated: the servers are pinned after the tunnel has the default route.  *)
UpCmds_PinsLast(servers) ==
  Cmds(<<"ensure_tun", "dns_table", "dns_rule", "rp", "phys", "dial_rule",
         "bypass_rule", "low", "high", "hole">>)
    \o PinCmds(servers) \o Cmds(<<"save_pins">>)

UpCmds(servers) ==
  Cmds(<<"ensure_tun", "dns_table", "dns_rule", "rp", "phys", "dial_rule",
         "bypass_rule">>)
    \o (IF HostV6 THEN Cmds(<<"phys6", "dial_rule6", "bypass_rule6">>) ELSE <<>>)
    \o PinCmds(servers)
    \o Cmds(<<"save_pins", "low", "high", "hole">>)

RestoreRp(n) ==
  [n EXCEPT !.rp = IF n.rpFile = None THEN @ ELSE n.rpFile, !.rpFile = None]

(* route_down: every rule on a mark goes, whichever table it names.         *)
DownEffect(c, n) ==
  CASE c.do = "del_low"     -> [n EXCEPT !.low = FALSE]
    [] c.do = "del_high"    -> [n EXCEPT !.high = FALSE]
    [] c.do = "del_dns_rule" -> [n EXCEPT !.rules4 = @ \ {<<"dns", "101">>}]
    [] c.do = "flush_101"   -> Set(n, "101", None)
    [] c.do = "del_hole"    -> [n EXCEPT !.hole = FALSE]
    [] c.do = "del_dial"    -> [n EXCEPT !.rules4 = DropMark(@, "dial")]
    [] c.do = "del_dial6"   -> [n EXCEPT !.rules6 = DropMark(@, "dial")]
    [] c.do = "del_bypass"  -> [n EXCEPT !.rules4 = DropMark(@, "bypass")]
    [] c.do = "del_bypass6" -> [n EXCEPT !.rules6 = DropMark(@, "bypass")]
    [] c.do = "flush_100"   -> Set(n, "100", None)
    [] c.do = "flush_100v6" -> Set(n, "100v6", None)
    [] c.do = "del_pins"    -> [n EXCEPT !.pins = @ \ n.pinFile, !.pinFile = {}]
    [] c.do = "restore_rp"  -> RestoreRp(n)
    [] c.do = "del_tun"     -> WithoutTun(n)

DownSeq ==
  <<"del_low", "del_high", "del_dns_rule", "flush_101", "del_hole", "del_dial",
    "del_dial6", "del_bypass", "del_bypass6", "flush_100", "flush_100v6",
    "del_pins", "restore_rp">>

DownCmds == Cmds(DownSeq)

(* The split's own commands: routing_setup_commands,                        *)
(* routing_teardown_commands, and the nft transaction, which adds its rules *)
(* to the chains that are there.                                            *)
SplitEffect(c, n) ==
  CASE c.do = "split_table"     -> Set(n, "102", uplink)
    [] c.do = "split_rule"      -> AddRule(n, <<"bypass", "102">>)
    [] c.do = "split_nft"       -> [n EXCEPT !.nat = Append(@, uplink)]
    [] c.do = "del_split_rule"  -> [n EXCEPT !.rules4 = @ \ {<<"bypass", "102">>}]
    [] c.do = "flush_102"       -> Set(n, "102", None)
    [] c.do = "del_split_nft"   -> [n EXCEPT !.nat = <<>>]

(* Mutated: the split flushes the table of the DNS rule.                    *)
SplitTeardown_WrongTable == Cmds(<<"del_split_rule", "flush_101">>)

SplitTeardown == Cmds(<<"del_split_rule", "flush_102">>)
SplitSetup == Cmds(<<"split_table", "split_rule", "split_nft">>)

Effect(c, n) ==
  IF c.do \in UpNames THEN UpEffect(c, n)
  ELSE IF c.do \in Range(DownSeq) \cup {"del_tun"} THEN DownEffect(c, n)
  ELSE SplitEffect(c, n)

(***************************************************************************)
(* The operations                                                          *)
(***************************************************************************)
Begin(name, cmds) == op' = name /\ todo' = cmds

(* A request's list of addresses, in the order it comes in.                 *)
Lists == UNION {[1..k -> Servers] : k \in 0..MaxServers}

RouteUp(servers) ==
  /\ op = "idle" /\ ~routesUp
  /\ list' = Range(servers)
  /\ Begin("up", UpCmds(servers))
  /\ UNCHANGED <<net, uplink, routesUp, split, astray>>

RouteDown ==
  /\ op = "idle" /\ routesUp
  /\ Begin("down", DownCmds)
  /\ UNCHANGED <<net, uplink, list, routesUp, split, astray>>

(* install_routing, for a new split and for refresh_route_rules.            *)
InstallRouting ==
  /\ op = "idle" /\ routesUp /\ Len(net.nat) < MaxRefresh
  /\ Begin("install", SplitTeardown \o SplitSetup)
  /\ UNCHANGED <<net, uplink, list, routesUp, split, astray>>

RemoveRouting ==
  /\ op = "idle" /\ split
  /\ Begin("remove", Append(SplitTeardown, Cmd("del_split_nft")))
  /\ UNCHANGED <<net, uplink, list, routesUp, split, astray>>

Finished(o) ==
  /\ routesUp' = IF o = "up" THEN TRUE
                 ELSE IF o \in {"undo", "down"} THEN FALSE ELSE routesUp
  /\ split' = IF o = "install" THEN TRUE ELSE IF o = "remove" THEN FALSE ELSE split

Command ==
  /\ op \in {"up", "undo", "down", "install", "remove", "recover"} /\ todo # <<>>
  /\ net' = Effect(Head(todo), net)
  /\ todo' = Tail(todo)
  /\ IF todo' = <<>> /\ op # "recover"
     THEN op' = "idle" /\ Finished(op)
     ELSE UNCHANGED <<op, routesUp, split>>
  /\ UNCHANGED <<uplink, list, astray>>

(* Mutated: a route_up that fails leaves what it has laid.                  *)
Refused_Returns ==
  /\ todo # <<>>
  /\ op \in {"up", "install"} /\ Begin("idle", <<>>)
  /\ UNCHANGED <<net, uplink, list, routesUp, split, astray>>

(* A refused command: route_up takes everything down again, install_routing *)
(* returns with what it had laid. The teardown commands are not looked at.  *)
Refused ==
  /\ todo # <<>>
  /\ \/ op = "up" /\ Begin("undo", DownCmds)
     \/ op = "install" /\ Head(todo) \in Range(SplitSetup) /\ Begin("idle", <<>>)
  /\ astray' = (astray \/ Head(todo).do \in {"pin", "save_pins"})
  /\ UNCHANGED <<net, uplink, list, routesUp, split>>

(* The uplink changes while no tunnel is laid over it.                       *)
LinkChange ==
  /\ op = "idle" /\ ~routesUp
  /\ uplink' \in Ifaces \ {uplink}
  /\ net' = [net EXCEPT !.table = [t \in Tables |-> IF @[t] = uplink THEN None ELSE @[t]],
                        !.pins = {}]
  /\ UNCHANGED <<op, todo, list, routesUp, split, astray>>

(***************************************************************************)
(* Kill and recovery                                                       *)
(***************************************************************************)
Kill ==
  /\ op \notin {"dead", "recover", "repaired", "dirty"}
  /\ op' = "dead" /\ todo' = <<>> /\ routesUp' = FALSE /\ split' = FALSE
  /\ astray' = TRUE
  /\ UNCHANGED <<net, uplink, list>>

(* SystemCleanupBackend.inspect and route_resources: IPv4 rules, the main   *)
(* tables' routes, the device and the nft table.                            *)
FoundTables(n) ==
  {t \in {"100", "101", "102"} :
     CASE t = "101" -> <<"dns", "101">> \in n.rules4
       [] t = "102" -> <<"bypass", "102">> \in n.rules4
       [] t = "100" -> \/ n.rules4 \cap {<<"dial", "100">>, <<"bypass", "100">>} # {}
                       \/ n.low \/ n.high \/ n.hole}

Found(n) == FoundTables(n) # {} \/ n.tun \/ n.nat # <<>>

(* Mutated: table 100 without the helper's own cleanup.                     *)
Removal_RulesOnly(n) ==
  Cmds(<<"del_tun", "del_dial", "del_dial6", "del_bypass", "del_bypass6",
         "flush_100", "del_dns_rule", "flush_101", "del_split_nft">>)

Removal(n) ==
  (IF n.tun THEN Cmds(<<"del_tun">>) ELSE <<>>)
    \o (IF "100" \in FoundTables(n) THEN Append(DownCmds, Cmd("del_tun")) ELSE <<>>)
    \o (IF "101" \in FoundTables(n) THEN Cmds(<<"del_dns_rule", "flush_101">>) ELSE <<>>)
    \o (IF "102" \in FoundTables(n) THEN SplitTeardown ELSE <<>>)
    \o (IF n.nat # <<>> THEN Cmds(<<"del_split_nft">>) ELSE <<>>)

Recover ==
  /\ op = "dead"
  /\ Begin("recover", Removal(net))
  /\ UNCHANGED <<net, uplink, list, routesUp, split, astray>>

(* The second look decides what recovery reports.                           *)
VerifyClean ==
  /\ op = "recover" /\ todo = <<>>
  /\ op' = IF Found(net) THEN "dirty" ELSE "repaired"
  /\ UNCHANGED <<net, uplink, todo, list, routesUp, split, astray>>

Serve ==
  /\ op \in {"dirty", "repaired"} /\ op' = "idle"
  /\ UNCHANGED <<net, uplink, todo, list, routesUp, split, astray>>

Next ==
  \/ \E servers \in Lists : RouteUp(servers)
  \/ RouteDown \/ InstallRouting \/ RemoveRouting \/ Command \/ Refused
  \/ LinkChange \/ Kill \/ Recover \/ VerifyClean \/ Serve

Spec == Init /\ [][Next]_vars

(***************************************************************************)
(* Where a packet leaves                                                   *)
(***************************************************************************)
Dests == {"low_net", "high_net", "lan"}

(* The main table: the LAN's and the servers' own routes, then the halves.  *)
Main(n, dst, half) ==
  IF dst = "lan" \/ dst \in n.pins THEN uplink
  ELSE IF (half = "low" /\ n.low) \/ (half = "high" /\ n.high) THEN "tun"
  ELSE uplink

(* Policy rules in priority order; a table without a route, or with a throw *)
(* for the LAN, passes the packet on.                                       *)
Egress(n, mark, dst, half) ==
  LET order == <<"101", "102", "100">>
      hits  == {i \in 1..3 : /\ <<mark, order[i]>> \in n.rules4
                             /\ n.table[order[i]] # None
                             /\ dst = "lan" => order[i] = "101"}
  IN IF hits = {} THEN Main(n, dst, half)
     ELSE n.table[order[CHOOSE i \in hits : \A j \in hits : i <= j]]

Half(dst) == IF dst = "high_net" THEN "high" ELSE "low"

(***************************************************************************)
(* Properties                                                              *)
(***************************************************************************)

(* Xray never dials into its own tunnel. Between any two commands of any    *)
(* writer its marked dials, and the excluded applications' packets, keep    *)
(* out of it: laying the tunnel never catches them, and taking the split    *)
(* down does not take away the route that Xray dials by                     *)
(* (split/routing.rs:98-107, helper 1242-1290). And from the moment a half  *)
(* of the internet goes into the tunnel the servers are reached past it     *)
(* even unmarked (helper 1283-1285, "even if SO_MARK no-ops").              *)
NoLoop ==
  /\ \A mark \in {"dial", "bypass"}, dst \in Dests :
       Egress(net, mark, dst, Half(dst)) # "tun"
  /\ op \notin {"dead", "recover", "repaired", "dirty"} /\ (net.low \/ net.high) =>
       \A s \in list, half \in {"low", "high"} : Egress(net, "plain", s, half) # "tun"

(* Whenever route_up has reported success and no command is under way,      *)
(* everything unmarked goes into the tunnel, DNS has its own way there, and *)
(* IPv6 has nowhere to go, whatever the split did since (helper 1318-1347). *)
UpIsComplete ==
  routesUp /\ op = "idle" =>
    /\ \A dst \in Dests \ {"lan"} : Egress(net, "plain", dst, Half(dst)) = "tun"
    /\ Egress(net, "dns", "lan", "low") = "tun"
    /\ net.hole

Clean(n) ==
  /\ ~n.low /\ ~n.high /\ ~n.hole /\ n.pins = {}
  /\ n.rules4 = {} /\ n.rules6 = {}
  /\ \A t \in Tables \ {"102"} : n.table[t] = None
  /\ n.rp = "strict"

(* route_up "rolls back via `route_down` on any error" (helper 1213-1214):  *)
(* with no tunnel up and no command under way the host routes as it did     *)
(* before the first connect, unless a kill or a refused pin has left routes *)
(* that no record names.                                                    *)
DownIsClean == op = "idle" /\ ~routesUp /\ ~astray => Clean(net)

(* Start-up recovery removes, in its one pass, everything that it would     *)
(* find on its second look, wherever the helper was killed: it never ends   *)
(* in RecoveryRequired for a resource it had no way to remove               *)
(* (recovery.rs:113-140, 205-267).                                          *)
RecoveryConverges == op # "dirty"
=============================================================================
