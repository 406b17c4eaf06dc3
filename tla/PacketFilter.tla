---------------------------- MODULE PacketFilter ----------------------------
(***************************************************************************)
(* The nftables rules the system installs, as the ordered lists of matches *)
(* they are, and one flow whose packets pass them while the daemon's       *)
(* layers come and go: the kill switch (helper/src/main.rs), the DNS rules *)
(* (daemon/src/nft.rs) and the split's rules (split/routing.rs,            *)
(* direct_dns.rs).                                                         *)
(*                                                                         *)
(* A connection keeps its conntrack mark for as long as the flow lasts,    *)
(* so what one layer wrote is read by another after the first is gone.     *)
(***************************************************************************)
EXTENDS Naturals, Sequences

VARIABLES
  allowLan, \* the kill switch was asked to let the LAN through
  stage,    \* which layers stand, as the daemon lays and removes them
  flow,     \* who sends, to whom, to which port
  ct,       \* the flow's conntrack mark
  out       \* what became of the last packet

filterVars == <<allowLan, stage, flow, ct, out>>

Stages == {"off", "hold", "held_routes", "held_tunnel", "tunnel", "teardown"}

Holds == {"hold", "held_routes", "held_tunnel"}
Routed == {"held_routes", "held_tunnel", "tunnel", "teardown"}
Guarded == {"held_tunnel", "tunnel"}

Flows == [who: {"app", "excluded", "xray"},
          dst: {"net", "lan", "resolver", "server", "loopback"},
          port: {"dns", "dot", "web", "proxy_dns"}]

NoMark == 0
DnsMark == 8227     \* 0x2023
DialMark == 8228    \* 0x2024
BypassMark == 8229  \* 0x2025


(***************************************************************************)
(* The chains. A rule is a match and a verdict; the first match decides.   *)
(***************************************************************************)
On(match, verdict) == [match |-> match, verdict |-> verdict]

FirstOf(hits) == CHOOSE i \in hits : \A j \in hits : i <= j

Verdict(rules, policy) ==
  LET hits == {i \in DOMAIN rules : rules[i].match}
  IN IF hits = {} THEN policy ELSE rules[FirstOf(hits)].verdict

(* The mark a socket is given when it is created: Xray marks its dials, the *)
(* cgroup program marks an excluded application's sockets.                  *)
SocketMark(f) ==
  CASE f.who = "app" -> NoMark
    [] f.who = "xray" -> DialMark
    [] f.who = "excluded" -> BypassMark

(* varmlen_dns mark_output: plain DNS that nobody else has marked.          *)
MarksDns(f) ==
  /\ stage \in Guarded /\ f.dst # "loopback"
  /\ SocketMark(f) \notin {DialMark, BypassMark} /\ f.port = "dns"

Mark(f) == IF MarksDns(f) THEN DnsMark ELSE SocketMark(f)

(* Both mark_output chains write the mark through to the connection.        *)
CtMark(f) ==
  IF MarksDns(f) THEN DnsMark
  ELSE IF stage \in Routed /\ f.who = "excluded" THEN SocketMark(f) ELSE ct

(* The device the marked packet is routed to.                               *)
Oif(f) ==
  CASE f.dst = "loopback" -> "lo"
    [] f.dst # "loopback" /\ stage \in Routed /\ Mark(f) = DnsMark -> "tun"
    [] f.dst # "loopback" /\ stage \in Routed /\ Mark(f) = NoMark
         /\ f.dst \notin {"lan", "server"} -> "tun"
    [] OTHER -> "phys"

(* Mutated: DNS over TLS is not thought of.                                 *)
DnsGuardRules_PlainOnly(f) ==
  << On(Oif(f) = "lo", "accept"),
     On(Mark(f) = BypassMark /\ f.port = "dns", "accept"),
     On(Mark(f) = DnsMark /\ Oif(f) = "tun" /\ f.port = "dns", "accept"),
     On(f.port = "dns", "reject") >>

(* varmlen_dns guard_output.                                                *)
DnsGuardRules(f) ==
  << On(Oif(f) = "lo", "accept"),
     On(Mark(f) = BypassMark /\ f.port \in {"dns", "dot"}, "accept"),
     On(Mark(f) = DnsMark /\ Oif(f) = "tun" /\ f.port = "dns", "accept"),
     On(Oif(f) = "tun" /\ f.port = "dot", "accept"),
     On(f.port \in {"dns", "dot"}, "reject") >>

(* varmlen_split_dns guard_output: the direct resolver answers only the     *)
(* excluded applications.                                                   *)
DirectDnsRules(f) ==
  << On(f.dst = "loopback" /\ f.port = "proxy_dns" /\ Mark(f) # BypassMark,
        "reject") >>

(* Mutated: the LAN is let through before its DNS is dropped.               *)
KillswitchRules_LanFirst(f) ==
  << On(Oif(f) \in {"lo", "tun"}, "accept"),
     On(Mark(f) \in {DnsMark, DialMark, BypassMark}, "accept"),
     On(CtMark(f) \in {DnsMark, DialMark, BypassMark}, "accept"),
     On(f.dst = "resolver" /\ f.port \in {"dns", "web"}, "accept"),
     On(f.dst = "server", "accept"),
     On(allowLan /\ f.dst = "lan", "accept"),
     On(f.dst = "lan" /\ f.port = "dns", "drop") >>

(* killswitch_ruleset, in the order of the chain. The flow is one that this *)
(* host opened, so the rule for replies never matches it.                   *)
KillswitchRules(f) ==
  << On(Oif(f) \in {"lo", "tun"}, "accept"),
     On(Mark(f) \in {DnsMark, DialMark, BypassMark}, "accept"),
     On(CtMark(f) \in {DnsMark, DialMark, BypassMark}, "accept"),
     On(f.dst = "resolver" /\ f.port \in {"dns", "web"}, "accept"),
     On(f.dst = "server", "accept"),
     On(f.dst = "lan" /\ f.port = "dns", "drop"),
     On(allowLan /\ f.dst = "lan", "accept") >>

(* The hooks of the output path, by priority; a packet passes all of them.  *)
Fate(f) ==
  IF stage \in Routed /\ Verdict(DirectDnsRules(f), "accept") = "reject"
    THEN "rejected"
  ELSE IF stage \in Guarded /\ Verdict(DnsGuardRules(f), "accept") = "reject"
    THEN "rejected"
  ELSE IF stage \in Holds /\ Verdict(KillswitchRules(f), "drop") = "drop"
    THEN "dropped"
  ELSE Oif(f)

(***************************************************************************)
(* Steps, taken by the data plane                                          *)
(***************************************************************************)

(* A packet of the flow.                                                    *)
FilterSend ==
  /\ out' = Fate(flow) /\ ct' = CtMark(flow)
  /\ UNCHANGED <<allowLan, stage, flow>>

(* The flow ends and another begins, with a connection entry of its own.    *)
FilterNewFlow(f) ==
  /\ flow' = f /\ ct' = NoMark /\ out' = "none"
  /\ UNCHANGED <<allowLan, stage>>

(* The layers in the order the lifecycle lays and removes them: the hold    *)
(* first and last, the routes before the DNS rules, the DNS rules before    *)
(* the routes on the way down; with the kill switch the hold stays.         *)
Moves ==
  { <<"off", "hold">>, <<"hold", "held_routes">>, <<"held_routes", "held_tunnel">>,
    <<"held_tunnel", "tunnel">>, <<"tunnel", "held_tunnel">>,
    <<"held_tunnel", "held_routes">>, <<"held_routes", "hold">>,
    <<"hold", "off">>, <<"tunnel", "teardown">>, <<"teardown", "off">> }

FilterRelayer(to) ==
  /\ <<stage, to>> \in Moves /\ stage' = to /\ out' = "none"
  /\ UNCHANGED <<allowLan, flow, ct>>

(***************************************************************************)
(* Properties                                                              *)
(***************************************************************************)

(* While the hold block stands, nothing of an ordinary application leaves   *)
(* by the physical interface, except to the proxy server, to the bootstrap  *)
(* resolver and, when that was asked for and it is not DNS, to the LAN: in  *)
(* every order in which the other layers come and go (helper 385-387,       *)
(* 420-423). DNS on a connection that carries a mark of the DNS rules is    *)
(* not covered: the chain accepts it by that mark.                          *)
HeldIsTight ==
  stage \in Holds /\ flow.who = "app" /\ out = "phys"
    /\ (flow.port # "dns" \/ ct = NoMark)
  => \/ flow.dst = "server"
     \/ flow.dst = "resolver" /\ flow.port \in {"dns", "web"}
     \/ flow.dst = "lan" /\ allowLan /\ flow.port # "dns"

(* While the DNS rules stand, an ordinary application's DNS and DNS over    *)
(* TLS go through the tunnel, to this host, or nowhere, whatever mark the   *)
(* connection carries from before (nft.rs:11-29).                           *)
DnsThroughTunnel ==
  stage \in Guarded /\ flow.who = "app" /\ flow.port \in {"dns", "dot"} =>
    out # "phys"

=============================================================================
