-------------------------------- MODULE Xray --------------------------------
(***************************************************************************)
(* core/src/xray.rs: the Xray configurations the client writes for a       *)
(* location. A location is a share link, one outbound given as JSON, or a  *)
(* whole profile with outbounds, routing rules, balancers and resolvers,   *)
(* of which the generator keeps what it can answer for.                    *)
(*                                                                         *)
(* Data is kept as far as some rule tells it apart. A selector is the set  *)
(* of tags it is a prefix of; an address is the class of addresses it is   *)
(* in; a rule is the conditions it names and its target. Where the code    *)
(* takes any element of a HashSet the operator returns every outcome: the  *)
(* plans of a location are a set, empty when the code returns an error.    *)
(***************************************************************************)
EXTENDS Naturals, Sequences, FiniteSets, Functions

CONSTANTS
  None,
  DefaultTags   \* tag of an outbound that has none, by its position: "proxy", "proxy-2", ...

ProxyProtocols == {"vless", "hysteria", "wireguard"}   \* of PROXY_PROTOCOLS
Reserved == {"direct", "dns-out", "block"}             \* RESERVED_OUTBOUND_TAGS

(* The elements of a list at the positions in `kept`, in their order.       *)
Selected(list, kept) ==
  [k \in 1..Cardinality(kept) |->
    list[CHOOSE i \in kept : Cardinality({j \in kept : j <= i}) = k]]

LastOf(positions) == CHOOSE i \in positions : \A j \in positions : j <= i

(* Protocol names are compared in lower case and passed on as they are.     *)
Lower(protocol) == IF protocol = "VLESS" THEN "vless" ELSE protocol

IsProxyProtocol(protocol) == Lower(protocol) \in ProxyProtocols

Tags(items) == {items[i].tag : i \in DOMAIN items}

UniqueTags(items) == \A i, j \in DOMAIN items : items[i].tag = items[j].tag => i = j

(* Keys that name a file of this host, as the generator looks for them.     *)
ContainsForbiddenProviderFileReference(outbound) ==
  outbound.files \cap {"keyFile", "masterKeyLog"} # {}

(* Mutated: the dial mark is left to the provider.                          *)
SanitizeRawOutbound_Unmarked(outbound, preserve) ==
  IF ContainsForbiddenProviderFileReference(outbound)
       \/ ~IsProxyProtocol(outbound.protocol)
  THEN None
  ELSE [outbound EXCEPT !.tag = IF preserve THEN @ ELSE "proxy"]

(* sanitize_raw_outbound: None for an error. A WireGuard outbound has no    *)
(* stream settings and so no mark.                                          *)
SanitizeRawOutbound(outbound, preserve) ==
  IF ContainsForbiddenProviderFileReference(outbound)
       \/ ~IsProxyProtocol(outbound.protocol)
  THEN None
  ELSE [tag |-> IF preserve THEN outbound.tag ELSE "proxy", protocol |-> outbound.protocol,
        files |-> outbound.files, peers |-> outbound.peers,
        marked |-> Lower(outbound.protocol) # "wireguard"]

ProviderProxyOutbounds(profile) ==
  LET named == [i \in DOMAIN profile.outbounds |->
                 [profile.outbounds[i] EXCEPT !.tag = IF @ = "" THEN DefaultTags[i] ELSE @]]
      proxies == Selected(named, {i \in DOMAIN named : IsProxyProtocol(named[i].protocol)})
      clean == [i \in DOMAIN proxies |-> SanitizeRawOutbound(proxies[i], TRUE)]
  IN IF \/ proxies = <<>> \/ None \in Range(clean)
        \/ ~UniqueTags(proxies) \/ Tags(proxies) \cap Reserved # {}
     THEN None ELSE clean

(***************************************************************************)
(* Routing rules: conditions by name, and a target.                        *)
(***************************************************************************)
Outbound(tag) == <<"outbound", tag>>
Balancer(tag) == <<"balancer", tag>>

Rule(on, to) == [on |-> on, to |-> to]

Always == [key \in {} |-> {}]

(* safe_provider_route_rules: which of a provider's rules are kept.         *)
SafeProviderRouteRules(profile, proxies, balancers) ==
  LET Safe(rule) ==
        /\ DOMAIN rule.on \cap {"domain", "process", "inbound"} = {}
        /\ DOMAIN rule.on \cap {"protocol", "ip", "port"} # {}
        /\ "ip" \in DOMAIN rule.on => "geoip" \notin rule.on.ip
        /\ rule.to \in {Outbound(t) : t \in {"direct", "block"} \cup Tags(proxies)}
                         \cup {Balancer(t) : t \in Tags(balancers)}
        /\ rule.to = Outbound("direct") /\ "ip" \in DOMAIN rule.on => "lan" \notin rule.on.ip
  IN IF profile = None THEN <<>>
     ELSE Selected(profile.rules, {i \in DOMAIN profile.rules : Safe(profile.rules[i])})

(***************************************************************************)
(* Plans                                                                   *)
(***************************************************************************)

(* The last rule that names a balancer or a proxy says where traffic goes;  *)
(* without one it is some balancer, and without those the first proxy.      *)
Targets(profile, proxies) ==
  LET known == {Balancer(t) : t \in Tags(profile.balancers)}
                 \cup {Outbound(t) : t \in Tags(proxies)}
      naming == {i \in DOMAIN profile.rules : profile.rules[i].to \in known}
  IN IF naming # {} THEN {profile.rules[LastOf(naming)].to}
     ELSE IF profile.balancers # <<>> THEN {Balancer(t) : t \in Tags(profile.balancers)}
     ELSE {Outbound(proxies[1].tag)}

Composite(profile, proxies) ==
  Len(proxies) > 1 \/ profile.balancers # <<>> \/ profile.observatory

Selects(balancer, proxies) == balancer.selects \cap Tags(proxies) # {}

(* build_proxy_outbound, for a location that is one outbound: the JSON it   *)
(* came with, or what its link says. The mark is in the stream settings.    *)
BuildProxyOutbound(server) ==
  IF server.outbound # None THEN SanitizeRawOutbound(server.outbound, FALSE)
  ELSE [tag |-> "proxy", protocol |-> server.protocol, files |-> {}, peers |-> 1,
        marked |-> server.protocol # "wireguard"]

(* outbound_plan and profile_plan: what outbound_plan can return.           *)
OutboundPlans(server) ==
  LET profile == server.profile
      proxies == IF profile = None THEN None ELSE ProviderProxyOutbounds(profile)
      single == BuildProxyOutbound(server)
  IN IF profile # None /\ proxies = None THEN {}
     ELSE IF profile # None /\ Composite(profile, proxies)
     THEN IF \E i \in DOMAIN profile.balancers : ~Selects(profile.balancers[i], proxies)
          THEN {}
          ELSE [proxies: {proxies}, target: Targets(profile, proxies),
                balancers: {profile.balancers}, observatory: {profile.observatory},
                rules: {SafeProviderRouteRules(profile, proxies, profile.balancers)}]
     ELSE IF single = None THEN {}   \* the expect of build_proxy_outbound: a panic
     ELSE {[proxies |-> <<single>>, target |-> Outbound("proxy"), balancers |-> <<>>,
            observatory |-> FALSE,
            rules |-> SafeProviderRouteRules(profile, <<single>>, <<>>)]}

(* validate_server.                                                         *)
ValidateServer(server) ==
  IF server.profile # None THEN OutboundPlans(server) # {}
  ELSE IF server.outbound # None THEN IsProxyProtocol(server.outbound.protocol)
  ELSE server.protocol \in ProxyProtocols /\ server.complete

(***************************************************************************)
(* DNS: the resolvers of a profile that can be reached through the proxy   *)
(* without asking the host's resolver first, or the built-in ones.         *)
(***************************************************************************)

(* Mutated: any address of a profile's resolver will do.                   *)
SafeAddresses_Any(resolver) == resolver.ips

(* safe_provider_dns_address: a literal or bootstrapped public address      *)
(* under a scheme that is not local.                                        *)
SafeAddresses(resolver) ==
  IF resolver.local THEN {} ELSE resolver.ips \ {"lan", "loopback"}

(* build_dns_plan: the addresses the resolvers of the configuration have.   *)
DnsUpstreams(server) ==
  LET kept == IF server.profile = None THEN {}
              ELSE UNION {SafeAddresses(r) : r \in server.profile.resolvers}
  IN IF kept = {} THEN {"resolver"} ELSE kept

(***************************************************************************)
(* The routing rules of the data plane, in their order.                    *)
(***************************************************************************)
If(condition, rules) == IF condition THEN rules ELSE <<>>

(* Mutated: the mode of the applications alone decides for the rest.        *)
DefaultUsesProxy_AppsOnly(split, mode) ==
  IF mode = "proxy" THEN ~split.sitesSelective ELSE ~split.appsSelective

(* Either list in selective mode means that only what it names is tunnelled.*)
DefaultUsesProxy(split, mode) ==
  IF mode = "proxy" THEN ~split.sitesSelective
  ELSE ~(split.appsSelective \/ split.sitesSelective)

(* build_route_rules.                                                       *)
BuildRouteRules(split, allowLan, mode, target, upstreams, provider) ==
  LET Target(usesProxy) == IF usesProxy THEN target ELSE Outbound("direct")
      inbound == IF mode = "proxy" THEN "socks-in" ELSE "tun-in"
  IN << Rule([inbound |-> {inbound}, port |-> {"dns"}], Outbound("dns-out")) >>
     \o If(allowLan, << Rule([ip |-> {"lan", "loopback"}], Outbound("direct")) >>)
     \o If(mode = "tun" /\ split.apps # {},
           << Rule([process |-> split.apps], Target(split.appsSelective)) >>)
     \o If(split.sites # {},
           << Rule([domain |-> split.sites], Target(split.sitesSelective)) >>)
     \o provider
     \o << Rule([ip |-> upstreams], target) >>
     \o << Rule(Always, Target(DefaultUsesProxy(split, mode))) >>

(***************************************************************************)
(* Documents                                                               *)
(***************************************************************************)
ProbePortBase == 1024   \* CONNECTION_PROBE_PORT_BASE
SocksPort == 2081       \* XRAY_SOCKS_PORT, the daemon's PROXY_PORT

SocksIn == <<"socks-in-0", "socks-in-1", "socks-in-2">>

SocksInbound(tag, port) ==
  [tag |-> tag, protocol |-> "socks", listen |-> "127.0.0.1", port |-> port, udp |-> FALSE]

BuildInbound(mode) ==
  IF mode = "proxy"
  THEN [SocksInbound("socks-in", SocksPort) EXCEPT !.udp = TRUE]
  ELSE [tag |-> "tun-in", protocol |-> "tun", name |-> "varmlen0"]

(* Outbounds that are not a provider's.                                     *)
OwnOutbound(tag, protocol, marked) ==
  [tag |-> tag, protocol |-> protocol, files |-> {}, peers |-> 1, marked |-> marked]

(* Mutated: the dials of the direct outbound carry no mark.                 *)
DirectOutbound_Unmarked == OwnOutbound("direct", "freedom", FALSE)

DirectOutbound == OwnOutbound("direct", "freedom", TRUE)

SystemOutbounds ==
  << DirectOutbound, OwnOutbound("dns-out", "dns", FALSE),
     OwnOutbound("block", "blackhole", FALSE) >>

Observing(plan) == IF plan.observatory THEN {"observatory"} ELSE {}

(* build_xray_config: the documents it can produce.                         *)
BuildXrayConfig(server, split, mode, allowLan) ==
  { [sections |-> {"log", "dns", "inbounds", "outbounds", "routing"} \cup Observing(plan),
     inbounds |-> << BuildInbound(mode) >>,
     outbounds |-> plan.proxies \o SystemOutbounds,
     rules |-> BuildRouteRules(split, allowLan, mode, plan.target,
                               DnsUpstreams(server), plan.rules),
     balancers |-> plan.balancers,
     target |-> plan.target, provider |-> plan.rules]   \* the plan, for reference
    : plan \in OutboundPlans(server) }

ProbeConfig(plan, inbounds, rules, balancers, more) ==
  [sections |-> {"log", "inbounds", "outbounds", "routing"} \cup more,
   inbounds |-> inbounds,
   outbounds |-> plan.proxies \o << OwnOutbound("direct", "freedom", FALSE) >>,
   rules |-> rules, balancers |-> balancers]

(* build_ping_config: one inbound for each path.                            *)
BuildPingConfig(server, ports) ==
  { ProbeConfig(plan,
      [i \in DOMAIN ports |-> SocksInbound(SocksIn[i], ports[i])],
      [i \in DOMAIN ports |->
        Rule([inbound |-> {SocksIn[i]}], Outbound(plan.proxies[i].tag))],
      <<>>, {})
    : plan \in {p \in OutboundPlans(server) : Len(p.proxies) = Len(ports)} }

(* ping_placeholder_ports, for a location with this many paths.             *)
PingPlaceholderPorts(count) == [i \in 1..count |-> ProbePortBase + i - 1]

(* Mutated: the preflight goes by the first proxy.                          *)
BuildConnectionProbeConfig_First(server) ==
  { ProbeConfig(plan, << SocksInbound("socks-in-0", ProbePortBase) >>,
      << Rule([inbound |-> {"socks-in-0"}], Outbound(plan.proxies[1].tag)) >>,
      plan.balancers, Observing(plan))
    : plan \in OutboundPlans(server) }

(* build_connection_probe_config: one inbound for the effective target.     *)
BuildConnectionProbeConfig(server) ==
  { ProbeConfig(plan, << SocksInbound("socks-in-0", ProbePortBase) >>,
      << Rule([inbound |-> {"socks-in-0"}], plan.target) >>,
      plan.balancers, Observing(plan))
    : plan \in OutboundPlans(server) }

(* ping_outbound_tag: the path that stands for a balancer.                  *)
PingOutboundTag(plan) ==
  LET named == {i \in DOMAIN plan.balancers : plan.balancers[i].tag = plan.target[2]}
      balancer == Selected(plan.balancers, named)[1]
      chosen == {i \in DOMAIN plan.proxies : plan.proxies[i].tag \in balancer.selects}
  IN CASE plan.target[1] = "outbound" -> plan.target[2]
       [] plan.target[1] = "balancer" /\ balancer.fallback \in Tags(plan.proxies) ->
            balancer.fallback
       [] OTHER -> Selected(plan.proxies, chosen)[1].tag

(* build_legacy_ping_config: one path, for a daemon of an earlier version.  *)
BuildLegacyPingConfig(server, port) ==
  { ProbeConfig(plan, << SocksInbound("socks-in", port) >>,
      << Rule(Always, Outbound(PingOutboundTag(plan))) >>, <<>>, {})
    : plan \in OutboundPlans(server) }
=============================================================================
