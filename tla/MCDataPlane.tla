---------------------------- MODULE MCDataPlane -----------------------------
(* Locations of every kind the generator tells apart, with one split, and a  *)
(* few locations with every split. Every class of packet is there.           *)
EXTENDS DataPlane, FiniteSetsExt

O(tag, protocol, files, peers) ==
  [tag |-> tag, protocol |-> protocol, files |-> files, peers |-> peers, marked |-> FALSE]

Outbounds ==
  {O(tag, protocol, files, peers) :
    tag \in {"", "a", "direct"}, protocol \in {"vless", "VLESS", "wireguard", "freedom"},
    files \in {{}, {"keyFile"}, {"certificatePath"}}, peers \in {1, 2}}

Others == {O("a", "vless", {}, 1), O("b", "wireguard", {}, 1), O("", "hysteria", {}, 1)}

P(outbounds, rules, balancers, observatory, resolvers) ==
  [outbounds |-> outbounds, rules |-> rules, balancers |-> balancers,
   observatory |-> observatory, resolvers |-> resolvers]

B(tag, selects, fallback) == [tag |-> tag, selects |-> selects, fallback |-> fallback]

Resolver(ips, local) == [ips |-> ips, local |-> local]

Two == << O("a", "vless", {}, 1), O("b", "wireguard", {}, 1) >>

RuleLists ==
  { <<>>, << Rule([ip |-> {"dns"}], Outbound("direct")) >>,
    << Rule([ip |-> {"lan"}], Outbound("direct")), Rule([protocol |-> {"bittorrent"}], Outbound("block")) >>,
    << Rule([domain |-> {"listed"}], Outbound("direct")), Rule([ip |-> {"geoip"}], Outbound("b")) >>,
    << Rule([port |-> {"dot"}], Outbound("a")), Rule([network |-> {"tcp"}], Balancer("y")) >> }

BalancerLists ==
  { <<>>, << B("y", {"a", "b"}, "") >>, << B("x", {"a"}, "b"), B("y", {"b"}, "") >>,
    << B("y", {"a"}, ""), B("y", {"b"}, "") >>, << B("y", {"c"}, "") >>, << B("", {"a"}, "") >> }

ResolverSets ==
  { {}, {Resolver({"dns"}, FALSE)}, {Resolver({"lan", "loopback"}, FALSE), Resolver({"dns"}, TRUE)} }

Profiles ==
  {P(<<o>>, <<>>, <<>>, seen, {}) : o \in Outbounds, seen \in BOOLEAN}
  \cup {P(<<o, other>>, <<>>, <<>>, FALSE, {}) : o \in Outbounds, other \in Others}
  \cup {P(<<o>> \o Two, <<>>, <<>>, FALSE, {}) : o \in {O("c", "vless", {}, 1), O("c", "freedom", {}, 1)}}

Mixed ==
  {P(Two, rules, balancers, FALSE, resolvers) :
    rules \in RuleLists, balancers \in BalancerLists, resolvers \in ResolverSets}

Location(profile, outbound, protocol, complete) ==
  [profile |-> profile, outbound |-> outbound, protocol |-> protocol, complete |-> complete]

(* A profile is a location only with a proxy outbound under its own name.   *)
Profiled(profiles) ==
  UNION {{Location(p, p.outbounds[Min(own)], "", TRUE) :
           own \in {{i \in DOMAIN p.outbounds : p.outbounds[i].protocol \in ProxyProtocols}} \ {{}}}
         : p \in profiles}

Wide ==
  Profiled(Profiles \cup Mixed)
  \cup {Location(None, o, "", TRUE) : o \in {q \in Outbounds : q.protocol \in ProxyProtocols}}
  \cup {Location(None, None, protocol, complete) :
         protocol \in {"vless", "wireguard", "other"}, complete \in BOOLEAN}

Narrow ==
  {Location(None, None, "vless", TRUE)}
  \cup Profiled({P(Two, << Rule([ip |-> {"dns"}], Outbound("direct")),
                           Rule([protocol |-> {"bittorrent"}], Outbound("block")) >>,
                   << B("y", {"a", "b"}, "") >>, FALSE, {Resolver({"dns", "lan", "loopback"}, FALSE)}),
                 P(Two, <<>>, << B("y", {"a", "direct"}, "block") >>, FALSE, {}),
                 P(<<O("w", "wireguard", {}, 2)>>, <<>>, <<>>, TRUE, {})})

Splits ==
  [apps: {{}, {"listed"}}, sites: {{}, {"listed"}},
   appsSelective: BOOLEAN, sitesSelective: BOOLEAN]

NoSplit == [apps |-> {}, sites |-> {}, appsSelective |-> FALSE, sitesSelective |-> FALSE]

Offer(server, split, mode) == [server |-> server, split |-> split, mode |-> mode]

MCDefaultTags == <<"proxy", "proxy-2", "proxy-3">>

MCOffers ==
  {Offer(s, NoSplit, mode) : s \in Wide, mode \in {"proxy"}}
  \cup {Offer(s, split, "tun") : s \in Narrow, split \in Splits}
=============================================================================
