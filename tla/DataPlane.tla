----------------------------- MODULE DataPlane ------------------------------
(***************************************************************************)
(* From the location a user chooses to where a packet leaves the host. The *)
(* client writes two Xray documents (Xray), the daemon checks them         *)
(* (XrayDocument) and lays its layers (PacketFilter). A packet the layers  *)
(* send into the tunnel is routed by Xray, and Xray's own dial passes the  *)
(* same layers with the mark its outbound gives it.                        *)
(***************************************************************************)
EXTENDS PacketFilter, XrayDocument

CONSTANTS
  Offers,     \* bound: what a user may connect with
  Port        \* a port the daemon reserves for the preflight

IsList(s) == s \in Seq(Range(s))

IsOutbound(o) ==
  DOMAIN o = {"tag", "protocol", "files", "peers", "marked"} /\ o.peers \in Nat

(* A profile's outbounds, rules and balancers come as JSON arrays, and its  *)
(* first proxy is the location's outbound (subscription.rs:390-391). "net"  *)
(* is the class of the addresses that no list of the profile names.         *)
IsServer(server) ==
  /\ server.outbound # None => IsOutbound(server.outbound)
  /\ server.profile # None =>
       /\ server.outbound # None /\ \A r \in server.profile.resolvers : "net" \notin r.ips
       /\ IsList(server.profile.outbounds) /\ IsList(server.profile.rules)
       /\ IsList(server.profile.balancers)
       /\ \A i \in DOMAIN server.profile.outbounds : IsOutbound(server.profile.outbounds[i])

ASSUME OffersAssumption ==
  /\ Port \in Nat /\ Port >= 1024
  /\ \A choice \in Offers :
       /\ IsServer(choice.server) /\ choice.mode \in {"tun", "proxy"}
       /\ choice.split.appsSelective \in BOOLEAN /\ choice.split.sitesSelective \in BOOLEAN

VARIABLES
  request,    \* what the client sends: None, or the choice and its documents
  plane,      \* what Xray runs with: None, or the choice and the document
  conn,       \* the flow as Xray sees it: the process, the site, the protocol
  exit        \* what Xray did with the flow's last packet

vars == <<allowLan, stage, flow, ct, out, request, plane, conn, exit>>

Conns == [process: {"listed", "other"}, domain: {"listed", "other"},
          protocol: {"web", "bittorrent"}]

NoConn == [process |-> "other", domain |-> "other", protocol |-> "web"]
NoFlow == [who |-> "nobody", dst |-> "loopback", port |-> "web"]

Init ==
  /\ allowLan \in BOOLEAN /\ stage = "off" /\ flow = NoFlow /\ ct = NoMark
  /\ out = "none" /\ request = None /\ plane = None /\ conn = NoConn /\ exit = "none"

(***************************************************************************)
(* The client and the daemon                                               *)
(***************************************************************************)

(* connect: the location is validated and both documents are written, each  *)
(* from a plan of its own; without a plan the client ends there.            *)
Choose(choice) ==
  LET documents == BuildXrayConfig(choice.server, choice.split, choice.mode, allowLan)
      preflights == BuildConnectionProbeConfig(choice.server)
  IN /\ stage = "off" /\ request = None /\ ValidateServer(choice.server)
     /\ request' \in [choice: {choice},
                      document: IF documents = {} THEN {None} ELSE documents,
                      preflight: IF documents = {} THEN {None} ELSE preflights]
     /\ UNCHANGED <<allowLan, stage, flow, ct, out, plane, conn, exit>>

Accepted(r) ==
  /\ r.document # None
  /\ ConnectIsAccepted(r.document, r.preflight, r.choice.mode, <<Port>>)

(* The daemon refuses the documents, or the mode needs no tunnel device.    *)
Refuse ==
  /\ request # None /\ (~Accepted(request) \/ request.choice.mode = "proxy")
  /\ request' = None
  /\ UNCHANGED <<allowLan, stage, flow, ct, out, plane, conn, exit>>

Connect ==
  /\ request # None /\ Accepted(request) /\ request.choice.mode = "tun"
  /\ plane' = [split |-> request.choice.split, document |-> request.document,
               upstreams |-> DnsUpstreams(request.choice.server)]
  /\ request' = None /\ exit' = "none"
  /\ FilterRelayer("hold") /\ UNCHANGED conn

(* The other layers come and go; without any the choice is open again.      *)
Relayer ==
  \E to \in Stages :
    /\ plane # None /\ FilterRelayer(to)
    /\ plane' = IF to = "off" THEN None ELSE plane
    /\ exit' = "none" /\ UNCHANGED <<request, conn>>

(***************************************************************************)
(* Packets                                                                 *)
(***************************************************************************)

(* excluded_apps: the listed applications, unless they are a whitelist.     *)
Sender(c) ==
  IF c.process \in plane.split.apps /\ ~plane.split.appsSelective
  THEN "excluded" ELSE "app"

(* A flow of some application begins, and ends with its connection entry.   *)
NewFlow ==
  /\ plane # None /\ flow = NoFlow
  /\ \E f \in Flows, c \in Conns :
       f.who = Sender(c) /\ FilterNewFlow(f) /\ conn' = c
  /\ exit' = "none" /\ UNCHANGED <<request, plane>>

EndFlow ==
  /\ plane # None /\ flow # NoFlow
  /\ FilterNewFlow(NoFlow) /\ conn' = NoConn
  /\ exit' = "none" /\ UNCHANGED <<request, plane>>

(* Xray: the first rule whose every condition holds of the connection.      *)
Matches(rule, c) == \A key \in DOMAIN rule.on : key \in DOMAIN c /\ c[key] \in rule.on[key]

Route(rules, c) ==
  rules[FirstOf({i \in DOMAIN rules : Matches(rules[i], c)})].to

(* The connection that comes out of the tunnel device for a flow.           *)
Inner(f, c) ==
  [inbound |-> "tun-in", port |-> f.port, ip |-> f.dst,
   process |-> c.process, domain |-> c.domain, protocol |-> c.protocol]

(* A connection of Xray's own DNS module has no inbound, process or site.   *)
Upstream(ip) == [ip |-> ip, port |-> "web", protocol |-> "web"]

(* Where a dial with or without the mark goes; a packet without it is an    *)
(* ordinary one to the layers.                                              *)
Dial(marked, dst, port, name) ==
  LET f == [who |-> IF marked THEN "xray" ELSE "app", dst |-> dst, port |-> port]
  IN CASE Fate(f) = "tun" -> "loop"
       [] Fate(f) \in {"phys", "lo"} -> name
       [] OTHER -> Fate(f)

(* The outbounds a target may use, and what their dials reach: the endpoint *)
(* the routes except from the tunnel is the first one of an outbound.       *)
Exits(document, to) ==
  LET byTag(tags) == {document.outbounds[i] :
                       i \in {k \in DOMAIN document.outbounds : document.outbounds[k].tag \in tags}}
      used == IF to[1] = "outbound" THEN byTag({to[2]})
              ELSE byTag(UNION {document.balancers[i].selects \cup {document.balancers[i].fallback} :
                     i \in {k \in DOMAIN document.balancers : document.balancers[k].tag = to[2]}})
  IN UNION { CASE o.protocol = "freedom" -> {Dial(o.marked, flow.dst, flow.port, "direct")}
               [] o.protocol = "dns" -> {"resolver"}
               [] o.protocol = "blackhole" -> {"blocked"}
               [] OTHER ->
                    {Dial(o.marked, IF peer = 1 THEN "server" ELSE "net", "web", "proxied") :
                      peer \in 1..o.peers}
             : o \in used }

Send ==
  /\ plane # None /\ flow # NoFlow /\ FilterSend
  /\ exit' \in IF Fate(flow) = "tun"
               THEN Exits(plane.document, Route(plane.document.rules, Inner(flow, conn)))
               ELSE {"none"}
  /\ UNCHANGED <<request, plane, conn>>

Next == (\E choice \in Offers : Choose(choice)) \/ Refuse \/ Connect \/ Relayer 
        \/ NewFlow \/ EndFlow \/ Send

Spec == Init /\ [][Next]_vars

(***************************************************************************)
(* Properties                                                              *)
(***************************************************************************)

(* A location the generator and the daemon have the same idea of: protocol  *)
(* names as they are written, no file of this host, balancers under names   *)
(* of their own, no more paths or balancers than the daemon takes.          *)
Ordinary(server) ==
  /\ server.profile # None =>
       /\ Len(server.profile.outbounds) <= MaxServerIps
       /\ Len(server.profile.balancers) <= MaxServerIps
       /\ UniqueTags(server.profile.balancers) /\ "" \notin Tags(server.profile.balancers)
       /\ \A i \in DOMAIN server.profile.outbounds :
            LET o == server.profile.outbounds[i] IN o.files = {} /\ o.protocol # "VLESS"
  /\ server.outbound # None => server.outbound.files = {} /\ server.outbound.protocol # "VLESS"

(* Every document the client writes for an ordinary location that passed    *)
(* validate_server, the data plane's, the preflight's and the pings', is    *)
(* one the daemon accepts, as it came and with the daemon's own ports: the  *)
(* two crates hold the same contract (xray.rs:1474-1692, system.rs:1351).   *)
GeneratedIsAccepted ==
  request # None /\ Ordinary(request.choice.server) =>
    LET server == request.choice.server
        paths == Len(request.document.outbounds) - 3
        asked == PingPlaceholderPorts(paths)
        reserved == [i \in 1..paths |-> Port + i]
    IN /\ Accepted(request)
       /\ \A d \in BuildPingConfig(server, asked) : PingIsAccepted(d, asked, reserved)
       /\ \A d \in BuildLegacyPingConfig(server, Port) : PingIsAccepted(d, <<Port>>, <<Port>>)

(* The preflight of a connect goes where the tunnel will send its traffic,  *)
(* for a profile that names its target in a rule or has no more than one    *)
(* balancer (xray.rs:1625-1629). Of several balancers that no rule names    *)
(* each document takes any.                                                 *)
PreflightFollowsTarget ==
  request # None /\ request.document # None =>
    LET profile == request.choice.server.profile
    IN (profile # None => \/ Len(profile.balancers) <= 1
                          \/ \E i \in DOMAIN profile.rules :
                               profile.rules[i].to \in {Balancer(t) : t \in Tags(profile.balancers)})
       => request.preflight.rules[1].to = request.document.target

(* With the tunnel up, an application's connection to the internet leaves   *)
(* the host in the clear exactly when the split says so: its application is *)
(* listed as an exception, or its site is and its application is not        *)
(* listed, or neither is listed and some list is a whitelist                *)
(* (xray.rs:1351-1364, main.rs:486-493). Connections that a provider's rule *)
(* names are the provider's, and so are those of a balancer that takes an   *)
(* outbound of the system for a proxy; a socket that an earlier split       *)
(* marked keeps its mark.                                                   *)
LeavesAsAsked ==
  /\ plane # None /\ stage \in Guarded /\ out # "none"
  /\ flow.dst = "net" /\ flow.port = "web"
  /\ flow.who = "excluded" => Sender(conn) = "excluded"
  /\ \A i \in DOMAIN plane.document.provider :
       ~Matches(plane.document.provider[i], Inner(flow, conn))
  /\ \A i \in DOMAIN plane.document.balancers :
       (plane.document.balancers[i].selects \cup {plane.document.balancers[i].fallback})
         \cap Reserved = {}
  => LET split == plane.split
         keptOut == CASE conn.process \in split.apps -> ~split.appsSelective
                      [] conn.process \notin split.apps /\ conn.domain \in split.sites ->
                           ~split.sitesSelective
                      [] OTHER -> split.appsSelective \/ split.sitesSelective
     IN (out = "phys" \/ exit = "direct") <=> keptOut

(* No dial of Xray's comes back into the tunnel: it is marked, or it goes   *)
(* to an endpoint that the routes keep out (xray.rs:279-284, 1071-1084).    *)
(* A WireGuard outbound carries no mark and the routes know its first peer  *)
(* only, so an outbound with more peers is left out.                        *)
DialsEscape ==
  exit = "loop" =>
    \E i \in DOMAIN plane.document.outbounds :
      ~plane.document.outbounds[i].marked /\ plane.document.outbounds[i].peers > 1

(* Xray's DNS module reaches its resolvers by the location's own target in  *)
(* every mode of the split, unless a rule of the provider's names them      *)
(* (xray.rs:1436-1446).                                                     *)
ResolverThroughProxy ==
  plane # None =>
    \A ip \in plane.upstreams :
      \/ Route(plane.document.rules, Upstream(ip)) = plane.document.target
      \/ \E i \in DOMAIN plane.document.provider :
           Matches(plane.document.provider[i], Upstream(ip))
=============================================================================
