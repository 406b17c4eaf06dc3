---------------------------- MODULE XrayDocument ----------------------------
(***************************************************************************)
(* daemon/src/system.rs: which Xray documents the daemon runs for a        *)
(* client. The daemon is root and the client is not, so it does not take   *)
(* the client's word for a document: it checks every part it relies on.    *)
(***************************************************************************)
EXTENDS Xray

CONSTANT MaxServerIps   \* MAX_SERVER_IPS, 64 in the code

ASSUME DocumentAssumption ==
  MaxServerIps \in Nat \ {0} /\ \A i \in 1..MaxServerIps : DefaultTags[i] # ""

(* contains_forbidden_file_key, anywhere in the document.                   *)
ContainsForbiddenFileKey(document) ==
  \E i \in DOMAIN document.outbounds :
    document.outbounds[i].files \cap {"keyFile", "certificatePath"} # {}

(* inbound_by_tag and the checks on the one data inbound.                   *)
DataInboundIsPermitted(inbounds, mode) ==
  /\ Len(inbounds) = 1
  /\ IF mode = "tun"
     THEN /\ inbounds[1].tag = "tun-in" /\ inbounds[1].protocol = "tun"
          /\ inbounds[1].name = "varmlen0"
     ELSE /\ inbounds[1].tag = "socks-in" /\ inbounds[1].protocol = "socks"
          /\ inbounds[1].listen = "127.0.0.1" /\ inbounds[1].port = SocksPort

(* The outbounds of the data plane: proxies under their own names and the   *)
(* three of the system, nothing else.                                       *)
OutboundSetIsPermitted(outbounds) ==
  LET proxies == {i \in DOMAIN outbounds : outbounds[i].protocol \in ProxyProtocols}
      Own(tag, protocol) ==
        {i \in DOMAIN outbounds : outbounds[i].tag = tag /\ outbounds[i].protocol = protocol}
  IN /\ UniqueTags(outbounds) /\ "" \notin Tags(outbounds)
     /\ Cardinality(proxies) \in 1..MaxServerIps /\ Len(outbounds) = Cardinality(proxies) + 3
     /\ Cardinality(Own("direct", "freedom")) = 1 /\ Cardinality(Own("dns-out", "dns")) = 1
     /\ Cardinality(Own("block", "blackhole")) = 1

(* validate_xray_document.                                                  *)
ValidateXrayDocument(document, mode) ==
  /\ document.sections \subseteq {"log", "dns", "inbounds", "outbounds", "routing",
                                 "observatory", "burstObservatory"}
  /\ {"log", "inbounds", "outbounds", "dns", "routing"} \subseteq document.sections
  /\ DataInboundIsPermitted(document.inbounds, mode)
  /\ OutboundSetIsPermitted(document.outbounds)
  /\ ~ContainsForbiddenFileKey(document)

(* One loopback inbound for each requested port, under its name.            *)
PingInboundsArePermitted(inbounds, ports) ==
  /\ Len(inbounds) = Len(ports)
  /\ \A i \in DOMAIN ports :
       /\ \/ inbounds[i].tag = SocksIn[i]
          \/ Len(ports) = 1 /\ inbounds[i].tag = "socks-in"
       /\ inbounds[i].protocol = "socks" /\ inbounds[i].listen = "127.0.0.1"
       /\ inbounds[i].port = ports[i] /\ ~inbounds[i].udp

(* The outbounds of a ping but the last.                                    *)
Paths(outbounds) == [i \in 1..Len(outbounds) - 1 |-> outbounds[i]]

(* Proxies whose dials carry the mark, and the direct outbound last.        *)
PingOutboundsArePermitted(outbounds) ==
  /\ Len(outbounds) \in 2..MaxServerIps + 1
  /\ outbounds[Len(outbounds)].tag = "direct"
  /\ outbounds[Len(outbounds)].protocol = "freedom"
  /\ UniqueTags(Paths(outbounds)) /\ "" \notin Tags(Paths(outbounds))
  /\ \A i \in DOMAIN Paths(outbounds) :
       /\ outbounds[i].protocol \in ProxyProtocols
       /\ outbounds[i].protocol = "wireguard" \/ outbounds[i].marked

BalancersArePermitted(balancers, proxies) ==
  /\ Len(balancers) <= MaxServerIps
  /\ UniqueTags(balancers) /\ "" \notin Tags(balancers)
  /\ \A i \in DOMAIN balancers : Selects(balancers[i], proxies)

(* One rule for each inbound, to a proxy or a balancer of the document.     *)
PingRulesArePermitted(document, ports) ==
  /\ Len(document.rules) = Len(ports)
  /\ \A i \in DOMAIN ports :
       LET rule == document.rules[i]
       IN /\ IF "inbound" \in DOMAIN rule.on
             THEN rule.on.inbound = {document.inbounds[i].tag} ELSE Len(ports) = 1
          /\ rule.to \in {Outbound(t) : t \in Tags(Paths(document.outbounds))}
                            \cup {Balancer(t) : t \in Tags(document.balancers)}

(* validate_ping_xray_document.                                             *)
ValidatePingXrayDocument(document, ports) ==
  /\ document.sections \subseteq {"log", "inbounds", "outbounds", "routing",
                                 "observatory", "burstObservatory"}
  /\ {"log", "inbounds", "outbounds", "routing"} \subseteq document.sections
  /\ PingInboundsArePermitted(document.inbounds, ports)
  /\ PingOutboundsArePermitted(document.outbounds)
  /\ BalancersArePermitted(document.balancers, Paths(document.outbounds))
  /\ PingRulesArePermitted(document, ports)
  /\ ~ContainsForbiddenFileKey(document)

(* validation_config_ports: None for an error.                              *)
ValidationConfigPorts(document) ==
  IF Len(document.inbounds) \in 1..MaxServerIps
       /\ \A i \in DOMAIN document.inbounds : document.inbounds[i].port >= 1024
  THEN [i \in DOMAIN document.inbounds |-> document.inbounds[i].port]
  ELSE None

(* validation_config_with_ports: the template with the daemon's own ports.  *)
ValidationConfigWithPorts(document, ports) ==
  IF /\ Len(ports) \in 1..MaxServerIps /\ IsInjective(ports)
     /\ \A i \in DOMAIN ports : ports[i] >= 1024
     /\ Len(document.inbounds) = Len(ports)
  THEN [document EXCEPT !.inbounds =
         [i \in DOMAIN ports |-> [document.inbounds[i] EXCEPT !.port = ports[i]]]]
  ELSE None

(* run_proxy_ping up to the first start: the template as it came, and again *)
(* with the ports the daemon reserved.                                      *)
PingIsAccepted(document, asked, reserved) ==
  /\ ValidatePingXrayDocument(document, asked)
  /\ ValidationConfigWithPorts(document, reserved) # None
  /\ ValidatePingXrayDocument(ValidationConfigWithPorts(document, reserved), reserved)

(* SystemLifecycleBackend::validate, of both documents of a connect.        *)
ConnectIsAccepted(document, preflight, mode, reserved) ==
  /\ ValidateXrayDocument(document, mode)
  /\ ValidationConfigPorts(preflight) # None
  /\ PingIsAccepted(preflight, ValidationConfigPorts(preflight), reserved)
=============================================================================
