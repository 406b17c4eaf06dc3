--------------------------- MODULE DataPlaneProofs ---------------------------
(***************************************************************************)
(* What the packet filter lets through, and where Xray sends what it       *)
(* routes, for every location, split and list a user may connect with:     *)
(* profiles of any number of outbounds, rules, balancers and resolvers.    *)
(***************************************************************************)
EXTENDS DataPlane, FiniteSetTheorems, WellFoundedInduction, TLAPS

(***************************************************************************)
(* Lists                                                                   *)
(***************************************************************************)

(* A set of numbers that is not empty has a least element.                   *)
LEMMA Least ==
  ASSUME NEW T \in SUBSET Nat, T # {}
  PROVE  \E x \in T : \A y \in T : x <= y
<1>1. PICK x \in T : \A y \in T : <<y, x>> \notin OpToRel(<, Nat)
  BY WFMin, NatLessThanWellFounded, Zenon
<1>2. \A y \in T : ~(y < x)
  BY Zenon, <1>1 DEF OpToRel
<1> QED BY <1>2

(* A set of positions that is not empty has a last one.                      *)
LEMMA LastIs ==
  ASSUME NEW n \in Nat, NEW T \in SUBSET (1..n), T # {}
  PROVE  LastOf(T) \in T
<1> DEFINE gaps == {n - i : i \in T}
<1>1. gaps \in SUBSET Nat /\ gaps # {}
  <2>1. \A i \in T : n - i \in Nat
    OBVIOUS
  <2> QED BY Zenon, <2>1
<1>2. PICK g \in gaps : \A h \in gaps : g <= h
  <2> HIDE DEF gaps
  <2> QED BY <1>1, Least
<1>3. PICK i \in T : g = n - i
  BY <1>2
<1>4. ASSUME NEW j \in T PROVE j <= i
  <2>1. n - j \in gaps
    BY <1>4
  <2>2. n - i <= n - j
    BY <1>2, <1>3, <2>1
  <2>3. i \in Nat /\ j \in Nat
    BY <1>3, <1>4
  <2> QED BY <2>2, <2>3
<1> QED BY Zenon, <1>3, <1>4 DEF LastOf

(* The first of a set of positions that has a first one.                     *)
LEMMA FirstIs ==
  ASSUME NEW hits \in SUBSET Nat, NEW n \in hits, \A j \in hits : n <= j
  PROVE  FirstOf(hits) = n
<1>1. \A m \in hits : (\A j \in hits : m <= j) => m = n
  OBVIOUS
<1> QED BY Zenon, <1>1 DEF FirstOf

(* A choice of positions has, for each number up to its size, the position   *)
(* that is that far in.                                                      *)
LEMMA Ranks ==
  ASSUME NEW n \in Nat, NEW kept \in SUBSET (1..n), NEW k \in 1..Cardinality(kept)
  PROVE  \E i \in kept : Cardinality({j \in kept : j <= i}) = k
<1> DEFINE Upto(i) == {j \in kept : j <= i}
           Bad == {m \in 1..Cardinality(kept) : \A i \in kept : Cardinality(Upto(i)) # m}
<1>0. IsFiniteSet(kept) /\ Cardinality(kept) \in Nat /\ kept \subseteq Nat
  <2>1. IsFiniteSet(1..n)
    BY FS_Interval
  <2>2. IsFiniteSet(kept)
    BY Zenon, <2>1, FS_Subset
  <2>3. Cardinality(kept) \in Nat
    BY <2>2, FS_CardinalityType
  <2>4. kept \subseteq Nat
    OBVIOUS
  <2> QED BY <2>2, <2>3, <2>4
<1> SUFFICES ASSUME Bad # {} PROVE FALSE
  BY Zenon
<1>1. PICK m \in Bad : \A x \in Bad : m <= x
  <2>1. Bad \in SUBSET Nat
    BY <1>0
  <2> HIDE DEF Bad
  <2> QED BY <2>1, Least
<1>2. m \in Nat /\ m >= 1 /\ m <= Cardinality(kept) /\ \A i \in kept : Cardinality(Upto(i)) # m
  BY <1>0, <1>1
<1>3. \A i \in kept : IsFiniteSet(Upto(i))
  BY <1>0, FS_Subset
<1>4. PICK below \in SUBSET kept :
        /\ IsFiniteSet(below) /\ Cardinality(below) = m - 1
        /\ \A j \in below, i \in kept \ below : j <= i
  <2>1. CASE m = 1
    <3>1. IsFiniteSet({}) /\ Cardinality({}) = m - 1
      BY <2>1, FS_EmptySet
    <3> QED BY <3>1
  <2>2. CASE m # 1
    <3>1. m - 1 \in 1..Cardinality(kept) /\ m - 1 \notin Bad
      BY <1>0, <1>1, <1>2, <2>2
    <3>2. PICK i \in kept : Cardinality(Upto(i)) = m - 1
      BY Zenon, <3>1
    <3>3. \A j \in Upto(i), x \in kept \ Upto(i) : j <= x
      BY <1>0, <3>2
    <3> HIDE DEF Upto
    <3>4. Upto(i) \in SUBSET kept
      BY DEF Upto
    <3> QED BY <1>3, <3>2, <3>3, <3>4
  <2> QED BY <2>1, <2>2
<1>5. kept \ below # {}
  <2> SUFFICES ASSUME kept \ below = {} PROVE FALSE
    OBVIOUS
  <2>1. below = kept
    BY Zenon, <1>4
  <2>2. Cardinality(kept) = m - 1
    BY <1>4, <2>1
  <2> QED BY <1>0, <1>2, <2>2
<1>6. PICK i \in kept \ below : \A x \in kept \ below : i <= x
  <2>1. kept \ below \in SUBSET Nat
    BY <1>0
  <2> QED BY Zenon, <1>5, <2>1, Least
<1>7. Upto(i) = below \cup {i}
  <2>1. ASSUME NEW j \in Upto(i) PROVE j \in below \cup {i}
    <3>1. j \in kept /\ j <= i /\ j \in Nat /\ i \in Nat
      BY <1>0, <1>6, <2>1
    <3>2. CASE j \notin below
      <4>1. i <= j
        BY <1>6, <3>1, <3>2
      <4> QED BY <3>1, <4>1
    <3> QED BY <3>2
  <2>2. below \subseteq Upto(i) /\ i \in Upto(i)
    BY <1>0, <1>4, <1>6
  <2> QED BY Zenon, <2>1, <2>2
<1>8. Cardinality(below \cup {i}) = m
  BY <1>2, <1>4, <1>6, FS_AddElement
<1> QED BY <1>2, <1>6, <1>7, <1>8

(* A list of elements of any set is one of its own elements.                 *)
LEMMA ListOfIsList ==
  ASSUME NEW S, NEW s \in Seq(S)
  PROVE  IsList(s)
<1>1. /\ Len(s) \in Nat /\ DOMAIN s = 1..Len(s) /\ s = [i \in DOMAIN s |-> s[i]]
      /\ \A i \in DOMAIN s : s[i] \in Range(s)
  BY DEF Range
<1> QED BY <1>1 DEF IsList

(* What is selected from a list is a list of elements of it.                 *)
LEMMA SelectedIsList ==
  ASSUME NEW list, IsList(list), NEW kept \in SUBSET DOMAIN list
  PROVE  /\ Selected(list, kept) \in Seq(Range(list))
         /\ \A k \in DOMAIN Selected(list, kept) :
              \E i \in kept : Selected(list, kept)[k] = list[i]
<1> DEFINE at(k) == CHOOSE i \in kept : Cardinality({j \in kept : j <= i}) = k
<1>1. DOMAIN list = 1..Len(list) /\ Len(list) \in Nat
  BY DEF IsList
<1>2. Cardinality(kept) \in Nat
  <2>1. IsFiniteSet(1..Len(list))
    BY <1>1, FS_Interval
  <2> QED BY <1>1, <2>1, FS_Subset, FS_CardinalityType
<1>3. \A k \in 1..Cardinality(kept) : at(k) \in kept
  BY Zenon, <1>1, Ranks
<1>4. Selected(list, kept) = [k \in 1..Cardinality(kept) |-> list[at(k)]]
  BY DEF Selected
<1> HIDE DEF at
<1>5. \A k \in 1..Cardinality(kept) : list[at(k)] \in Range(list)
  BY <1>3 DEF Range
<1>6. Selected(list, kept) \in Seq(Range(list))
  BY <1>2, <1>4, <1>5
<1> QED BY <1>3, <1>4, <1>6

(***************************************************************************)
(* The chains of the packet filter                                         *)
(***************************************************************************)

(* An ordinary application's packet that leaves by the physical interface    *)
(* carries no mark of its own.                                               *)
LEMMA PlainMark ==
  ASSUME NEW f, f.who = "app", Oif(f) = "phys"
  PROVE  Mark(f) = NoMark /\ CtMark(f) = ct
<1>1. SocketMark(f) = NoMark
  BY DEF SocketMark
<1>2. ~MarksDns(f)
  <2> SUFFICES ASSUME MarksDns(f) PROVE FALSE
    OBVIOUS
  <2>1. Mark(f) = DnsMark /\ f.dst # "loopback" /\ stage \in Routed
    BY DEF Mark, MarksDns, Guarded, Routed
  <2>2. Oif(f) = "tun"
    BY <2>1 DEF Oif
  <2> QED BY <2>2
<1> QED BY <1>1, <1>2 DEF Mark, CtMark

(* The hold block's chain: what it lets an ordinary application send by the  *)
(* physical interface on a connection without a mark.                        *)
LEMMA KillswitchIsTight ==
  ASSUME NEW f, f.who = "app", Oif(f) = "phys",
         ct \notin {DnsMark, DialMark, BypassMark},
         ~ \/ f.dst = "server"
           \/ f.dst = "resolver" /\ f.port \in {"dns", "web"}
           \/ f.dst = "lan" /\ allowLan /\ f.port # "dns"
  PROVE  Verdict(KillswitchRules(f), "drop") = "drop"
<1> DEFINE rules == KillswitchRules(f)
           hits == {i \in DOMAIN rules : rules[i].match}
<1>0. Mark(f) = NoMark /\ CtMark(f) = ct
  BY PlainMark
<1>1. /\ Mark(f) \notin {DnsMark, DialMark, BypassMark}
      /\ CtMark(f) \notin {DnsMark, DialMark, BypassMark}
  BY <1>0 DEF NoMark, DnsMark, DialMark, BypassMark
<1>2. DOMAIN rules = 1..7
  BY DEF KillswitchRules
<1>3. /\ ~rules[1].match /\ ~rules[2].match /\ ~rules[3].match /\ ~rules[4].match
      /\ ~rules[5].match
  BY Zenon, <1>1 DEF KillswitchRules, On
<1>4. rules[7].match => rules[6].match
  BY Zenon DEF KillswitchRules, On
<1>5. rules[6].verdict = "drop"
  BY DEF KillswitchRules, On
<1> HIDE DEF rules
<1>6. hits \in SUBSET Nat /\ hits \subseteq {6, 7}
  BY <1>2, <1>3
<1>7. CASE hits = {}
  BY <1>7 DEF Verdict, rules
<1>8. CASE hits # {}
  <2>1. 6 \in hits
    BY <1>2, <1>4, <1>6, <1>8
  <2>2. \A j \in hits : 6 <= j
    BY <1>6
  <2> HIDE DEF hits
  <2>3. FirstOf(hits) = 6
    BY <1>6, <2>1, <2>2, FirstIs
  <2> QED BY <1>5, <1>8, <2>3 DEF Verdict, rules, hits
<1> QED BY <1>7, <1>8

(* The DNS rules' chain: no DNS of an ordinary application passes it by the  *)
(* physical interface.                                                       *)
LEMMA DnsGuardIsTight ==
  ASSUME NEW f, f.who = "app", Oif(f) = "phys", f.port \in {"dns", "dot"}
  PROVE  Verdict(DnsGuardRules(f), "accept") = "reject"
<1> DEFINE rules == DnsGuardRules(f)
           hits == {i \in DOMAIN rules : rules[i].match}
<1>1. Mark(f) # DnsMark /\ Mark(f) # BypassMark
  BY PlainMark DEF NoMark, DnsMark, BypassMark
<1>2. DOMAIN rules = 1..5
  BY DEF DnsGuardRules
<1>3. ~rules[1].match /\ ~rules[2].match /\ ~rules[3].match /\ ~rules[4].match
  BY Zenon, <1>1 DEF DnsGuardRules, On
<1>4. rules[5].match /\ rules[5].verdict = "reject"
  BY Zenon DEF DnsGuardRules, On
<1> HIDE DEF rules
<1>5. hits \in SUBSET Nat /\ hits = {5}
  BY <1>2, <1>3, <1>4
<1> HIDE DEF hits
<1>6. FirstOf(hits) = 5
  BY <1>5, FirstIs
<1> QED BY <1>4, <1>5, <1>6 DEF Verdict, rules, hits

(***************************************************************************)
(* The layers as they come and go                                          *)
(***************************************************************************)

(* Why the two chains are enough: the mark that lets a connection past the   *)
(* hold block is given to an ordinary application for its DNS only.          *)
FilterInv ==
  /\ flow.who = "app" /\ ct # NoMark => flow.port = "dns"
  /\ HeldIsTight
  /\ DnsThroughTunnel

(* Packets keep it.                                                          *)
LEMMA FilterSendKeeps ==
  ASSUME FilterInv, FilterSend
  PROVE  FilterInv'
<1>1. out' = Fate(flow) /\ ct' = CtMark(flow) /\ UNCHANGED <<allowLan, stage, flow>>
  BY DEF FilterSend
<1>2. flow'.who = "app" /\ ct' # NoMark => flow'.port = "dns"
  BY <1>1 DEF CtMark, MarksDns, FilterInv
<1>3. out' = "phys" => /\ Oif(flow) = "phys"
                       /\ stage \in Holds => Verdict(KillswitchRules(flow), "drop") # "drop"
                       /\ stage \in Guarded => Verdict(DnsGuardRules(flow), "accept") # "reject"
  BY <1>1 DEF Fate
<1>4. HeldIsTight'
  <2> SUFFICES ASSUME stage \in Holds, flow.who = "app", out' = "phys",
                      flow.port # "dns" \/ ct' = NoMark
               PROVE  \/ flow.dst = "server"
                      \/ flow.dst = "resolver" /\ flow.port \in {"dns", "web"}
                      \/ flow.dst = "lan" /\ allowLan /\ flow.port # "dns"
    BY <1>1 DEF HeldIsTight
  <2>1. Oif(flow) = "phys" /\ Verdict(KillswitchRules(flow), "drop") # "drop"
    BY <1>3
  <2>2. ct = NoMark
    BY <1>1, <2>1, PlainMark DEF FilterInv
  <2>3. ct \notin {DnsMark, DialMark, BypassMark}
    BY <2>2 DEF NoMark, DnsMark, DialMark, BypassMark
  <2> QED BY <2>1, <2>3, KillswitchIsTight
<1>5. DnsThroughTunnel'
  <2> SUFFICES ASSUME stage \in Guarded, flow.who = "app", flow.port \in {"dns", "dot"},
                      out' = "phys"
               PROVE  FALSE
    BY SMTT(40), <1>1 DEF DnsThroughTunnel
  <2> QED BY <1>3, DnsGuardIsTight
<1> QED BY <1>2, <1>4, <1>5 DEF FilterInv

(* Every step keeps it.                                                      *)
LEMMA FilterStep ==
  ASSUME FilterInv, [Next]_vars
  PROVE  FilterInv'
<1> USE DEF FilterInv, HeldIsTight, DnsThroughTunnel
<1>1. ASSUME NEW choice \in Offers, Choose(choice) PROVE FilterInv'
  BY <1>1 DEF Choose
<1>2. CASE Refuse
  BY <1>2 DEF Refuse
<1>3. CASE Connect
  BY <1>3 DEF Connect, FilterRelayer
<1>4. CASE Relayer
  BY <1>4 DEF Relayer, FilterRelayer
<1>5. CASE NewFlow
  BY <1>5 DEF NewFlow, FilterNewFlow
<1>6. CASE EndFlow
  BY <1>6 DEF EndFlow, FilterNewFlow
<1>7. CASE Send
  BY <1>7, FilterSendKeeps DEF Send
<1>8. CASE UNCHANGED vars
  BY <1>8 DEF vars
<1> QED BY Zenon, <1>1, <1>2, <1>3, <1>4, <1>5, <1>6, <1>7, <1>8 DEF Next

(* It holds before the first flow.                                           *)
LEMMA FilterInit == Init => FilterInv
  BY DEF Init, FilterInv, HeldIsTight, DnsThroughTunnel, NoFlow, Holds, Guarded

(* While the hold block stands, nothing of an ordinary application leaves by *)
(* the physical interface but to the proxy server, to the bootstrap resolver *)
(* and, when that was asked for and it is not DNS, to the LAN (helper        *)
(* 385-387, 420-423), whatever flows and layers came before.                 *)
THEOREM HoldIsTight == Spec => []HeldIsTight
<1>1. FilterInv => HeldIsTight
  BY DEF FilterInv
<1> QED BY <1>1, FilterInit, FilterStep, PTL DEF Spec

(* While the DNS rules stand, no DNS of an ordinary application, plain or    *)
(* over TLS, leaves by the physical interface, whatever mark its connection  *)
(* carries from before (nft.rs:11-29).                                       *)
THEOREM DnsStaysInside == Spec => []DnsThroughTunnel
<1>1. FilterInv => DnsThroughTunnel
  BY DEF FilterInv
<1> QED BY <1>1, FilterInit, FilterStep, PTL DEF Spec

(***************************************************************************)
(* The outbounds of a plan                                                 *)
(***************************************************************************)

(* A proxy's outbound as the generator leaves it.                            *)
Clean(o) ==
  /\ o.tag \notin Reserved
  /\ o.protocol \notin {"freedom", "dns", "blackhole"} /\ o.peers \in Nat
  /\ o.marked \/ o.protocol = "wireguard"

(* What sanitize_raw_outbound accepts is clean, under a tag that is.         *)
LEMMA SanitizedIsClean ==
  ASSUME NEW o, NEW preserve, o.peers \in Nat, preserve => o.tag \notin Reserved,
         SanitizeRawOutbound(o, preserve) # None
  PROVE  Clean(SanitizeRawOutbound(o, preserve))
<1>1. IsProxyProtocol(o.protocol)
  BY DEF SanitizeRawOutbound
<1>2. /\ SanitizeRawOutbound(o, preserve).protocol = o.protocol
      /\ SanitizeRawOutbound(o, preserve).peers = o.peers
      /\ SanitizeRawOutbound(o, preserve).marked = (Lower(o.protocol) # "wireguard")
  BY DEF SanitizeRawOutbound
<1>3. o.protocol \notin {"freedom", "dns", "blackhole"}
  BY <1>1 DEF IsProxyProtocol, Lower, ProxyProtocols
<1>4. Lower(o.protocol) # "wireguard" \/ o.protocol = "wireguard"
  BY DEF Lower
<1>5. SanitizeRawOutbound(o, preserve).tag \notin Reserved
  BY DEF SanitizeRawOutbound, Reserved
<1> QED BY Zenon, <1>2, <1>3, <1>4, <1>5 DEF Clean

(* An outbound that is given a name keeps its peers.                         *)
LEMMA TaggedPeers ==
  ASSUME NEW o, IsOutbound(o), NEW tag
  PROVE  [o EXCEPT !.tag = tag].peers \in Nat
<1>1. "peers" \in DOMAIN o
  BY DEF IsOutbound
<1>2. [o EXCEPT !.tag = tag]["peers"] = o["peers"]
  BY <1>1
<1> QED BY <1>2 DEF IsOutbound

(* The proxies of a profile are a list that is not empty, of clean outbounds *)
(* under names of their own.                                                 *)
LEMMA ProviderProxiesAreClean ==
  ASSUME NEW profile, IsList(profile.outbounds),
         \A i \in DOMAIN profile.outbounds : IsOutbound(profile.outbounds[i]),
         ProviderProxyOutbounds(profile) # None
  PROVE  /\ IsList(ProviderProxyOutbounds(profile))
         /\ \A i \in DOMAIN ProviderProxyOutbounds(profile) :
              Clean(ProviderProxyOutbounds(profile)[i])
         /\ 1 \in DOMAIN ProviderProxyOutbounds(profile)
         /\ UniqueTags(ProviderProxyOutbounds(profile))
<1> DEFINE named == [i \in DOMAIN profile.outbounds |->
                      [profile.outbounds[i] EXCEPT !.tag = IF @ = "" THEN DefaultTags[i] ELSE @]]
           proxies == Selected(named, {i \in DOMAIN named : IsProxyProtocol(named[i].protocol)})
           clean == [i \in DOMAIN proxies |-> SanitizeRawOutbound(proxies[i], TRUE)]
<1>1. /\ ProviderProxyOutbounds(profile) = clean /\ None \notin Range(clean) /\ proxies # <<>>
      /\ UniqueTags(proxies) /\ Tags(proxies) \cap Reserved = {}
  BY Zenon DEF ProviderProxyOutbounds
<1>2. ASSUME NEW i \in DOMAIN named PROVE named[i].peers \in Nat
  <2> DEFINE o == profile.outbounds[i]
             tag == IF o.tag = "" THEN DefaultTags[i] ELSE o.tag
  <2>1. named[i] = [o EXCEPT !.tag = tag] /\ IsOutbound(o)
    BY Zenon
  <2> HIDE DEF o, tag, named
  <2>2. [o EXCEPT !.tag = tag].peers \in Nat
    BY <2>1, TaggedPeers
  <2> QED BY <2>1, <2>2
<1>3. IsList(named)
  <2>1. DOMAIN profile.outbounds = 1..Len(profile.outbounds) /\ Len(profile.outbounds) \in Nat
    BY DEF IsList
  <2>2. DOMAIN named = 1..Len(profile.outbounds) /\ named = [i \in DOMAIN named |-> named[i]]
    BY Zenon, <2>1
  <2> HIDE DEF named
  <2>3. \A i \in DOMAIN named : named[i] \in Range(named)
    BY DEF Range
  <2> QED BY <2>1, <2>2, <2>3 DEF IsList
<1> HIDE DEF named
<1>4. /\ proxies \in Seq(Range(named))
      /\ \A k \in DOMAIN proxies : \E i \in DOMAIN named : proxies[k] = named[i]
  <2> DEFINE kept == {i \in DOMAIN named : IsProxyProtocol(named[i].protocol)}
  <2>1. kept \in SUBSET DOMAIN named
    OBVIOUS
  <2> HIDE DEF kept
  <2>2. /\ Selected(named, kept) \in Seq(Range(named))
        /\ \A k \in DOMAIN Selected(named, kept) :
             \E i \in kept : Selected(named, kept)[k] = named[i]
    BY <1>3, <2>1, SelectedIsList
  <2> QED BY <2>1, <2>2 DEF kept
<1> HIDE DEF proxies
<1>5. \A k \in DOMAIN proxies : proxies[k].peers \in Nat
  BY <1>2, <1>4
<1>6. IsList(clean)
  <2>1. DOMAIN clean = 1..Len(proxies) /\ Len(proxies) \in Nat /\ clean = [i \in DOMAIN clean |-> clean[i]]
    BY <1>4
  <2> HIDE DEF clean
  <2>2. \A i \in DOMAIN clean : clean[i] \in Range(clean)
    BY DEF Range
  <2> QED BY <2>1, <2>2 DEF IsList
<1>7. \A i \in DOMAIN clean : Clean(clean[i])
  <2> SUFFICES ASSUME NEW i \in DOMAIN clean PROVE Clean(clean[i])
    BY Zenon
  <2>1. clean[i] = SanitizeRawOutbound(proxies[i], TRUE) /\ clean[i] \in Range(clean)
    BY Zenon DEF Range
  <2> HIDE DEF clean
  <2>2. clean[i] # None
    BY Zenon, <1>1, <2>1
  <2>3. proxies[i].peers \in Nat
    BY <1>5 DEF clean
  <2>4. proxies[i].tag \notin Reserved
    BY <1>1 DEF Tags, clean
  <2> QED BY Zenon, <2>1, <2>2, <2>3, <2>4, SanitizedIsClean
<1>8. \A i \in DOMAIN clean : clean[i].tag = proxies[i].tag
  <2> SUFFICES ASSUME NEW i \in DOMAIN clean PROVE clean[i].tag = proxies[i].tag
    BY Zenon
  <2>1. clean[i] = SanitizeRawOutbound(proxies[i], TRUE) /\ clean[i] # None
    BY Zenon, <1>1 DEF Range
  <2> HIDE DEF clean
  <2>2. SanitizeRawOutbound(proxies[i], TRUE).tag = proxies[i].tag
    BY Zenon, <2>1 DEF SanitizeRawOutbound
  <2> QED BY Zenon, <2>1, <2>2
<1>9. UniqueTags(clean)
  BY Zenon, <1>1, <1>8 DEF UniqueTags
<1>10. 1 \in DOMAIN clean
  BY <1>1, <1>4
<1> HIDE DEF clean
<1> QED BY <1>1, <1>6, <1>7, <1>9, <1>10

(* The provider's rules that are kept are a list.                            *)
LEMMA RulesAreList ==
  ASSUME NEW server, IsServer(server), NEW proxies, NEW balancers
  PROVE  IsList(SafeProviderRouteRules(server.profile, proxies, balancers))
<1> DEFINE rules == server.profile.rules
<1>1. CASE server.profile = None
  BY <1>1 DEF SafeProviderRouteRules, IsList, Range
<1>2. CASE server.profile # None
  <2>1. PICK kept \in SUBSET DOMAIN rules :
          SafeProviderRouteRules(server.profile, proxies, balancers) = Selected(rules, kept)
    BY Zenon, <1>2 DEF SafeProviderRouteRules
  <2>2. Selected(rules, kept) \in Seq(Range(rules))
    BY <1>2, SelectedIsList DEF IsServer
  <2> QED BY <2>1, <2>2, ListOfIsList
<1> QED BY <1>1, <1>2

(* The plan of a location that is one outbound.                              *)
LEMMA SinglePlan ==
  ASSUME NEW server, NEW plan \in OutboundPlans(server),
         ~(server.profile # None
             /\ Composite(server.profile, ProviderProxyOutbounds(server.profile)))
  PROVE  /\ BuildProxyOutbound(server) # None /\ plan.proxies = << BuildProxyOutbound(server) >>
         /\ plan.target = Outbound("proxy") /\ plan.balancers = <<>>
         /\ plan.rules = SafeProviderRouteRules(server.profile, << BuildProxyOutbound(server) >>, <<>>)
<1> DEFINE single == BuildProxyOutbound(server)
           rules == SafeProviderRouteRules(server.profile, << single >>, <<>>)
           sole == [proxies |-> << single >>, target |-> Outbound("proxy"), balancers |-> <<>>,
                    observatory |-> FALSE, rules |-> rules]
<1>1. single # None /\ plan = sole
  BY Zenon DEF OutboundPlans
<1>2. /\ sole.proxies = << single >> /\ sole.target = Outbound("proxy") /\ sole.balancers = <<>>
      /\ sole.rules = rules
  BY Zenon
<1> QED BY Zenon, <1>1, <1>2

(* Every plan of a location has a list of clean proxies, and lists of        *)
(* balancers and rules.                                                      *)
LEMMA PlanFields ==
  ASSUME NEW server, IsServer(server), ValidateServer(server), NEW plan \in OutboundPlans(server)
  PROVE  /\ IsList(plan.proxies) /\ IsList(plan.rules)
         /\ \A i \in DOMAIN plan.proxies : Clean(plan.proxies[i])
<1> DEFINE profile == server.profile
           proxies == ProviderProxyOutbounds(profile)
           single == BuildProxyOutbound(server)
<1>1. CASE profile # None /\ Composite(profile, proxies)
  <2>1. /\ proxies # None /\ plan.proxies = proxies
        /\ plan.rules = SafeProviderRouteRules(profile, proxies, profile.balancers)
    BY <1>1 DEF OutboundPlans
  <2>2. IsList(proxies) /\ \A i \in DOMAIN proxies : Clean(proxies[i])
    BY <1>1, <2>1, ProviderProxiesAreClean DEF IsServer
  <2> QED BY <2>1, <2>2, RulesAreList
<1>2. CASE ~(profile # None /\ Composite(profile, proxies))
  <2>1. /\ single # None /\ plan.proxies = <<single>>
        /\ plan.rules = SafeProviderRouteRules(profile, <<single>>, <<>>)
    BY Zenon, <1>2, SinglePlan
  <2>2. Clean(single)
    <3>1. CASE server.outbound # None
      <4>1. single = SanitizeRawOutbound(server.outbound, FALSE)
        BY <3>1 DEF BuildProxyOutbound
      <4> HIDE DEF single
      <4> QED BY Zenon, <2>1, <3>1, <4>1, SanitizedIsClean DEF IsServer, IsOutbound
    <3>2. CASE server.outbound = None
      <4>1. single = [tag |-> "proxy", protocol |-> server.protocol, files |-> {}, peers |-> 1,
                      marked |-> server.protocol # "wireguard"]
        BY <3>2 DEF BuildProxyOutbound
      <4>2. server.protocol \in ProxyProtocols
        BY <3>2 DEF IsServer, ValidateServer
      <4>3. /\ single.protocol = server.protocol /\ single.peers = 1 /\ single.tag = "proxy"
            /\ single.marked = (server.protocol # "wireguard")
        BY <4>1
      <4> HIDE DEF single
      <4>4. single.marked \/ single.protocol = "wireguard"
        BY <4>3, Zenon
      <4> QED BY <4>2, <4>3, <4>4 DEF Clean, ProxyProtocols, Reserved
    <3> QED BY <3>1, <3>2
  <2> HIDE DEF single
  <2>3. IsList(<<single>>)
    BY DEF IsList, Range
  <2> QED BY SMTT(40), <2>1, <2>2, <2>3, RulesAreList
<1> QED BY <1>1, <1>2

(***************************************************************************)
(* What the client has prepared and what Xray runs with                    *)
(***************************************************************************)

(* A request holds documents of the location it is for, and Xray runs with   *)
(* a document of a location that was on offer.                               *)
Prepared ==
  request # None =>
    /\ request.choice \in Offers /\ ValidateServer(request.choice.server)
    /\ request.document # None =>
         /\ request.document \in BuildXrayConfig(request.choice.server, request.choice.split,
                                                request.choice.mode, allowLan)
         /\ request.preflight \in BuildConnectionProbeConfig(request.choice.server)

Running ==
  plane # None =>
    \E choice \in Offers :
      /\ ValidateServer(choice.server) /\ plane.split = choice.split
      /\ plane.upstreams = DnsUpstreams(choice.server)
      /\ plane.document \in BuildXrayConfig(choice.server, choice.split, "tun", allowLan)

PlaneInv == Prepared /\ Running

(* Choosing a location prepares its documents.                               *)
LEMMA ChoosePrepares ==
  ASSUME NEW choice \in Offers, Choose(choice)
  PROVE  Prepared'
<1> DEFINE documents == BuildXrayConfig(choice.server, choice.split, choice.mode, allowLan)
           preflights == BuildConnectionProbeConfig(choice.server)
<1>1. /\ request' \in [choice: {choice}, document: IF documents = {} THEN {None} ELSE documents,
                       preflight: IF documents = {} THEN {None} ELSE preflights]
      /\ ValidateServer(choice.server) /\ allowLan' = allowLan
  BY DEF Choose
<1> HIDE DEF documents, preflights
<1>2. /\ request'.choice = choice
      /\ request'.document # None => request'.document \in documents /\ request'.preflight \in preflights
  BY <1>1
<1> QED BY <1>1, <1>2 DEF Prepared, documents, preflights

(* Connecting runs what was prepared.                                        *)
LEMMA ConnectRuns ==
  ASSUME Prepared, Connect
  PROVE  Running'
<1>1. /\ request # None /\ request.document # None /\ request.choice.mode = "tun"
      /\ plane' = [split |-> request.choice.split, document |-> request.document,
                   upstreams |-> DnsUpstreams(request.choice.server)]
      /\ allowLan' = allowLan
  BY DEF Connect, Accepted, FilterRelayer
<1>2. /\ request.choice \in Offers /\ ValidateServer(request.choice.server)
      /\ request.document \in BuildXrayConfig(request.choice.server, request.choice.split,
                                             "tun", allowLan)
  BY <1>1 DEF Prepared
<1> QED BY <1>1, <1>2 DEF Running

(* Documents stay those of their locations in every step.                    *)
LEMMA PlaneStep ==
  ASSUME PlaneInv, [Next]_vars
  PROVE  PlaneInv'
<1>1. ASSUME NEW choice \in Offers, Choose(choice) PROVE PlaneInv'
  <2>1. Running'
    BY <1>1 DEF PlaneInv, Running, Choose
  <2> QED BY <1>1, <2>1, ChoosePrepares DEF PlaneInv
<1>2. CASE Refuse
  BY <1>2 DEF PlaneInv, Prepared, Running, Refuse
<1>3. CASE Connect
  <2>1. Prepared'
    BY <1>3 DEF Prepared, Connect
  <2> QED BY <1>3, <2>1, ConnectRuns DEF PlaneInv
<1>4. CASE Relayer
  BY <1>4 DEF PlaneInv, Prepared, Running, Relayer, FilterRelayer
<1>5. CASE NewFlow \/ EndFlow \/ Send \/ UNCHANGED vars
  <2>1. request' = request /\ plane' = plane /\ allowLan' = allowLan
    BY <1>5 DEF NewFlow, EndFlow, Send, FilterNewFlow, FilterSend, vars
  <2> QED BY <2>1 DEF PlaneInv, Prepared, Running
<1> QED BY <1>1, <1>2, <1>3, <1>4, <1>5 DEF Next

(* In the beginning nothing is prepared and nothing runs.                    *)
LEMMA PlaneInit == Init => PlaneInv
BY DEF Init, PlaneInv, Prepared, Running

(***************************************************************************)
(* One target                                                              *)
(***************************************************************************)

(* The condition of PreflightFollowsTarget.                                  *)
NamesTarget(profile) ==
  \/ Len(profile.balancers) <= 1
  \/ \E i \in DOMAIN profile.rules :
       profile.rules[i].to \in {Balancer(t) : t \in Tags(profile.balancers)}

(* Such a profile has one target, however often it is planned.               *)
LEMMA OneTarget ==
  ASSUME NEW server, IsServer(server), server.profile # None => NamesTarget(server.profile),
         NEW p \in OutboundPlans(server), NEW q \in OutboundPlans(server)
  PROVE  p.target = q.target
<1> DEFINE profile == server.profile
           proxies == ProviderProxyOutbounds(profile)
<1>1. CASE profile # None /\ Composite(profile, proxies)
  <2>1. p.target \in Targets(profile, proxies) /\ q.target \in Targets(profile, proxies)
    BY <1>1 DEF OutboundPlans
  <2> DEFINE known == {Balancer(t) : t \in Tags(profile.balancers)}
                        \cup {Outbound(t) : t \in Tags(proxies)}
             naming == {i \in DOMAIN profile.rules : profile.rules[i].to \in known}
  <2>2. CASE naming # {}
    BY Zenon, <2>1, <2>2 DEF Targets
  <2>3. CASE naming = {} /\ profile.balancers = <<>>
    BY Zenon, <2>1, <2>3 DEF Targets
  <2>4. CASE naming = {} /\ profile.balancers # <<>>
    <3>1. Len(profile.balancers) <= 1
      BY <1>1, <2>4 DEF NamesTarget
    <3>2. profile.balancers \in Seq(Range(profile.balancers))
      BY <1>1 DEF IsServer, IsList
    <3>3. DOMAIN profile.balancers = {1}
      BY <2>4, <3>1, <3>2
    <3>4. Tags(profile.balancers) = {profile.balancers[1].tag}
      BY SMTT(40), <3>3 DEF Tags
    <3>5. Targets(profile, proxies) = {Balancer(t) : t \in Tags(profile.balancers)}
      BY Zenon, <2>4 DEF Targets
    <3> QED BY <2>1, <3>4, <3>5
  <2> QED BY Zenon, <2>2, <2>3, <2>4
<1>2. CASE ~(profile # None /\ Composite(profile, proxies))
  BY Zenon, <1>2, SinglePlan
<1> QED BY SMTT(40), <1>1, <1>2

(* The two documents of a request have the target of plans of one location.  *)
LEMMA PreparedTargets ==
  ASSUME PlaneInv
  PROVE  PreflightFollowsTarget
<1> SUFFICES ASSUME request # None, request.document # None,
                    request.choice.server.profile # None => NamesTarget(request.choice.server.profile)
             PROVE  request.preflight.rules[1].to = request.document.target
  BY Zenon DEF PreflightFollowsTarget, NamesTarget
<1> DEFINE server == request.choice.server
<1>1. IsServer(server)
  BY SMTT(40), OffersAssumption DEF PlaneInv, Prepared
<1>2. PICK p \in OutboundPlans(server) : request.document.target = p.target
  BY SMTT(40) DEF PlaneInv, Prepared, BuildXrayConfig
<1>3. PICK q \in OutboundPlans(server) : request.preflight.rules[1].to = q.target
  BY DEF PlaneInv, Prepared, BuildConnectionProbeConfig, ProbeConfig, Rule
<1> QED BY SMTT(40), <1>1, <1>2, <1>3, OneTarget

(* For every location whose profile names its target in a rule or has no     *)
(* more than one balancer, the preflight of a connect goes where the tunnel  *)
(* will send its traffic (xray.rs:1625-1629).                                *)
THEOREM PreflightIsTheTarget == Spec => []PreflightFollowsTarget
<1>1. Init => PlaneInv
  BY PlaneInit
<1>2. PlaneInv /\ [Next]_vars => PlaneInv'
  BY PlaneStep
<1>3. PlaneInv => PreflightFollowsTarget
  BY PreparedTargets
<1> QED BY <1>1, <1>2, <1>3, PTL DEF Spec

(***************************************************************************)
(* The first rule that matches                                             *)
(***************************************************************************)

Decides(rules, c) == \E i \in DOMAIN rules : Matches(rules[i], c)

(* Lists put together are a list.                                            *)
LEMMA JoinedIsList ==
  ASSUME NEW s, NEW t, IsList(s), IsList(t)
  PROVE  /\ IsList(s \o t) /\ DOMAIN s = 1..Len(s) /\ DOMAIN t = 1..Len(t)
         /\ Len(s) \in Nat /\ Len(t) \in Nat /\ DOMAIN (s \o t) = 1..(Len(s) + Len(t))
         /\ \A i \in DOMAIN s : (s \o t)[i] = s[i]
         /\ \A i \in DOMAIN t : (s \o t)[Len(s) + i] = t[i]
<1> DEFINE S == Range(s) \cup Range(t)
<1>1. s \in Seq(Range(s)) /\ t \in Seq(Range(t))
  BY DEF IsList
<1>2. s \in Seq(S) /\ t \in Seq(S)
  BY <1>1
<1> HIDE DEF S
<1>3. s \o t \in Seq(S)
  BY <1>2
<1>4. IsList(s \o t)
  BY Zenon, <1>3, ListOfIsList
<1> QED BY <1>2, <1>4

(* The elements of the second are after those of the first.                  *)
LEMMA JoinedAt ==
  ASSUME NEW s, NEW t, IsList(s), IsList(t), NEW i \in DOMAIN t
  PROVE  (s \o t)[Len(s) + i] = t[i]
<1> DEFINE S == Range(s) \cup Range(t)
<1>1. s \in Seq(Range(s)) /\ t \in Seq(Range(t))
  BY DEF IsList
<1>2. s \in Seq(S) /\ t \in Seq(S) /\ i \in 1..Len(t)
  BY <1>1
<1> HIDE DEF S
<1> QED BY <1>2

(* A rule alone.                                                             *)
LEMMA RouteOne ==
  ASSUME NEW r, NEW c, Matches(r, c)
  PROVE  IsList(<<r>>) /\ Decides(<<r>>, c) /\ Route(<<r>>, c) = r.to
<1> DEFINE hits == {i \in DOMAIN <<r>> : Matches(<<r>>[i], c)}
<1>1. hits = {1} /\ IsList(<<r>>) /\ <<r>>[1] = r
  BY DEF IsList, Range
<1>2. Route(<<r>>, c) = <<r>>[FirstOf(hits)].to
  BY DEF Route
<1>3. hits \in SUBSET Nat /\ 1 \in hits /\ \A j \in hits : 1 <= j
  BY <1>1
<1> HIDE DEF hits
<1>4. FirstOf(hits) = 1
  BY <1>3, FirstIs
<1>5. Decides(<<r>>, c)
  BY <1>1 DEF Decides, hits
<1> QED BY <1>1, <1>2, <1>4, <1>5

(* The rules that come first decide when one of them matches.                *)
LEMMA RouteTake ==
  ASSUME NEW s, NEW t, NEW c, IsList(s), IsList(t), Decides(s, c)
  PROVE  Decides(s \o t, c) /\ Route(s \o t, c) = Route(s, c)
<1> DEFINE hits == {i \in DOMAIN s : Matches(s[i], c)}
           all == {i \in DOMAIN (s \o t) : Matches((s \o t)[i], c)}
<1>1. hits \in SUBSET Nat /\ all \in SUBSET Nat /\ hits # {}
  BY JoinedIsList DEF Decides
<1>2. PICK n \in hits : \A j \in hits : n <= j
  <2> HIDE DEF hits
  <2> QED BY <1>1, Least
<1>3. n \in DOMAIN s /\ n \in all /\ (s \o t)[n] = s[n]
  BY <1>2, JoinedIsList
<1>4. ASSUME NEW j \in all PROVE n <= j
  <2>1. CASE j \in DOMAIN s
    <3>1. j \in hits
      BY <1>4, <2>1, JoinedIsList
    <3> QED BY <1>2, <3>1
  <2>2. CASE j \notin DOMAIN s
    BY <1>3, <1>4, <2>2, JoinedIsList
  <2> QED BY <2>1, <2>2
<1>5. Route(s, c) = s[FirstOf(hits)].to /\ Route(s \o t, c) = (s \o t)[FirstOf(all)].to
  BY DEF Route
<1>6. Decides(s \o t, c)
  BY <1>3 DEF Decides
<1> HIDE DEF hits, all
<1>7. FirstOf(hits) = n /\ FirstOf(all) = n
  BY <1>1, <1>2, <1>3, <1>4, FirstIs
<1> QED BY <1>3, <1>5, <1>6, <1>7

(* Rules that do not match leave the choice to those that follow.            *)
LEMMA RouteSkip ==
  ASSUME NEW s, NEW t, NEW c, IsList(s), IsList(t), ~Decides(s, c), Decides(t, c)
  PROVE  Decides(s \o t, c) /\ Route(s \o t, c) = Route(t, c)
<1> DEFINE hits == {i \in DOMAIN t : Matches(t[i], c)}
           all == {i \in DOMAIN (s \o t) : Matches((s \o t)[i], c)}
<1>1. hits \in SUBSET Nat /\ all \in SUBSET Nat /\ hits # {} /\ Len(s) \in Nat
  BY JoinedIsList DEF Decides
<1>2. PICK n \in hits : \A j \in hits : n <= j
  <2> HIDE DEF hits
  <2> QED BY <1>1, Least
<1>3. n \in Nat /\ Len(s) + n \in all /\ (s \o t)[Len(s) + n] = t[n]
  <2>1. n \in DOMAIN t /\ Matches(t[n], c)
    BY <1>2
  <2>2. (s \o t)[Len(s) + n] = t[n]
    BY <2>1, JoinedAt
  <2>3. /\ Len(s) \in Nat /\ Len(t) \in Nat /\ DOMAIN t = 1..Len(t)
        /\ DOMAIN (s \o t) = 1..(Len(s) + Len(t))
    BY JoinedIsList
  <2>4. n \in Nat /\ Len(s) + n \in 1..(Len(s) + Len(t))
    BY <2>1, <2>3
  <2>5. Len(s) + n \in DOMAIN (s \o t) /\ Matches((s \o t)[Len(s) + n], c)
    BY Zenon, <2>1, <2>2, <2>3, <2>4
  <2> QED BY Zenon, <2>2, <2>4, <2>5
<1>4. ASSUME NEW j \in all PROVE Len(s) + n <= j
  <2>1. j \in Nat /\ j \in 1..(Len(s) + Len(t)) /\ Len(t) \in Nat
    BY <1>4, JoinedIsList
  <2>2. j \notin 1..Len(s)
    BY <1>4, JoinedIsList DEF Decides
  <2>3. PICK i \in DOMAIN t : i \in Nat /\ j = Len(s) + i
    BY SMTT(40), <1>1, <2>1, <2>2, JoinedIsList
  <2>4. (s \o t)[j] = t[i]
    <3>1. (s \o t)[Len(s) + i] = t[i]
      BY <2>3, JoinedAt
    <3> QED BY <2>3, <3>1
  <2>5. i \in hits
    BY <1>4, <2>3, <2>4
  <2>6. n <= i
    BY <1>2, <2>5
  <2> QED BY <1>1, <1>3, <2>3, <2>6
<1>5. Route(t, c) = t[FirstOf(hits)].to /\ Route(s \o t, c) = (s \o t)[FirstOf(all)].to
  BY DEF Route
<1>6. Decides(s \o t, c)
  BY <1>3 DEF Decides
<1> HIDE DEF hits, all
<1>7. FirstOf(hits) = n
  BY <1>1, <1>2, FirstIs
<1>8. FirstOf(all) = Len(s) + n
  BY <1>1, <1>3, <1>4, FirstIs
<1> QED BY Zenon, <1>3, <1>5, <1>6, <1>7, <1>8

(* Together they decide nothing that neither decides.                        *)
LEMMA NeitherDecides ==
  ASSUME NEW s, NEW t, NEW c, IsList(s), IsList(t), ~Decides(s, c), ~Decides(t, c)
  PROVE  ~Decides(s \o t, c)
<1> SUFFICES ASSUME NEW j \in DOMAIN (s \o t), Matches((s \o t)[j], c) PROVE FALSE
  BY DEF Decides
<1>1. j \in 1..(Len(s) + Len(t)) /\ Len(s) \in Nat /\ Len(t) \in Nat
  BY JoinedIsList
<1>2. j \notin DOMAIN s
  BY JoinedIsList DEF Decides
<1>3. PICK i \in DOMAIN t : j = Len(s) + i
  BY <1>1, <1>2, JoinedIsList
<1>4. (s \o t)[j] = t[i]
  <2>1. (s \o t)[Len(s) + i] = t[i]
    BY <1>3, JoinedAt
  <2> QED BY <1>3, <2>1
<1> QED BY <1>3, <1>4 DEF Decides

(***************************************************************************)
(* The rules of a document                                                 *)
(***************************************************************************)

(* The rules before the provider's, as BuildRouteRules lays them.            *)
OfDns == Rule([inbound |-> {"tun-in"}, port |-> {"dns"}], Outbound("dns-out"))
OfLan == Rule([ip |-> {"lan", "loopback"}], Outbound("direct"))
OfApps(split, target) ==
  Rule([process |-> split.apps], IF split.appsSelective THEN target ELSE Outbound("direct"))
OfSites(split, target) ==
  Rule([domain |-> split.sites], IF split.sitesSelective THEN target ELSE Outbound("direct"))
OfResolvers(upstreams, target) == Rule([ip |-> upstreams], target)
OfTheRest(split, target) ==
  Rule(Always, IF DefaultUsesProxy(split, "tun") THEN target ELSE Outbound("direct"))

(* A rule that is there on a condition.                                      *)
LEMMA IfIsList ==
  ASSUME NEW condition, NEW r, NEW c
  PROVE  /\ IsList(If(condition, <<r>>)) /\ IsList(<<r>>)
         /\ Decides(If(condition, <<r>>), c) <=> condition /\ Matches(r, c)
         /\ Decides(<<r>>, c) <=> Matches(r, c)
<1>1. IsList(<<r>>) /\ IsList(<<>>) /\ DOMAIN <<r>> = {1} /\ <<r>>[1] = r /\ DOMAIN <<>> = {}
  BY DEF IsList, Range
<1>2. Decides(<<r>>, c) <=> Matches(r, c)
  BY <1>1 DEF Decides
<1>3. ~Decides(<<>>, c)
  BY <1>1 DEF Decides
<1>4. CASE condition
  <2>1. If(condition, <<r>>) = <<r>>
    BY <1>4 DEF If
  <2> QED BY Zenon, <1>1, <1>2, <1>4, <2>1
<1>5. CASE ~condition
  <2>1. If(condition, <<r>>) = <<>>
    BY <1>5 DEF If
  <2> QED BY <1>1, <1>2, <1>3, <1>5, <2>1
<1> QED BY <1>4, <1>5

(* Whether a connection is decided by the rule of the applications, by that  *)
(* of the sites, and where a tunnel's rules send it.                         *)
AppsDecide(split, target, c) == split.apps # {} /\ Matches(OfApps(split, target), c)
SitesDecide(split, target, c) == split.sites # {} /\ Matches(OfSites(split, target), c)
TunnelRoute(split, lan, target, upstreams, provider, c) ==
  Route(BuildRouteRules(split, lan, "tun", target, upstreams, provider), c)

(* A connection that no rule of the provider's matches, that is not DNS and  *)
(* that goes to no LAN.                                                      *)
Undecided(provider, c) ==
  IsList(provider) /\ ~Decides(provider, c) /\ ~Matches(OfDns, c) /\ ~Matches(OfLan, c)

(* It is decided by the list of applications, that of sites, the resolvers'  *)
(* rule and the last one, in this order.                                     *)
DecidedInOrder(split, lan, target, upstreams, provider, c) ==
  LET to == TunnelRoute(split, lan, target, upstreams, provider, c)
      apps == AppsDecide(split, target, c)
      sites == SitesDecide(split, target, c)
      resolvers == Matches(OfResolvers(upstreams, target), c)
  IN /\ apps => to = OfApps(split, target).to
     /\ ~apps /\ sites => to = OfSites(split, target).to
     /\ ~apps /\ ~sites /\ resolvers => to = target
     /\ ~apps /\ ~sites /\ ~resolvers => to = OfTheRest(split, target).to

(* The order in which a tunnel's rules decide what the provider's leave.     *)
LEMMA RouteOfTunnel ==
  ASSUME NEW split, NEW lan, NEW target, NEW upstreams, NEW provider, NEW c, Undecided(provider, c)
  PROVE  DecidedInOrder(split, lan, target, upstreams, provider, c)
<1>0. IsList(provider) /\ ~Decides(provider, c) /\ ~Matches(OfDns, c) /\ ~Matches(OfLan, c)
  BY Zenon DEF Undecided
<1> DEFINE apps == split.apps # {} /\ Matches(OfApps(split, target), c)
           sites == split.sites # {} /\ Matches(OfSites(split, target), c)
           resolvers == Matches(OfResolvers(upstreams, target), c)
           D == <<OfDns>>
           L == If(lan, <<OfLan>>)
           A == If(split.apps # {}, <<OfApps(split, target)>>)
           S == If(split.sites # {}, <<OfSites(split, target)>>)
           U == <<OfResolvers(upstreams, target)>>
           R == <<OfTheRest(split, target)>>
<1>1. /\ IsList(D) /\ IsList(L) /\ IsList(A) /\ IsList(S) /\ IsList(U) /\ IsList(R)
      /\ ~Decides(D, c) /\ ~Decides(L, c)
      /\ Decides(A, c) <=> apps
      /\ Decides(S, c) <=> sites
      /\ Decides(U, c) <=> resolvers
  BY <1>0, IfIsList, Zenon
<1>2. Matches(OfTheRest(split, target), c)
  BY Zenon DEF Matches, OfTheRest, Rule, Always
<1>3. Decides(R, c) /\ Route(R, c) = OfTheRest(split, target).to
  BY <1>2, RouteOne
<1>4. resolvers => Route(U, c) = target
  <2>1. OfResolvers(upstreams, target).to = target
    BY SMTT(40) DEF OfResolvers, Rule
  <2> QED BY <2>1, RouteOne
<1>5. sites => Route(S, c) = OfSites(split, target).to
  <2>1. sites => S = <<OfSites(split, target)>>
    BY SMTT(40) DEF If
  <2> QED BY <2>1, RouteOne
<1>6. apps => Route(A, c) = OfApps(split, target).to
  <2>1. apps => A = <<OfApps(split, target)>>
    BY DEF If
  <2> QED BY <2>1, RouteOne
<1>7. BuildRouteRules(split, lan, "tun", target, upstreams, provider)
        = D \o L \o A \o S \o provider \o U \o R
  BY Zenon DEF BuildRouteRules, OfDns, OfLan, OfApps, OfSites, OfResolvers, OfTheRest
<1> HIDE DEF apps, sites, resolvers, D, L, A, S, U, R
<1>8. /\ IsList(D \o L) /\ IsList(D \o L \o A) /\ IsList(D \o L \o A \o S)
      /\ IsList(D \o L \o A \o S \o provider) /\ IsList(D \o L \o A \o S \o provider \o U)
  BY <1>0, <1>1, JoinedIsList
<1>9. ~Decides(D \o L, c)
  BY <1>1, NeitherDecides
<1>10. ASSUME apps
       PROVE  Route(D \o L \o A \o S \o provider \o U \o R, c) = OfApps(split, target).to
  <2>1. Decides(D \o L \o A, c) /\ Route(D \o L \o A, c) = OfApps(split, target).to
    BY <1>0, <1>1, <1>6, <1>8, <1>9, <1>10, RouteSkip
  <2> QED BY <1>0, <1>1, <1>8, <2>1, RouteTake
<1>11. ASSUME ~apps, sites
       PROVE  Route(D \o L \o A \o S \o provider \o U \o R, c) = OfSites(split, target).to
  <2>1. ~Decides(D \o L \o A, c)
    BY <1>1, <1>8, <1>9, <1>11, NeitherDecides
  <2>2. Decides(D \o L \o A \o S, c) /\ Route(D \o L \o A \o S, c) = OfSites(split, target).to
    BY <1>0, <1>1, <1>5, <1>8, <1>11, <2>1, RouteSkip
  <2> QED BY <1>0, <1>1, <1>8, <2>2, RouteTake
<1>12. ASSUME ~apps, ~sites PROVE ~Decides(D \o L \o A \o S \o provider, c)
  BY <1>0, <1>1, <1>8, <1>9, <1>12, NeitherDecides
<1>13. ASSUME ~apps, ~sites, resolvers
       PROVE  Route(D \o L \o A \o S \o provider \o U \o R, c) = target
  <2>1. /\ Decides(D \o L \o A \o S \o provider \o U, c)
        /\ Route(D \o L \o A \o S \o provider \o U, c) = target
    BY <1>0, <1>1, <1>4, <1>8, <1>12, <1>13, RouteSkip
  <2> QED BY <1>0, <1>1, <1>8, <2>1, RouteTake
<1>14. ASSUME ~apps, ~sites, ~resolvers
       PROVE  Route(D \o L \o A \o S \o provider \o U \o R, c) = OfTheRest(split, target).to
  <2>1. ~Decides(D \o L \o A \o S \o provider \o U, c)
    BY <1>1, <1>8, <1>12, <1>14, NeitherDecides
  <2> QED BY <1>0, <1>1, <1>3, <1>8, <2>1, RouteSkip
<1> QED BY Zenon, <1>7, <1>10, <1>11, <1>13, <1>14
        DEF apps, sites, resolvers, AppsDecide, SitesDecide, TunnelRoute,
            DecidedInOrder

(* No resolver of a configuration is on the LAN, on this host or among the   *)
(* addresses no list names.                                                  *)
LEMMA UpstreamsAreRemote ==
  ASSUME NEW server, IsServer(server)
  PROVE  DnsUpstreams(server) \cap {"lan", "loopback", "net"} = {}
<1> DEFINE kept == IF server.profile = None THEN {}
                   ELSE UNION {SafeAddresses(r) : r \in server.profile.resolvers}
<1>1. kept \cap {"lan", "loopback", "net"} = {}
  BY DEF SafeAddresses, IsServer
<1>2. DnsUpstreams(server) = IF kept = {} THEN {"resolver"} ELSE kept
  BY SMTT(40) DEF DnsUpstreams
<1> HIDE DEF kept
<1> QED BY <1>1, <1>2

(* What Xray runs with is a plan of a location on offer.                     *)
LEMMA RunningPlan ==
  ASSUME PlaneInv, plane # None
  PROVE  \E choice \in Offers : \E plan \in OutboundPlans(choice.server) :
           /\ IsServer(choice.server) /\ ValidateServer(choice.server)
           /\ plane.split = choice.split /\ plane.upstreams = DnsUpstreams(choice.server)
           /\ plane.document.outbounds = plan.proxies \o SystemOutbounds
           /\ plane.document.balancers = plan.balancers
           /\ plane.document.target = plan.target /\ plane.document.provider = plan.rules
           /\ plane.document.rules = BuildRouteRules(plane.split, allowLan, "tun", plan.target,
                                                    plane.upstreams, plan.rules)
<1>1. PICK choice \in Offers :
        /\ ValidateServer(choice.server) /\ plane.split = choice.split
        /\ plane.upstreams = DnsUpstreams(choice.server)
        /\ plane.document \in BuildXrayConfig(choice.server, choice.split, "tun", allowLan)
  BY DEF PlaneInv, Running
<1>2. PICK plan \in OutboundPlans(choice.server) :
        /\ plane.document.outbounds = plan.proxies \o SystemOutbounds
        /\ plane.document.balancers = plan.balancers
        /\ plane.document.target = plan.target /\ plane.document.provider = plan.rules
        /\ plane.document.rules = BuildRouteRules(choice.split, allowLan, "tun", plan.target,
                                                 DnsUpstreams(choice.server), plan.rules)
  <2> DEFINE Rules(plan) == BuildRouteRules(choice.split, allowLan, "tun", plan.target,
                                            DnsUpstreams(choice.server), plan.rules)
             Sections(plan) == {"log", "dns", "inbounds", "outbounds", "routing"} \cup Observing(plan)
             Inbounds == << BuildInbound("tun") >>
             Outbounds(plan) == plan.proxies \o SystemOutbounds
  <2>1. PICK plan \in OutboundPlans(choice.server) :
          plane.document = [sections |-> Sections(plan), inbounds |-> Inbounds,
                            outbounds |-> Outbounds(plan), rules |-> Rules(plan),
                            balancers |-> plan.balancers,
                            target |-> plan.target, provider |-> plan.rules]
    BY <1>1, Zenon DEF BuildXrayConfig
  <2> HIDE DEF Rules, Sections, Inbounds, Outbounds
  <2>2. /\ plane.document.outbounds = Outbounds(plan) /\ plane.document.rules = Rules(plan)
        /\ plane.document.balancers = plan.balancers
        /\ plane.document.target = plan.target /\ plane.document.provider = plan.rules
    BY <2>1
  <2> QED BY Zenon, <2>2 DEF Rules, Outbounds
<1>3. IsServer(choice.server)
  BY OffersAssumption
<1> QED BY Zenon, <1>1, <1>2, <1>3

(* The rule of the resolvers is the first that matches a connection to one,  *)
(* unless a rule of the provider's comes before it.                          *)
LEMMA ResolversRouted ==
  ASSUME PlaneInv
  PROVE  ResolverThroughProxy
<1> SUFFICES ASSUME plane # None, NEW ip \in plane.upstreams,
                    ~Decides(plane.document.provider, Upstream(ip))
             PROVE  Route(plane.document.rules, Upstream(ip)) = plane.document.target
  BY DEF ResolverThroughProxy, Decides
<1>1. PICK choice \in Offers : \E plan \in OutboundPlans(choice.server) :
        /\ IsServer(choice.server) /\ ValidateServer(choice.server)
        /\ plane.upstreams = DnsUpstreams(choice.server)
        /\ plane.document.target = plan.target /\ plane.document.provider = plan.rules
        /\ plane.document.rules = BuildRouteRules(plane.split, allowLan, "tun", plan.target,
                                                 plane.upstreams, plan.rules)
  BY SMTT(40), RunningPlan
<1>2. PICK plan \in OutboundPlans(choice.server) :
        /\ IsServer(choice.server) /\ ValidateServer(choice.server)
        /\ plane.upstreams = DnsUpstreams(choice.server)
        /\ plane.document.target = plan.target /\ plane.document.provider = plan.rules
        /\ plane.document.rules = BuildRouteRules(plane.split, allowLan, "tun", plan.target,
                                                 plane.upstreams, plan.rules)
  BY SMTT(40), <1>1
<1>3. IsList(plan.rules)
  BY SMTT(40), <1>2, PlanFields
<1>4. ip \notin {"lan", "loopback"}
  BY <1>2, UpstreamsAreRemote
<1>5. DOMAIN Upstream(ip) = {"ip", "port", "protocol"} /\ Upstream(ip).ip = ip
  BY DEF Upstream
<1>6. ~Matches(OfDns, Upstream(ip)) /\ ~Matches(OfLan, Upstream(ip))
  BY SMTT(40), <1>4, <1>5 DEF Matches, OfDns, OfLan, Rule
<1>7. /\ ~Matches(OfApps(plane.split, plan.target), Upstream(ip))
      /\ ~Matches(OfSites(plane.split, plan.target), Upstream(ip))
  BY SMTT(40), <1>5 DEF Matches, OfApps, OfSites, Rule
<1>8. Matches(OfResolvers(plane.upstreams, plan.target), Upstream(ip))
  BY <1>5 DEF Matches, OfResolvers, Rule
<1>9. Route(BuildRouteRules(plane.split, allowLan, "tun", plan.target, plane.upstreams, plan.rules),
            Upstream(ip)) = plan.target
  <2> DEFINE c == Upstream(ip)
             split == plane.split
             target == plan.target
             upstreams == plane.upstreams
             provider == plan.rules
             rules == BuildRouteRules(split, allowLan, "tun", target, upstreams, provider)
  <2>1. /\ Undecided(provider, c)
        /\ ~AppsDecide(split, target, c) /\ ~SitesDecide(split, target, c)
        /\ Matches(OfResolvers(upstreams, target), c)
    BY Zenon, <1>2, <1>3, <1>6, <1>7, <1>8 DEF Undecided, AppsDecide, SitesDecide
  <2> HIDE DEF c, split, target, upstreams, provider
  <2>2. TunnelRoute(split, allowLan, target, upstreams, provider, c) = target
    <3>1. DecidedInOrder(split, allowLan, target, upstreams, provider, c)
      BY Zenon, <2>1, RouteOfTunnel
    <3> QED BY Zenon, <2>1, <3>1 DEF DecidedInOrder
  <2> QED BY Zenon, <2>2 DEF TunnelRoute, c, split, target, upstreams, provider
<1> QED BY Zenon, <1>2, <1>9

(* For every location, split and list of resolvers, Xray's DNS module        *)
(* reaches its resolvers by the location's own target, unless a rule of the  *)
(* provider's names them (xray.rs:1436-1446).                                *)
THEOREM ResolversStayInside == Spec => []ResolverThroughProxy
<1>1. PlaneInv => ResolverThroughProxy
  BY ResolversRouted
<1> QED BY <1>1, PlaneInit, PlaneStep, PTL DEF Spec

(***************************************************************************)
(* Dials                                                                   *)
(***************************************************************************)

(* A dial with the mark is never routed into the tunnel, and one without it  *)
(* only when it goes elsewhere than to the endpoint the routes keep out.     *)
LEMMA MarkedDialEscapes ==
  ASSUME NEW marked, NEW dst, NEW port, NEW name, name # "loop",
         Dial(marked, dst, port, name) = "loop"
  PROVE  ~marked /\ ~(dst = "server" /\ port = "web")
<1> DEFINE f == [who |-> IF marked THEN "xray" ELSE "app", dst |-> dst, port |-> port]
<1>0. f.dst = dst /\ f.port = port /\ f.who = IF marked THEN "xray" ELSE "app"
  OBVIOUS
<1>1. Fate(f) \in {"rejected", "dropped", "lo", "tun", "phys"} /\ (Fate(f) = "tun" => Oif(f) = "tun")
  BY DEF Fate, Oif
<1>2. Fate(f) = "tun"
  BY <1>1 DEF Dial
<1> HIDE DEF f
<1>3. Oif(f) = "tun"
  BY <1>1, <1>2
<1>4. ~marked
  <2> SUFFICES ASSUME marked PROVE FALSE
    OBVIOUS
  <2>1. SocketMark(f) = DialMark
    BY <1>0 DEF SocketMark
  <2>2. ~MarksDns(f)
    BY <2>1 DEF MarksDns
  <2>3. Mark(f) = DialMark
    BY <2>1, <2>2 DEF Mark
  <2>4. Mark(f) # DnsMark /\ Mark(f) # NoMark
    BY <2>3 DEF DialMark, DnsMark, NoMark
  <2> QED BY <1>3, <2>4 DEF Oif
<1>5. ~(dst = "server" /\ port = "web")
  <2> SUFFICES ASSUME dst = "server", port = "web" PROVE FALSE
    OBVIOUS
  <2>1. SocketMark(f) = NoMark
    BY <1>0, <1>4 DEF SocketMark
  <2>2. ~MarksDns(f)
    BY <1>0 DEF MarksDns
  <2>3. Mark(f) = NoMark
    BY <2>1, <2>2 DEF Mark
  <2>4. Mark(f) # DnsMark
    BY <2>3 DEF DnsMark, NoMark
  <2> QED BY <1>0, <1>3, <2>4 DEF Oif
<1> QED BY <1>4, <1>5

(* An outbound of a document is a proxy's, or one of the three of the system *)
(* under its own tag.                                                        *)
IsKnown(o) ==
  \/ Clean(o)
  \/ o.tag = "direct" /\ o.protocol = "freedom" /\ o.marked
  \/ o.tag = "dns-out" /\ o.protocol = "dns"
  \/ o.tag = "block" /\ o.protocol = "blackhole"

(* Known outbounds put together are known ones.                              *)
LEMMA JoinedAreKnown ==
  ASSUME NEW s, NEW t, IsList(s), IsList(t), \A i \in DOMAIN s : IsKnown(s[i]),
         \A i \in DOMAIN t : IsKnown(t[i]), NEW j \in DOMAIN (s \o t)
  PROVE  IsKnown((s \o t)[j])
<1>1. CASE j \in DOMAIN s
  <2>1. (s \o t)[j] = s[j]
    BY <1>1, JoinedIsList
  <2> QED BY <1>1, <2>1
<1>2. CASE j \notin DOMAIN s
  <2>1. j \in 1..(Len(s) + Len(t)) /\ Len(s) \in Nat /\ Len(t) \in Nat
    BY JoinedIsList
  <2>2. PICK i \in DOMAIN t : j = Len(s) + i
    <3>1. DOMAIN s = 1..Len(s) /\ DOMAIN t = 1..Len(t)
      BY JoinedIsList
    <3>2. j - Len(s) \in DOMAIN t /\ j = Len(s) + (j - Len(s))
      BY <1>2, <2>1, <3>1
    <3> QED BY <3>2
  <2>3. (s \o t)[Len(s) + i] = t[i]
    BY JoinedIsList
  <2> QED BY <2>2, <2>3
<1> QED BY <1>1, <1>2

(* The outbounds of a data document are known ones, the direct one too.      *)
LEMMA DocumentOutbounds ==
  ASSUME NEW proxies, IsList(proxies), \A i \in DOMAIN proxies : Clean(proxies[i])
  PROVE  /\ \A i \in DOMAIN (proxies \o SystemOutbounds) : IsKnown((proxies \o SystemOutbounds)[i])
         /\ \E i \in DOMAIN (proxies \o SystemOutbounds) :
              (proxies \o SystemOutbounds)[i].tag = "direct"
<1> DEFINE system == SystemOutbounds
<1>1. IsList(system) /\ DOMAIN system = 1..3
  <2> DEFINE a == DirectOutbound
             b == OwnOutbound("dns-out", "dns", FALSE)
             c == OwnOutbound("block", "blackhole", FALSE)
  <2>1. system = <<a, b, c>>
    BY DEF SystemOutbounds
  <2> HIDE DEF a, b, c, system
  <2> QED BY <2>1 DEF IsList, Range
<1>2. /\ system[1].tag = "direct" /\ system[1].protocol = "freedom" /\ system[1].marked
      /\ system[2].tag = "dns-out" /\ system[2].protocol = "dns"
      /\ system[3].tag = "block" /\ system[3].protocol = "blackhole"
  BY SMTT(40) DEF SystemOutbounds, OwnOutbound, DirectOutbound
<1> HIDE DEF system
<1>3. \A i \in DOMAIN system : IsKnown(system[i])
  BY <1>1, <1>2 DEF IsKnown
<1>4. \A i \in DOMAIN (proxies \o system) : IsKnown((proxies \o system)[i])
  <2>1. \A i \in DOMAIN proxies : IsKnown(proxies[i])
    BY DEF IsKnown
  <2> QED BY <1>1, <1>3, <2>1, JoinedAreKnown
<1>5. (proxies \o system)[Len(proxies) + 1] = system[1]
  <2>1. 1 \in DOMAIN system
    BY <1>1
  <2> QED BY <1>1, <2>1, JoinedIsList
<1>6. Len(proxies) + 1 \in DOMAIN (proxies \o system)
  <2>1. /\ Len(proxies) \in Nat /\ Len(system) \in Nat /\ 1..Len(system) = 1..3
        /\ DOMAIN (proxies \o system) = 1..(Len(proxies) + Len(system))
    BY Zenon, <1>1, JoinedIsList
  <2> QED BY <2>1
<1> QED BY <1>2, <1>4, <1>5, <1>6 DEF system

(* The outbounds a target may use.                                           *)
Used(document, to) ==
  {i \in DOMAIN document.outbounds :
    document.outbounds[i].tag \in
      IF to[1] = "outbound" THEN {to[2]}
      ELSE UNION {document.balancers[k].selects \cup {document.balancers[k].fallback} :
                   k \in {j \in DOMAIN document.balancers : document.balancers[j].tag = to[2]}}}

(* What an outbound does with a connection.                                  *)
Through(o) ==
  CASE o.protocol = "freedom" -> {Dial(o.marked, flow.dst, flow.port, "direct")}
    [] o.protocol = "dns" -> {"resolver"}
    [] o.protocol = "blackhole" -> {"blocked"}
    [] OTHER ->
         {Dial(o.marked, IF peer = 1 THEN "server" ELSE "net", "web", "proxied") :
           peer \in 1..o.peers}

(* A packet leaves through an outbound that its target may use.              *)
LEMMA ExitsAre ==
  ASSUME NEW document, NEW to, NEW e \in Exits(document, to)
  PROVE  \E i \in Used(document, to) : e \in Through(document.outbounds[i])
<1> DEFINE used == {document.outbounds[i] : i \in Used(document, to)}
<1>1. Exits(document, to) = UNION {Through(o) : o \in used}
  <2>1. CASE to[1] = "outbound"
    BY <2>1, Zenon DEF Exits, Used, Through
  <2>2. CASE to[1] # "outbound"
    BY <2>2, Zenon DEF Exits, Used, Through
  <2> QED BY <2>1, <2>2
<1> QED BY <1>1

(* What comes of a connection that goes through a known outbound.            *)
LEMMA ThroughKnown ==
  ASSUME NEW o, IsKnown(o), NEW e \in Through(o)
  PROVE  /\ e = "loop" => ~o.marked /\ o.peers > 1
         /\ e = "direct" => o.tag = "direct"
<1>1. CASE o.protocol = "freedom"
  <2>1. o.tag = "direct" /\ o.marked
    BY <1>1 DEF IsKnown, Clean
  <2>2. e = Dial(o.marked, flow.dst, flow.port, "direct")
    BY <1>1 DEF Through
  <2>3. e # "loop"
    BY Zenon, <2>1, <2>2, MarkedDialEscapes
  <2> QED BY <2>1, <2>3
<1>2. CASE o.protocol \in {"dns", "blackhole"}
  BY <1>2 DEF Through
<1>3. CASE o.protocol \notin {"freedom", "dns", "blackhole"}
  <2> DEFINE To(peer) == IF peer = 1 THEN "server" ELSE "net"
  <2>1. PICK peer \in 1..o.peers : e = Dial(o.marked, To(peer), "web", "proxied")
    BY <1>3, Zenon DEF Through
  <2>2. o.peers \in Nat
    BY <1>3 DEF IsKnown, Clean
  <2>3. e # "direct"
    BY <2>1 DEF Dial, Fate, Oif
  <2>4. ASSUME e = "loop" PROVE ~o.marked /\ To(peer) # "server"
    BY <2>1, <2>4, MarkedDialEscapes
  <2>5. To(peer) # "server" => peer # 1
    OBVIOUS
  <2> QED BY <2>1, <2>2, <2>3, <2>4, <2>5
<1> QED BY <1>1, <1>2, <1>3

(* Where a packet that Xray routes ends up.                                  *)
LEMMA SentThrough ==
  ASSUME PlaneInv, Send, Fate(flow) = "tun"
  PROVE  \E i \in Used(plane.document, Route(plane.document.rules, Inner(flow, conn))) :
           /\ i \in DOMAIN plane.document.outbounds
           /\ IsKnown(plane.document.outbounds[i])
           /\ exit' \in Through(plane.document.outbounds[i])
<1>1. plane # None /\ exit' \in Exits(plane.document, Route(plane.document.rules, Inner(flow, conn)))
  BY DEF Send
<1>2. PICK i \in Used(plane.document, Route(plane.document.rules, Inner(flow, conn))) :
        exit' \in Through(plane.document.outbounds[i])
  BY SMTT(40), <1>1, ExitsAre
<1>3. i \in DOMAIN plane.document.outbounds
  BY SMTT(40) DEF Used
<1>4. PICK choice \in Offers : \E plan \in OutboundPlans(choice.server) :
        /\ IsServer(choice.server) /\ ValidateServer(choice.server)
        /\ plane.document.outbounds = plan.proxies \o SystemOutbounds
  BY Zenon, <1>1, RunningPlan
<1>5. PICK plan \in OutboundPlans(choice.server) :
        /\ IsServer(choice.server) /\ ValidateServer(choice.server)
        /\ plane.document.outbounds = plan.proxies \o SystemOutbounds
  BY Zenon, <1>4
<1>6. IsList(plan.proxies) /\ \A k \in DOMAIN plan.proxies : Clean(plan.proxies[k])
  BY SMTT(40), <1>5, PlanFields
<1>7. IsKnown(plane.document.outbounds[i])
  BY <1>3, <1>5, <1>6, DocumentOutbounds
<1> QED BY <1>2, <1>3, <1>7

(* Every step keeps Xray's dials out of the tunnel.                          *)
LEMMA DialStep ==
  ASSUME PlaneInv, DialsEscape, [Next]_vars
  PROVE  DialsEscape'
<1>1. CASE Send
  <2> SUFFICES ASSUME exit' = "loop"
               PROVE  \E i \in DOMAIN plane.document.outbounds :
                        /\ ~plane.document.outbounds[i].marked
                        /\ plane.document.outbounds[i].peers > 1
    BY <1>1 DEF DialsEscape, Send
  <2>1. Fate(flow) = "tun"
    BY <1>1 DEF Send
  <2>2. PICK i \in DOMAIN plane.document.outbounds :
          /\ IsKnown(plane.document.outbounds[i])
          /\ exit' \in Through(plane.document.outbounds[i])
    BY SMTT(40), <1>1, <2>1, SentThrough
  <2> QED BY SMTT(40), <2>2, ThroughKnown
<1>2. ASSUME NEW choice \in Offers, Choose(choice) PROVE DialsEscape'
  BY SMTT(40), <1>2 DEF DialsEscape, Choose
<1>3. CASE Refuse \/ UNCHANGED vars
  BY <1>3 DEF DialsEscape, Refuse, vars
<1>4. CASE Connect \/ Relayer \/ NewFlow \/ EndFlow
  <2>1. exit' = "none"
    BY <1>4 DEF Connect, Relayer, NewFlow, EndFlow
  <2> QED BY SMTT(40), <2>1 DEF DialsEscape
<1> QED BY <1>1, <1>2, <1>3, <1>4 DEF Next

(* For every location, no dial of Xray's comes back into the tunnel, whatever*)
(* its outbound, the layers and the connection, but for an outbound without  *)
(* the mark that has a second peer (xray.rs:279-284, 1071-1084).             *)
THEOREM DialsStayOut == Spec => []DialsEscape
<1>1. Init => DialsEscape
  BY DEF Init, DialsEscape
<1> QED BY <1>1, PlaneInit, PlaneStep, DialStep, PTL DEF Spec

(***************************************************************************)
(* What leaves in the clear                                                *)
(***************************************************************************)

(* The rule of a chain that decides is one that matches, and the first.      *)
LEMMA FirstHit ==
  ASSUME NEW rules, NEW n \in Nat, DOMAIN rules = 1..n, NEW policy
  PROVE  \/ /\ \A i \in DOMAIN rules : ~rules[i].match
            /\ Verdict(rules, policy) = policy
         \/ \E i \in DOMAIN rules :
              /\ rules[i].match /\ Verdict(rules, policy) = rules[i].verdict
              /\ \A j \in DOMAIN rules : rules[j].match => i <= j
<1> DEFINE hits == {i \in DOMAIN rules : rules[i].match}
<1>1. Verdict(rules, policy) = IF hits = {} THEN policy ELSE rules[FirstOf(hits)].verdict
  BY DEF Verdict
<1>2. CASE hits = {}
  BY SMTT(40), <1>1, <1>2
<1>3. CASE hits # {}
  <2>1. hits \in SUBSET Nat
    OBVIOUS
  <2>2. PICK i \in hits : \A j \in hits : i <= j
    <3> HIDE DEF hits
    <3> QED BY <1>3, <2>1, Least
  <2>3. FirstOf(hits) = i
    <3> HIDE DEF hits
    <3> QED BY <2>1, <2>2, FirstIs
  <2> QED BY Zenon, <1>1, <1>3, <2>2, <2>3
<1> QED BY <1>2, <1>3

(* The layers of a standing tunnel let a connection to the internet through  *)
(* when it goes into the tunnel or carries a mark.                           *)
LEMMA WebPasses ==
  ASSUME NEW f, f.dst = "net", f.port = "web", stage \in Guarded,
         Oif(f) = "tun" \/ Mark(f) \in {DnsMark, DialMark, BypassMark}
  PROVE  Fate(f) = Oif(f)
<1>1. Verdict(DirectDnsRules(f), "accept") # "reject"
  <2> DEFINE rules == DirectDnsRules(f)
  <2>1. DOMAIN rules = {1} /\ 1..1 = {1}
    BY DEF DirectDnsRules
  <2>2. ~rules[1].match
    BY Zenon DEF DirectDnsRules, On
  <2> HIDE DEF rules
  <2>3. Verdict(rules, "accept") = "accept"
    BY Zenon, <2>1, <2>2, FirstHit
  <2> QED BY <2>3 DEF rules
<1>2. Verdict(DnsGuardRules(f), "accept") # "reject"
  <2> DEFINE rules == DnsGuardRules(f)
  <2>1. DOMAIN rules = 1..5
    BY DEF DnsGuardRules
  <2>2. ~rules[5].match
    BY Zenon DEF DnsGuardRules, On
  <2>3. /\ rules[1].verdict = "accept" /\ rules[2].verdict = "accept"
        /\ rules[3].verdict = "accept" /\ rules[4].verdict = "accept"
    BY SMTT(40) DEF DnsGuardRules, On
  <2> HIDE DEF rules
  <2>4. Verdict(rules, "accept") = "accept"
    <3>1. \/ Verdict(rules, "accept") = "accept"
          \/ \E i \in 1..5 : rules[i].match /\ Verdict(rules, "accept") = rules[i].verdict
      BY Zenon, <2>1, FirstHit
    <3>2. ASSUME NEW i \in 1..5, rules[i].match PROVE rules[i].verdict = "accept"
      <4>1. i \in {1, 2, 3, 4}
        BY <2>2, <3>2
      <4> QED BY <2>3, <4>1
    <3> QED BY <3>1, <3>2
  <2> QED BY <2>4 DEF rules
<1>3. Verdict(KillswitchRules(f), "drop") # "drop"
  <2> DEFINE rules == KillswitchRules(f)
  <2>1. DOMAIN rules = 1..7
    BY DEF KillswitchRules
  <2>2. rules[1].match \/ rules[2].match
    BY Zenon DEF KillswitchRules, On
  <2>3. rules[1].verdict = "accept" /\ rules[2].verdict = "accept"
    BY SMTT(40) DEF KillswitchRules, On
  <2> HIDE DEF rules
  <2>4. Verdict(rules, "drop") = "accept"
    <3>1. PICK i \in 1..7 : /\ Verdict(rules, "drop") = rules[i].verdict
                           /\ \A j \in 1..7 : rules[j].match => i <= j
      <4>1. \E i \in 1..7 : rules[i].match
        BY <2>2
      <4>2. 7 \in Nat
        OBVIOUS
      <4> QED BY <2>1, <4>1, <4>2, FirstHit, Zenon
    <3>2. i \in {1, 2}
      BY <2>2, <3>1
    <3> QED BY <2>3, <3>1, <3>2
  <2> QED BY <2>4 DEF rules
<1> QED BY <1>1, <1>2, <1>3 DEF Fate

(* Its fate, by who sends it.                                                *)
LEMMA WebFate ==
  ASSUME NEW f, f.dst = "net", f.port = "web", stage \in Guarded
  PROVE  /\ f.who = "app" => Fate(f) = "tun"
         /\ f.who \in {"excluded", "xray"} => Fate(f) = "phys"
<1>1. Mark(f) = SocketMark(f)
  BY DEF Mark, MarksDns
<1>2. stage \in Routed
  BY DEF Guarded, Routed
<1>3. ASSUME f.who = "app" PROVE Fate(f) = "tun"
  <2>1. Mark(f) = NoMark
    BY <1>1, <1>3 DEF SocketMark
  <2>2. Oif(f) = "tun"
    BY <1>2, <2>1 DEF Oif
  <2> QED BY <2>2, WebPasses
<1>4. ASSUME f.who \in {"excluded", "xray"} PROVE Fate(f) = "phys"
  <2>1. Mark(f) \in {DialMark, BypassMark}
    BY <1>1, <1>4 DEF SocketMark
  <2>2. Mark(f) # NoMark /\ Mark(f) # DnsMark
    BY <2>1 DEF DialMark, BypassMark, NoMark, DnsMark
  <2>3. Oif(f) = "phys"
    BY SMTT(40), <2>2 DEF Oif
  <2> QED BY <2>1, <2>3, WebPasses
<1> QED BY <1>3, <1>4

(* A plan's target is one of its proxies or of its balancers.                *)
LEMMA PlanTarget ==
  ASSUME NEW server, IsServer(server), ValidateServer(server), NEW plan \in OutboundPlans(server)
  PROVE  plan.target \in {Outbound(t) : t \in Tags(plan.proxies)}
                           \cup {Balancer(t) : t \in Tags(plan.balancers)}
<1> DEFINE profile == server.profile
           proxies == ProviderProxyOutbounds(profile)
           single == BuildProxyOutbound(server)
<1>1. CASE profile # None /\ Composite(profile, proxies)
  <2>1. /\ proxies # None /\ plan.proxies = proxies /\ plan.balancers = profile.balancers
        /\ plan.target \in Targets(profile, proxies)
    BY Zenon, <1>1 DEF OutboundPlans
  <2> DEFINE known == {Balancer(t) : t \in Tags(profile.balancers)}
                        \cup {Outbound(t) : t \in Tags(proxies)}
             naming == {i \in DOMAIN profile.rules : profile.rules[i].to \in known}
  <2>2. CASE naming # {}
    <3>1. profile.rules \in Seq(Range(profile.rules))
      BY SMTT(40), <1>1 DEF IsServer, IsList
    <3>2. Len(profile.rules) \in Nat /\ naming \in SUBSET (1..Len(profile.rules))
      BY <3>1
    <3>3. LastOf(naming) \in naming
      <4> HIDE DEF naming
      <4> QED BY Zenon, <2>2, <3>2, LastIs
    <3>4. plan.target = profile.rules[LastOf(naming)].to
      BY Zenon, <2>1, <2>2 DEF Targets
    <3>5. plan.target \in known
      BY Zenon, <3>3, <3>4
    <3> QED BY SMTT(40), <2>1, <3>5
  <2>3. CASE naming = {} /\ profile.balancers # <<>>
    <3>1. plan.target \in {Balancer(t) : t \in Tags(profile.balancers)}
      BY Zenon, <2>1, <2>3 DEF Targets
    <3> QED BY <2>1, <3>1
  <2>4. CASE naming = {} /\ profile.balancers = <<>>
    <3>1. plan.target = Outbound(proxies[1].tag)
      BY Zenon, <2>1, <2>4 DEF Targets
    <3>2. 1 \in DOMAIN proxies
      BY Zenon, <1>1, <2>1, ProviderProxiesAreClean DEF IsServer
    <3> HIDE DEF proxies
    <3> QED BY <2>1, <3>1, <3>2 DEF Tags
  <2> QED BY Zenon, <2>2, <2>3, <2>4
<1>2. CASE ~(profile # None /\ Composite(profile, proxies))
  <2>1. single # None /\ plan.proxies = <<single>> /\ plan.target = Outbound("proxy")
    BY Zenon, <1>2, SinglePlan
  <2>2. single.tag = "proxy"
    BY Zenon, <2>1 DEF BuildProxyOutbound, SanitizeRawOutbound
  <2> HIDE DEF single
  <2> QED BY <2>1, <2>2 DEF Tags
<1> QED BY SMTT(40), <1>1, <1>2

(* The rule that decides for an application's connection to the internet     *)
(* that no rule of the provider's names.                                     *)
LEMMA WebRoute ==
  ASSUME NEW split, NEW lan, NEW target, NEW upstreams, NEW provider,
         NEW f, NEW c, f.dst = "net", f.port = "web", "net" \notin upstreams,
         IsList(provider), ~Decides(provider, Inner(f, c))
  PROVE  Route(BuildRouteRules(split, lan, "tun", target, upstreams, provider), Inner(f, c))
         = IF \/ c.process \in split.apps /\ split.appsSelective
              \/ c.process \notin split.apps /\ c.domain \in split.sites /\ split.sitesSelective
              \/ c.process \notin split.apps /\ c.domain \notin split.sites
                   /\ ~split.appsSelective /\ ~split.sitesSelective
           THEN target ELSE Outbound("direct")
<1> DEFINE conn_ == Inner(f, c)
           rules == BuildRouteRules(split, lan, "tun", target, upstreams, provider)
<1>1. /\ DOMAIN conn_ = {"inbound", "port", "ip", "process", "domain", "protocol"}
      /\ conn_.port = "web" /\ conn_.ip = "net" /\ conn_.process = c.process
      /\ conn_.domain = c.domain
  BY Zenon DEF Inner
<1> HIDE DEF conn_
<1>2. ~Matches(OfDns, conn_) /\ ~Matches(OfLan, conn_)
  BY SMTT(40), <1>1 DEF Matches, OfDns, OfLan, Rule
<1>3. Matches(OfApps(split, target), conn_) <=> c.process \in split.apps
  BY SMTT(40), <1>1 DEF Matches, OfApps, Rule
<1>4. Matches(OfSites(split, target), conn_) <=> c.domain \in split.sites
  BY SMTT(40), <1>1 DEF Matches, OfSites, Rule
<1>5. ~Matches(OfResolvers(upstreams, target), conn_)
  BY <1>1 DEF Matches, OfResolvers, Rule
<1>6. /\ c.process \in split.apps => Route(rules, conn_) = OfApps(split, target).to
      /\ c.process \notin split.apps /\ c.domain \in split.sites =>
           Route(rules, conn_) = OfSites(split, target).to
      /\ c.process \notin split.apps /\ c.domain \notin split.sites =>
           Route(rules, conn_) = OfTheRest(split, target).to
  <2>1. ~Decides(provider, conn_)
    BY DEF conn_
  <2> HIDE DEF rules
  <2>2. /\ AppsDecide(split, target, conn_) <=> c.process \in split.apps
        /\ SitesDecide(split, target, conn_) <=> c.domain \in split.sites
    BY Zenon, <1>3, <1>4 DEF AppsDecide, SitesDecide
  <2>3. TunnelRoute(split, lan, target, upstreams, provider, conn_) = Route(rules, conn_)
    BY Zenon DEF TunnelRoute, rules
  <2>4. /\ AppsDecide(split, target, conn_) =>
             Route(rules, conn_) = OfApps(split, target).to
        /\ ~AppsDecide(split, target, conn_) /\ SitesDecide(split, target, conn_) =>
             Route(rules, conn_) = OfSites(split, target).to
        /\ ~AppsDecide(split, target, conn_) /\ ~SitesDecide(split, target, conn_) =>
             Route(rules, conn_) = OfTheRest(split, target).to
    <3>1. Undecided(provider, conn_)
      BY Zenon, <1>2, <2>1 DEF Undecided
    <3>2. DecidedInOrder(split, lan, target, upstreams, provider, conn_)
      BY Zenon, <3>1, RouteOfTunnel
    <3> QED BY Zenon, <1>5, <2>3, <3>2 DEF DecidedInOrder
  <2> QED BY Zenon, <2>2, <2>4
<1>7. /\ OfApps(split, target).to = IF split.appsSelective THEN target ELSE Outbound("direct")
      /\ OfSites(split, target).to = IF split.sitesSelective THEN target ELSE Outbound("direct")
      /\ OfTheRest(split, target).to = IF split.appsSelective \/ split.sitesSelective
                                       THEN Outbound("direct") ELSE target
  BY DEF OfApps, OfSites, OfTheRest, Rule, DefaultUsesProxy
<1> HIDE DEF rules
<1>8. Route(rules, conn_)
         = IF \/ c.process \in split.apps /\ split.appsSelective
              \/ c.process \notin split.apps /\ c.domain \in split.sites /\ split.sitesSelective
              \/ c.process \notin split.apps /\ c.domain \notin split.sites
                   /\ ~split.appsSelective /\ ~split.sitesSelective
           THEN target ELSE Outbound("direct")
  BY Zenon, <1>6, <1>7
<1> QED BY Zenon, <1>8 DEF rules, conn_

(* A connection that Xray hands to the direct outbound leaves in the clear.  *)
LEMMA DirectLeaves ==
  ASSUME NEW o, IsKnown(o), o.tag = "direct", NEW e \in Through(o),
         flow.dst = "net", flow.port = "web", stage \in Guarded
  PROVE  e = "direct"
<1>1. o.protocol = "freedom" /\ o.marked
  BY DEF IsKnown, Clean, Reserved
<1>2. e = Dial(o.marked, "net", "web", "direct")
  BY <1>1 DEF Through
<1> DEFINE f == [who |-> "xray", dst |-> "net", port |-> "web"]
<1>3. f.who = "xray" /\ f.dst = "net" /\ f.port = "web"
  OBVIOUS
<1>4. Dial(o.marked, "net", "web", "direct")
        = CASE Fate(f) = "tun" -> "loop"
            [] Fate(f) \in {"phys", "lo"} -> "direct"
            [] OTHER -> Fate(f)
  BY <1>1 DEF Dial
<1> HIDE DEF f
<1>5. Fate(f) = "phys"
  BY SMTT(40), <1>3, WebFate
<1> QED BY <1>2, <1>4, <1>5

(* The outbounds that a plan's target may use are none of the system's,      *)
(* unless a balancer takes one of them for a proxy.                          *)
LEMMA TargetIsNotDirect ==
  ASSUME NEW document, NEW plan,
         document.balancers = plan.balancers,
         \A k \in DOMAIN plan.proxies : Clean(plan.proxies[k]),
         plan.target \in {Outbound(t) : t \in Tags(plan.proxies)}
                           \cup {Balancer(t) : t \in Tags(plan.balancers)},
         \A k \in DOMAIN document.balancers :
           (document.balancers[k].selects \cup {document.balancers[k].fallback}) \cap Reserved = {},
         NEW i \in Used(document, plan.target)
  PROVE  document.outbounds[i].tag # "direct"
<1>1. CASE plan.target \in {Outbound(t) : t \in Tags(plan.proxies)}
  <2>1. PICK k \in DOMAIN plan.proxies : plan.target = Outbound(plan.proxies[k].tag)
    BY SMTT(40), <1>1 DEF Tags
  <2>2. plan.target[1] = "outbound" /\ plan.target[2] = plan.proxies[k].tag
    BY SMTT(40), <2>1 DEF Outbound
  <2>3. document.outbounds[i].tag = plan.proxies[k].tag
    BY SMTT(40), <2>2 DEF Used
  <2> QED BY SMTT(40), <2>3 DEF Clean, Reserved
<1>2. CASE plan.target \in {Balancer(t) : t \in Tags(plan.balancers)}
  <2>1. plan.target[1] # "outbound"
    BY SMTT(40), <1>2 DEF Balancer
  <2>2. \E k \in DOMAIN document.balancers :
          document.outbounds[i].tag \in
            document.balancers[k].selects \cup {document.balancers[k].fallback}
    BY Zenon, <2>1 DEF Used
  <2> QED BY Zenon, <2>2 DEF Reserved
<1> QED BY SMTT(40), <1>1, <1>2

(* A flow that an application opened is an application's.                    *)
FlowInv == flow # NoFlow => flow.who \in {"app", "excluded"}

(* Every step keeps that.                                                    *)
LEMMA FlowStep ==
  ASSUME FlowInv, [Next]_vars
  PROVE  FlowInv'
<1>1. CASE NewFlow
  BY <1>1 DEF NewFlow, FilterNewFlow, Sender, FlowInv
<1>2. CASE EndFlow
  BY <1>2 DEF EndFlow, FilterNewFlow, FlowInv
<1>3. ASSUME NEW choice \in Offers, Choose(choice) PROVE FlowInv'
  BY <1>3 DEF Choose, FlowInv
<1>4. CASE Refuse \/ Connect \/ Relayer \/ Send \/ UNCHANGED vars
  <2>1. flow' = flow
    BY Zenon, <1>4 DEF Refuse, Connect, Relayer, Send, FilterRelayer, FilterSend, vars
  <2> QED BY SMTT(40), <2>1 DEF FlowInv
<1> QED BY <1>1, <1>2, <1>3, <1>4 DEF Next

(* What the split says of a connection, as LeavesAsAsked reads it.           *)
KeptOut(split, c) ==
  CASE c.process \in split.apps -> ~split.appsSelective
    [] c.process \notin split.apps /\ c.domain \in split.sites -> ~split.sitesSelective
    [] OTHER -> split.appsSelective \/ split.sitesSelective

(* A packet of a flow leaves as the split says.                              *)
LEMMA LeavesSend ==
  ASSUME PlaneInv, FlowInv, Send
  PROVE  LeavesAsAsked'
<1>1. /\ plane' = plane /\ stage' = stage /\ flow' = flow /\ conn' = conn /\ out' = Fate(flow)
      /\ plane # None /\ flow.who \in {"app", "excluded"}
  BY DEF Send, FilterSend, FlowInv
<1> SUFFICES ASSUME stage \in Guarded, flow.dst = "net", flow.port = "web",
                    flow.who = "excluded" => Sender(conn) = "excluded",
                    ~Decides(plane.document.provider, Inner(flow, conn)),
                    \A i \in DOMAIN plane.document.balancers :
                      (plane.document.balancers[i].selects
                         \cup {plane.document.balancers[i].fallback}) \cap Reserved = {}
             PROVE  (out' = "phys" \/ exit' = "direct") <=> KeptOut(plane.split, conn)
  BY Zenon, <1>1 DEF LeavesAsAsked, KeptOut, Decides, Inner, Matches, Sender
<1>2. CASE flow.who = "excluded"
  <2>1. out' = "phys"
    BY <1>1, <1>2, WebFate
  <2>2. KeptOut(plane.split, conn)
    BY SMTT(40), <1>2 DEF Sender, KeptOut
  <2> QED BY SMTT(40), <2>1, <2>2
<1>3. CASE flow.who = "app"
  <2>1. out' = "tun" /\ Fate(flow) = "tun"
    BY SMTT(40), <1>1, <1>3, WebFate
  <2>2. PICK i \in Used(plane.document, Route(plane.document.rules, Inner(flow, conn))) :
          /\ IsKnown(plane.document.outbounds[i])
          /\ exit' \in Through(plane.document.outbounds[i])
    BY <2>1, SentThrough
  <2>3. PICK choice \in Offers : \E plan \in OutboundPlans(choice.server) :
          /\ IsServer(choice.server) /\ ValidateServer(choice.server)
          /\ plane.split = choice.split /\ plane.upstreams = DnsUpstreams(choice.server)
          /\ plane.document.balancers = plan.balancers
          /\ plane.document.provider = plan.rules
          /\ plane.document.rules = BuildRouteRules(plane.split, allowLan, "tun", plan.target,
                                                   plane.upstreams, plan.rules)
    BY Zenon, <1>1, RunningPlan
  <2>4. PICK plan \in OutboundPlans(choice.server) :
          /\ IsServer(choice.server) /\ ValidateServer(choice.server)
          /\ plane.split = choice.split /\ plane.upstreams = DnsUpstreams(choice.server)
          /\ plane.document.balancers = plan.balancers
          /\ plane.document.provider = plan.rules
          /\ plane.document.rules = BuildRouteRules(plane.split, allowLan, "tun", plan.target,
                                                   plane.upstreams, plan.rules)
    BY Zenon, <2>3
  <2>5. /\ IsList(plan.rules) /\ \A k \in DOMAIN plan.proxies : Clean(plan.proxies[k])
        /\ "net" \notin plane.upstreams
    BY Zenon, <2>4, PlanFields, UpstreamsAreRemote
  <2>6. plane.split.appsSelective \in BOOLEAN /\ plane.split.sitesSelective \in BOOLEAN
    BY Zenon, <2>4, OffersAssumption
  <2>7. Route(plane.document.rules, Inner(flow, conn))
          = IF KeptOut(plane.split, conn) THEN Outbound("direct") ELSE plan.target
    <3> DEFINE apps == plane.split.apps
               sites == plane.split.sites
               a == plane.split.appsSelective
               b == plane.split.sitesSelective
    <3>1. Route(plane.document.rules, Inner(flow, conn))
            = IF \/ conn.process \in apps /\ a
                 \/ conn.process \notin apps /\ conn.domain \in sites /\ b
                 \/ conn.process \notin apps /\ conn.domain \notin sites /\ ~a /\ ~b
              THEN plan.target ELSE Outbound("direct")
      <4> DEFINE split == plane.split
                 target == plan.target
                 upstreams == plane.upstreams
                 provider == plan.rules
                 rules == BuildRouteRules(split, allowLan, "tun", target, upstreams, provider)
      <4>1. /\ IsList(provider) /\ ~Decides(provider, Inner(flow, conn)) /\ "net" \notin upstreams
            /\ plane.document.rules = rules
        BY Zenon, <2>4, <2>5
      <4> HIDE DEF split, target, upstreams, provider
      <4>2. Route(rules, Inner(flow, conn))
              = IF \/ conn.process \in split.apps /\ split.appsSelective
                   \/ conn.process \notin split.apps /\ conn.domain \in split.sites
                        /\ split.sitesSelective
                   \/ conn.process \notin split.apps /\ conn.domain \notin split.sites
                        /\ ~split.appsSelective /\ ~split.sitesSelective
                THEN target ELSE Outbound("direct")
        BY Zenon, <4>1, WebRoute
      <4> HIDE DEF rules
      <4> QED BY Zenon, <4>1, <4>2 DEF split, target
    <3>2. KeptOut(plane.split, conn) <=>
            ~ \/ conn.process \in apps /\ a
              \/ conn.process \notin apps /\ conn.domain \in sites /\ b
              \/ conn.process \notin apps /\ conn.domain \notin sites /\ ~a /\ ~b
      BY <2>6 DEF KeptOut
    <3> QED BY Zenon, <3>1, <3>2
  <2>8. CASE KeptOut(plane.split, conn)
    <3>1. plane.document.outbounds[i].tag = "direct"
      <4>1. i \in Used(plane.document, Outbound("direct"))
        BY Zenon, <2>2, <2>7, <2>8
      <4>2. Outbound("direct")[1] = "outbound" /\ Outbound("direct")[2] = "direct"
        BY DEF Outbound
      <4>3. Used(plane.document, Outbound("direct"))
              = {k \in DOMAIN plane.document.outbounds : plane.document.outbounds[k].tag \in {"direct"}}
        BY Zenon, <4>2 DEF Used
      <4> QED BY Zenon, <4>1, <4>3
    <3>2. exit' = "direct"
      BY Zenon, <2>2, <3>1, DirectLeaves
    <3> QED BY Zenon, <2>8, <3>2
  <2>9. CASE ~KeptOut(plane.split, conn)
    <3>1. i \in Used(plane.document, plan.target)
      BY Zenon, <2>2, <2>7, <2>9
    <3>2. plan.target \in {Outbound(t) : t \in Tags(plan.proxies)}
                             \cup {Balancer(t) : t \in Tags(plan.balancers)}
      BY Zenon, <2>4, PlanTarget
    <3>3. plane.document.outbounds[i].tag # "direct"
      BY ZenonT(40), <2>4, <2>5, <3>1, <3>2, TargetIsNotDirect
    <3>4. exit' # "direct"
      BY Zenon, <2>2, <3>3, ThroughKnown
    <3> QED BY Zenon, <2>1, <2>9, <3>4
  <2> QED BY SMTT(40), <2>8, <2>9
<1> QED BY <1>1, <1>2, <1>3

(* Every other step leaves the last packet as it was, or there is none.      *)
LEMMA LeavesStep ==
  ASSUME PlaneInv, FlowInv, LeavesAsAsked, [Next]_vars
  PROVE  LeavesAsAsked'
<1>1. CASE Send
  BY <1>1, LeavesSend
<1>2. CASE Connect \/ Relayer \/ NewFlow \/ EndFlow
  <2>1. out' = "none"
    BY Zenon, <1>2 DEF Connect, Relayer, NewFlow, EndFlow, FilterRelayer, FilterNewFlow
  <2> QED BY SMTT(40), <2>1 DEF LeavesAsAsked
<1>3. CASE UNCHANGED <<stage, flow, out, plane, conn, exit>>
  BY Zenon, <1>3 DEF LeavesAsAsked, Sender, Inner, Matches
<1>4. ASSUME NEW choice \in Offers, Choose(choice)
      PROVE  UNCHANGED <<stage, flow, out, plane, conn, exit>>
  BY <1>4 DEF Choose
<1>5. ASSUME Refuse \/ UNCHANGED vars PROVE UNCHANGED <<stage, flow, out, plane, conn, exit>>
  BY <1>5 DEF Refuse, vars
<1> QED BY <1>1, <1>2, <1>3, <1>4, <1>5 DEF Next

(* For every location, split and list, with the tunnel up, an application's  *)
(* connection to the internet that no rule or balancer of the provider's     *)
(* takes leaves the host in the clear exactly when the split says so         *)
(* (xray.rs:1351-1364, main.rs:486-493).                                     *)
THEOREM SplitIsKept == Spec => []LeavesAsAsked
<1>1. Init => FlowInv /\ LeavesAsAsked
  BY DEF Init, FlowInv, LeavesAsAsked
<1> QED BY <1>1, PlaneInit, PlaneStep, FlowStep, LeavesStep, PTL DEF Spec

(***************************************************************************)
(* What the daemon accepts                                                 *)
(***************************************************************************)

(* An Option's None is no record and no list of anything.                    *)
NoneIsNothing == None # [x \in DOMAIN None |-> None[x]]

(* The documents, lists and outbounds are therefore none of it.              *)
LEMMA FunctionIsSome ==
  ASSUME NoneIsNothing, NEW f, f = [x \in DOMAIN f |-> f[x]]
  PROVE  f # None
  BY Zenon DEF NoneIsNothing

(* A proxy's outbound that the daemon has nothing against.                   *)
Fit(o) ==
  /\ o.tag \notin Reserved /\ o.tag # "" /\ o.protocol \in ProxyProtocols /\ o.files = {}
  /\ o.protocol = "wireguard" \/ o.marked

(* The first of what is selected is one of it.                               *)
LEMMA FirstSelected ==
  ASSUME NEW list, IsList(list), NEW kept \in SUBSET DOMAIN list, kept # {}
  PROVE  \E i \in kept : Selected(list, kept)[1] = list[i]
<1>1. IsFiniteSet(kept) /\ Cardinality(kept) \in Nat /\ Cardinality(kept) # 0
  <2>1. DOMAIN list = 1..Len(list) /\ Len(list) \in Nat
    BY DEF IsList
  <2>2. IsFiniteSet(1..Len(list))
    BY <2>1, FS_Interval
  <2>3. IsFiniteSet(kept)
    BY <2>1, <2>2, FS_Subset
  <2> QED BY <2>3, FS_CardinalityType, FS_EmptySet
<1>2. DOMAIN Selected(list, kept) = 1..Cardinality(kept)
  BY DEF Selected
<1>3. 1 \in DOMAIN Selected(list, kept)
  BY <1>1, <1>2
<1> QED BY <1>3, SelectedIsList

(* No more is selected than there is.                                        *)
LEMMA SelectedLen ==
  ASSUME NEW list, IsList(list), NEW kept \in SUBSET DOMAIN list
  PROVE  Len(Selected(list, kept)) \in 0..Len(list)
<1>1. DOMAIN list = 1..Len(list) /\ Len(list) \in Nat
  BY DEF IsList
<1>2. IsFiniteSet(1..Len(list)) /\ Cardinality(1..Len(list)) = Len(list)
  BY <1>1, FS_Interval
<1>3. Cardinality(kept) <= Len(list) /\ Cardinality(kept) \in Nat
  <2>1. kept \in SUBSET (1..Len(list))
    BY <1>1
  <2> QED BY <1>2, <2>1, FS_Subset, FS_CardinalityType
<1>4. Selected(list, kept) \in Seq(Range(list))
  BY SelectedIsList
<1>5. DOMAIN Selected(list, kept) = 1..Cardinality(kept)
  BY DEF Selected
<1>6. Len(Selected(list, kept)) \in Nat /\ 1..Len(Selected(list, kept)) = 1..Cardinality(kept)
  BY <1>4, <1>5
<1>7. Len(Selected(list, kept)) = Cardinality(kept)
  BY <1>3, <1>6
<1> QED BY <1>1, <1>3, <1>7

(* sanitize_raw_outbound makes an ordinary proxy's outbound fit.             *)
LEMMA SanitizedIsFit ==
  ASSUME NEW o, NEW preserve, o.files = {}, o.protocol # "VLESS", IsProxyProtocol(o.protocol),
         preserve => o.tag \notin Reserved /\ o.tag # ""
  PROVE  /\ Fit(SanitizeRawOutbound(o, preserve))
         /\ SanitizeRawOutbound(o, preserve).tag = IF preserve THEN o.tag ELSE "proxy"
<1> DEFINE clean == [tag |-> IF preserve THEN o.tag ELSE "proxy", protocol |-> o.protocol,
                     files |-> o.files, peers |-> o.peers,
                     marked |-> Lower(o.protocol) # "wireguard"]
<1>1. SanitizeRawOutbound(o, preserve) = clean
  BY Zenon DEF SanitizeRawOutbound, ContainsForbiddenProviderFileReference
<1>2. /\ clean.tag = (IF preserve THEN o.tag ELSE "proxy") /\ clean.protocol = o.protocol
      /\ clean.files = {} /\ clean.marked = (Lower(o.protocol) # "wireguard")
  BY Zenon
<1> HIDE DEF clean
<1>3. o.protocol \in ProxyProtocols /\ Lower(o.protocol) = o.protocol
  BY Zenon DEF IsProxyProtocol, Lower
<1>4. clean.protocol = "wireguard" \/ clean.marked
  BY Zenon, <1>2, <1>3
<1>5. clean.tag \notin Reserved /\ clean.tag # ""
  BY Zenon, <1>2 DEF Reserved
<1> QED BY Zenon, <1>1, <1>2, <1>3, <1>4, <1>5 DEF Fit

(* The daemon takes one outbound at least.                                   *)
LEMMA SomeAreTaken == MaxServerIps \in Nat /\ MaxServerIps >= 1
<1>1. MaxServerIps \in Nat \ {0}
  BY DocumentAssumption, Zenon
<1> QED BY <1>1

(* The proxies of an ordinary profile: no more than the daemon takes, each   *)
(* of them fit.                                                              *)
LEMMA ProviderProxiesFit ==
  ASSUME NEW profile, IsList(profile.outbounds), Len(profile.outbounds) <= MaxServerIps,
         \A i \in DOMAIN profile.outbounds :
           /\ IsOutbound(profile.outbounds[i])
           /\ profile.outbounds[i].files = {} /\ profile.outbounds[i].protocol # "VLESS",
         ProviderProxyOutbounds(profile) # None
  PROVE  /\ Len(ProviderProxyOutbounds(profile)) \in 1..MaxServerIps
         /\ \A i \in DOMAIN ProviderProxyOutbounds(profile) :
              Fit(ProviderProxyOutbounds(profile)[i])
<1> DEFINE named == [i \in DOMAIN profile.outbounds |->
                      [profile.outbounds[i] EXCEPT !.tag = IF @ = "" THEN DefaultTags[i] ELSE @]]
           kept == {i \in DOMAIN named : IsProxyProtocol(named[i].protocol)}
           proxies == Selected(named, kept)
           clean == [i \in DOMAIN proxies |-> SanitizeRawOutbound(proxies[i], TRUE)]
<1>1. /\ ProviderProxyOutbounds(profile) = clean /\ proxies # <<>>
      /\ Tags(proxies) \cap Reserved = {}
  BY Zenon DEF ProviderProxyOutbounds
<1>2. DOMAIN profile.outbounds = 1..Len(profile.outbounds) /\ Len(profile.outbounds) \in Nat
  BY DEF IsList
<1>3. ASSUME NEW i \in DOMAIN named
      PROVE  named[i].files = {} /\ named[i].protocol # "VLESS" /\ named[i].tag # ""
  <2> DEFINE o == profile.outbounds[i]
             tag == IF o.tag = "" THEN DefaultTags[i] ELSE o.tag
  <2>1. named[i] = [o EXCEPT !.tag = tag] /\ IsOutbound(o) /\ o.files = {} /\ o.protocol # "VLESS"
    BY Zenon
  <2>2. i \in 1..MaxServerIps
    BY <1>2, SomeAreTaken
  <2>3. tag # ""
    BY <2>2, DocumentAssumption, Zenon
  <2> HIDE DEF o, tag, named
  <2>4. "tag" \in DOMAIN o /\ "files" \in DOMAIN o /\ "protocol" \in DOMAIN o
    BY <2>1 DEF IsOutbound
  <2>5. /\ [o EXCEPT !.tag = tag]["tag"] = tag /\ [o EXCEPT !.tag = tag]["files"] = o["files"]
        /\ [o EXCEPT !.tag = tag]["protocol"] = o["protocol"]
    BY <2>4
  <2> QED BY Zenon, <2>1, <2>3, <2>5
<1>4. IsList(named) /\ Len(named) = Len(profile.outbounds)
  <2>1. DOMAIN named = 1..Len(profile.outbounds) /\ named = [i \in DOMAIN named |-> named[i]]
    BY Zenon, <1>2
  <2> HIDE DEF named
  <2>2. \A i \in DOMAIN named : named[i] \in Range(named)
    BY DEF Range
  <2>3. named \in Seq(Range(named))
    BY <1>2, <2>1, <2>2
  <2>4. Len(named) \in Nat /\ 1..Len(named) = 1..Len(profile.outbounds)
    BY SMTT(40), <2>1, <2>3
  <2> QED BY <1>2, <2>3, <2>4 DEF IsList
<1> HIDE DEF named
<1>5. kept \in SUBSET DOMAIN named
  BY SMTT(40)
<1>6. \A i \in kept : IsProxyProtocol(named[i].protocol)
  BY SMTT(40)
<1> HIDE DEF kept
<1>7. /\ proxies \in Seq(Range(named)) /\ Len(proxies) \in 0..Len(named)
      /\ \A k \in DOMAIN proxies : \E i \in kept : proxies[k] = named[i]
  BY <1>4, <1>5, SelectedIsList, SelectedLen
<1> HIDE DEF proxies
<1>8. \A i \in DOMAIN clean : Fit(clean[i])
  <2> SUFFICES ASSUME NEW k \in DOMAIN proxies PROVE Fit(SanitizeRawOutbound(proxies[k], TRUE))
    BY Zenon
  <2>1. PICK i \in kept : proxies[k] = named[i]
    BY SMTT(40), <1>7
  <2>2. /\ proxies[k].files = {} /\ proxies[k].protocol # "VLESS" /\ proxies[k].tag # ""
        /\ IsProxyProtocol(proxies[k].protocol)
    BY Zenon, <1>3, <1>5, <1>6, <2>1
  <2>3. proxies[k].tag \notin Reserved
    BY <1>1 DEF Tags
  <2> QED BY Zenon, <2>2, <2>3, SanitizedIsFit
<1>9. Len(clean) \in 1..MaxServerIps
  <2>1. /\ Len(proxies) \in 1..MaxServerIps /\ DOMAIN clean = 1..Len(proxies)
        /\ clean = [i \in DOMAIN clean |-> clean[i]]
    <3>1. DOMAIN clean = DOMAIN proxies /\ clean = [i \in DOMAIN clean |-> clean[i]]
      BY Zenon
    <3> HIDE DEF clean
    <3>2. Len(proxies) \in 1..MaxServerIps /\ DOMAIN proxies = 1..Len(proxies)
      BY SMTT(40), <1>1, <1>2, <1>4, <1>7, SomeAreTaken
    <3> QED BY Zenon, <3>1, <3>2
  <2> HIDE DEF clean
  <2>2. \A i \in DOMAIN clean : clean[i] \in Range(clean)
    BY Zenon DEF Range
  <2>3. clean \in Seq(Range(clean))
    BY <2>1, <2>2
  <2>4. Len(clean) \in Nat /\ 1..Len(clean) = 1..Len(proxies)
    BY <2>1, <2>3
  <2> QED BY SMTT(40), <2>1, <2>4
<1> HIDE DEF clean
<1> QED BY <1>1, <1>8, <1>9

(* A plan whose documents the daemon takes.                                  *)
Sound(plan) ==
  /\ IsList(plan.proxies) /\ Len(plan.proxies) \in 1..MaxServerIps
  /\ UniqueTags(plan.proxies) /\ \A i \in DOMAIN plan.proxies : Fit(plan.proxies[i])
  /\ IsList(plan.balancers) /\ BalancersArePermitted(plan.balancers, plan.proxies)
  /\ plan.target \in {Outbound(t) : t \in Tags(plan.proxies)}
                       \cup {Balancer(t) : t \in Tags(plan.balancers)}

(* A list without balancers is permitted.                                    *)
LEMMA NoBalancers ==
  ASSUME NEW proxies
  PROVE  IsList(<<>>) /\ BalancersArePermitted(<<>>, proxies)
<1>1. IsList(<<>>) /\ Len(<<>>) <= MaxServerIps /\ DOMAIN <<>> = {}
  BY SomeAreTaken DEF IsList
<1>2. "" \notin Tags(<<>>)
  BY <1>1, Zenon DEF Tags
<1> QED BY <1>1, <1>2, Zenon DEF BalancersArePermitted, UniqueTags

(* Every plan of an ordinary location is sound.                              *)
LEMMA PlanIsSound ==
  ASSUME NoneIsNothing, NEW server, IsServer(server), ValidateServer(server), Ordinary(server),
         NEW plan \in OutboundPlans(server)
  PROVE  Sound(plan)
<1> DEFINE profile == server.profile
           proxies == ProviderProxyOutbounds(profile)
           single == BuildProxyOutbound(server)
<1>0. plan.target \in {Outbound(t) : t \in Tags(plan.proxies)}
                        \cup {Balancer(t) : t \in Tags(plan.balancers)}
  BY PlanTarget
<1>1. CASE profile # None /\ Composite(profile, proxies)
  <2>1. /\ proxies # None /\ plan.proxies = proxies /\ plan.balancers = profile.balancers
        /\ \A i \in DOMAIN profile.balancers : Selects(profile.balancers[i], proxies)
    BY Zenon, <1>1 DEF OutboundPlans
  <2>2. IsList(proxies) /\ UniqueTags(proxies)
    BY Zenon, <1>1, <2>1, ProviderProxiesAreClean DEF IsServer
  <2>3. Len(proxies) \in 1..MaxServerIps /\ \A i \in DOMAIN proxies : Fit(proxies[i])
    BY Zenon, <1>1, <2>1, ProviderProxiesFit DEF IsServer, Ordinary
  <2>4. IsList(profile.balancers) /\ BalancersArePermitted(profile.balancers, proxies)
    BY Zenon, <1>1, <2>1 DEF IsServer, Ordinary, BalancersArePermitted
  <2> HIDE DEF proxies
  <2> QED BY Zenon, <1>0, <2>1, <2>2, <2>3, <2>4 DEF Sound
<1>2. CASE ~(profile # None /\ Composite(profile, proxies))
  <2>1. single # None /\ plan.proxies = <<single>> /\ plan.balancers = <<>>
    BY Zenon, <1>2, SinglePlan
  <2>2. Fit(single)
    <3>1. CASE server.outbound # None
      <4>1. single = SanitizeRawOutbound(server.outbound, FALSE)
        BY SMTT(40), <3>1 DEF BuildProxyOutbound
      <4>2. IsProxyProtocol(server.outbound.protocol)
        BY SMTT(40), <2>1, <4>1 DEF SanitizeRawOutbound
      <4> HIDE DEF single
      <4> QED BY Zenon, <3>1, <4>1, <4>2, SanitizedIsFit DEF Ordinary
    <3>2. CASE server.outbound = None
      <4>1. single = [tag |-> "proxy", protocol |-> server.protocol, files |-> {}, peers |-> 1,
                      marked |-> server.protocol # "wireguard"]
        BY SMTT(40), <3>2 DEF BuildProxyOutbound
      <4>2. server.protocol \in ProxyProtocols
        BY SMTT(40), <3>2 DEF IsServer, ValidateServer
      <4>3. /\ single.protocol = server.protocol /\ single.files = {} /\ single.tag = "proxy"
            /\ single.marked = (server.protocol # "wireguard")
        BY <4>1
      <4> HIDE DEF single
      <4>4. single.protocol = "wireguard" \/ single.marked
        BY <4>3, Zenon
      <4> QED BY SMTT(40), <4>2, <4>3, <4>4 DEF Fit, Reserved
    <3> QED BY <3>1, <3>2
  <2> HIDE DEF single
  <2>3. IsList(<<single>>) /\ Len(<<single>>) = 1 /\ DOMAIN <<single>> = {1} /\ <<single>>[1] = single
    BY DEF IsList, Range
  <2>4. UniqueTags(<<single>>)
    BY <2>3 DEF UniqueTags
  <2>5. 1 \in 1..MaxServerIps
    BY SomeAreTaken
  <2> QED BY Zenon, <1>0, <2>1, <2>2, <2>3, <2>4, <2>5, NoBalancers DEF Sound
<1> QED BY SMTT(40), <1>1, <1>2

(* validate_server lets an ordinary location pass only when it has a plan.   *)
LEMMA OrdinaryHasPlan ==
  ASSUME NoneIsNothing, NEW server, IsServer(server), ValidateServer(server), Ordinary(server)
  PROVE  OutboundPlans(server) # {}
<1>1. CASE server.profile # None
  BY <1>1 DEF ValidateServer
<1>2. CASE server.profile = None
  <2> DEFINE single == BuildProxyOutbound(server)
  <2>1. single = [x \in DOMAIN single |-> single[x]]
    <3>1. CASE server.outbound # None
      <4>1. server.outbound.files = {} /\ IsProxyProtocol(server.outbound.protocol)
        BY SMTT(40), <1>2, <3>1 DEF Ordinary, ValidateServer
      <4> QED BY SMTT(40), <3>1, <4>1
            DEF BuildProxyOutbound, SanitizeRawOutbound, ContainsForbiddenProviderFileReference
    <3>2. CASE server.outbound = None
      BY <3>2 DEF BuildProxyOutbound
    <3> QED BY SMTT(40), <3>1, <3>2
  <2>2. single # None
    <3> HIDE DEF single
    <3> QED BY <2>1, FunctionIsSome
  <2> QED BY Zenon, <1>2, <2>2 DEF OutboundPlans
<1> QED BY SMTT(40), <1>1, <1>2

(* The outbounds of a data document: the proxies, and after them one of each *)
(* of the system's.                                                          *)
LEMMA OutboundsArePermitted ==
  ASSUME NEW plan, Sound(plan)
  PROVE  /\ OutboundSetIsPermitted(plan.proxies \o SystemOutbounds)
         /\ Len(plan.proxies \o SystemOutbounds) = Len(plan.proxies) + 3
         /\ \A i \in DOMAIN (plan.proxies \o SystemOutbounds) :
              (plan.proxies \o SystemOutbounds)[i].files = {}
<1> DEFINE own == SystemOutbounds
           outbounds == plan.proxies \o own
           n == Len(plan.proxies)
<1>1. IsList(own) /\ DOMAIN own = 1..3
  <2> DEFINE a == DirectOutbound
             b == OwnOutbound("dns-out", "dns", FALSE)
             c == OwnOutbound("block", "blackhole", FALSE)
  <2>1. own = <<a, b, c>>
    BY SMTT(40) DEF SystemOutbounds
  <2> HIDE DEF a, b, c, own
  <2> QED BY <2>1 DEF IsList, Range
<1>2. /\ own[1].tag = "direct" /\ own[1].protocol = "freedom" /\ own[1].files = {}
      /\ own[2].tag = "dns-out" /\ own[2].protocol = "dns" /\ own[2].files = {}
      /\ own[3].tag = "block" /\ own[3].protocol = "blackhole" /\ own[3].files = {}
  BY SMTT(40) DEF SystemOutbounds, OwnOutbound, DirectOutbound
<1> HIDE DEF own
<1>3. /\ n \in Nat /\ n \in 1..MaxServerIps /\ DOMAIN plan.proxies = 1..n
      /\ Len(own) = 3 /\ IsList(outbounds) /\ DOMAIN outbounds = 1..(n + 3)
      /\ \A i \in 1..n : outbounds[i] = plan.proxies[i]
      /\ \A i \in 1..3 : outbounds[n + i] = own[i]
  <2>1. IsList(plan.proxies) /\ n \in 1..MaxServerIps
    BY DEF Sound
  <2>2. /\ IsList(outbounds) /\ DOMAIN plan.proxies = 1..n /\ DOMAIN own = 1..Len(own)
        /\ n \in Nat /\ Len(own) \in Nat /\ DOMAIN outbounds = 1..(n + Len(own))
        /\ \A i \in DOMAIN plan.proxies : outbounds[i] = plan.proxies[i]
        /\ \A i \in DOMAIN own : outbounds[n + i] = own[i]
    <3> DEFINE proxies == plan.proxies
    <3>1. IsList(proxies)
      BY <2>1
    <3> HIDE DEF proxies
    <3>2. /\ IsList(proxies \o own) /\ DOMAIN proxies = 1..Len(proxies) /\ DOMAIN own = 1..Len(own)
          /\ Len(proxies) \in Nat /\ Len(own) \in Nat
          /\ DOMAIN (proxies \o own) = 1..(Len(proxies) + Len(own))
      BY Zenon, <1>1, <3>1, JoinedIsList
    <3>3. \A i \in DOMAIN proxies : (proxies \o own)[i] = proxies[i]
      BY <1>1, <3>1, JoinedIsList
    <3>4. ASSUME NEW i \in DOMAIN own PROVE (proxies \o own)[Len(proxies) + i] = own[i]
      BY Zenon, <1>1, <3>1, <3>4, JoinedAt
    <3> QED BY Zenon, <3>2, <3>3, <3>4 DEF proxies
  <2> HIDE DEF outbounds, n
  <2>3. Len(own) = 3
    BY <1>1, <2>2
  <2> QED BY SMTT(40), <1>1, <2>1, <2>2, <2>3
<1>4. Len(outbounds) = n + 3
  <2> HIDE DEF outbounds, n
  <2>1. outbounds \in Seq(Range(outbounds))
    BY <1>3 DEF IsList
  <2>2. Len(outbounds) \in Nat /\ DOMAIN outbounds = 1..Len(outbounds)
    BY SMTT(40), <2>1
  <2> QED BY <1>3, <2>2
<1>5. /\ \A i \in 1..n : Fit(outbounds[i])
      /\ \A i, j \in 1..n : outbounds[i].tag = outbounds[j].tag => i = j
  <2> HIDE DEF outbounds, n
  <2> QED BY Zenon, <1>3 DEF Sound, UniqueTags
<1> HIDE DEF outbounds, n
<1>6. /\ outbounds[n + 1].tag = "direct" /\ outbounds[n + 1].protocol = "freedom"
      /\ outbounds[n + 2].tag = "dns-out" /\ outbounds[n + 2].protocol = "dns"
      /\ outbounds[n + 3].tag = "block" /\ outbounds[n + 3].protocol = "blackhole"
      /\ outbounds[n + 1].files = {} /\ outbounds[n + 2].files = {} /\ outbounds[n + 3].files = {}
  BY <1>2, <1>3
<1>7. DOMAIN outbounds = (1..n) \cup {n + 1, n + 2, n + 3} /\ (1..n) \cap {n + 1, n + 2, n + 3} = {}
  BY <1>3
<1>8. ASSUME NEW i \in 1..n
      PROVE  /\ outbounds[i].tag \notin {"direct", "dns-out", "block"}
             /\ outbounds[i].protocol \in ProxyProtocols /\ outbounds[i].files = {}
  BY Zenon, <1>5 DEF Fit, Reserved
<1>9. UniqueTags(outbounds)
  <2> SUFFICES ASSUME NEW i \in DOMAIN outbounds, NEW j \in DOMAIN outbounds,
                      outbounds[i].tag = outbounds[j].tag
               PROVE  i = j
    BY DEF UniqueTags
  <2>1. CASE i \in 1..n /\ j \in 1..n
    BY SMTT(40), <1>5, <2>1
  <2>2. CASE i \in {n + 1, n + 2, n + 3} /\ j \in {n + 1, n + 2, n + 3}
    BY SMTT(40), <1>6, <2>2
  <2>3. CASE i \in 1..n /\ j \in {n + 1, n + 2, n + 3}
    BY SMTT(40), <1>6, <1>8, <2>3
  <2>4. CASE i \in {n + 1, n + 2, n + 3} /\ j \in 1..n
    BY <1>6, <1>8, <2>4
  <2> QED BY <1>7, <2>1, <2>2, <2>3, <2>4
<1>10. "" \notin Tags(outbounds)
  <2> SUFFICES ASSUME NEW i \in DOMAIN outbounds PROVE outbounds[i].tag # ""
    BY Zenon DEF Tags
  <2>1. CASE i \in 1..n
    BY Zenon, <1>5, <2>1 DEF Fit
  <2>2. "direct" # "" /\ "dns-out" # "" /\ "block" # ""
    OBVIOUS
  <2>3. CASE i \in {n + 1, n + 2, n + 3}
    BY Zenon, <1>6, <2>2, <2>3
  <2> QED BY Zenon, <1>7, <2>1, <2>3
<1>11. {i \in DOMAIN outbounds : outbounds[i].protocol \in ProxyProtocols} = 1..n
  <2>1. \A i \in {n + 1, n + 2, n + 3} : outbounds[i].protocol \notin ProxyProtocols
    BY SMTT(40), <1>6 DEF ProxyProtocols
  <2> QED BY SMTT(40), <1>7, <1>8, <2>1
<1>12. /\ {i \in DOMAIN outbounds : outbounds[i].tag = "direct" /\ outbounds[i].protocol = "freedom"}
            = {n + 1}
       /\ {i \in DOMAIN outbounds : outbounds[i].tag = "dns-out" /\ outbounds[i].protocol = "dns"}
            = {n + 2}
       /\ {i \in DOMAIN outbounds : outbounds[i].tag = "block" /\ outbounds[i].protocol = "blackhole"}
            = {n + 3}
  BY <1>6, <1>7, <1>8
<1>13. Cardinality(1..n) = n /\ \A k : Cardinality({k}) = 1
  <2>1. Cardinality(1..n) = n
    BY <1>3, FS_Interval
  <2>2. \A k : Cardinality({k}) = 1
    BY FS_Singleton, Zenon
  <2> QED BY Zenon, <2>1, <2>2
<1>14. OutboundSetIsPermitted(outbounds)
  <2>1. Cardinality(1..n) \in 1..MaxServerIps /\ Len(outbounds) = Cardinality(1..n) + 3
    BY SMTT(40), <1>3, <1>4, <1>13
  <2> QED BY Zenon, <1>9, <1>10, <1>11, <1>12, <1>13, <2>1 DEF OutboundSetIsPermitted
<1>15. \A i \in DOMAIN outbounds : outbounds[i].files = {}
  BY SMTT(40), <1>6, <1>7, <1>8
<1> QED BY <1>4, <1>14, <1>15 DEF outbounds, n, own

(* The data document of a sound plan passes validate_xray_document.          *)
LEMMA DataIsValid ==
  ASSUME NEW plan, Sound(plan), NEW mode \in {"tun", "proxy"}, NEW document,
         document.sections = {"log", "dns", "inbounds", "outbounds", "routing"} \cup Observing(plan),
         document.inbounds = << BuildInbound(mode) >>,
         document.outbounds = plan.proxies \o SystemOutbounds
  PROVE  ValidateXrayDocument(document, mode)
<1>1. Observing(plan) \subseteq {"observatory"}
  BY DEF Observing
<1>2. /\ document.sections \subseteq {"log", "dns", "inbounds", "outbounds", "routing",
                                      "observatory", "burstObservatory"}
      /\ {"log", "inbounds", "outbounds", "dns", "routing"} \subseteq document.sections
  BY SMTT(40), <1>1
<1>3. DataInboundIsPermitted(document.inbounds, mode)
  <2> DEFINE inbound == BuildInbound(mode)
  <2>1. mode = "tun" => inbound.tag = "tun-in" /\ inbound.protocol = "tun" /\ inbound.name = "varmlen0"
    BY DEF BuildInbound
  <2>2. mode = "proxy" => /\ inbound.tag = "socks-in" /\ inbound.protocol = "socks"
                          /\ inbound.listen = "127.0.0.1" /\ inbound.port = SocksPort
    BY DEF BuildInbound, SocksInbound
  <2> HIDE DEF inbound
  <2>3. Len(document.inbounds) = 1 /\ document.inbounds[1] = inbound
    BY SMTT(40) DEF inbound
  <2> QED BY <2>1, <2>2, <2>3 DEF DataInboundIsPermitted
<1>4. OutboundSetIsPermitted(document.outbounds) /\ ~ContainsForbiddenFileKey(document)
  BY SMTT(40), OutboundsArePermitted DEF ContainsForbiddenFileKey
<1> QED BY <1>2, <1>3, <1>4 DEF ValidateXrayDocument

(* The outbounds of a probe: the proxies and the direct one last.            *)
LEMMA ProbeOutbounds ==
  ASSUME NEW plan, Sound(plan), NEW outbounds,
         outbounds = plan.proxies \o << OwnOutbound("direct", "freedom", FALSE) >>
  PROVE  /\ PingOutboundsArePermitted(outbounds) /\ Paths(outbounds) = plan.proxies
         /\ \A i \in DOMAIN outbounds : outbounds[i].files = {}
<1> DEFINE direct == OwnOutbound("direct", "freedom", FALSE)
           proxies == plan.proxies
           last == << direct >>
           n == Len(proxies)
<1>1. direct.tag = "direct" /\ direct.protocol = "freedom" /\ direct.files = {}
  BY DEF OwnOutbound
<1> HIDE DEF direct
<1>2. IsList(last) /\ DOMAIN last = {1} /\ Len(last) = 1 /\ last[1] = direct
  BY DEF IsList, Range
<1>3. /\ IsList(proxies) /\ n \in 1..MaxServerIps /\ UniqueTags(proxies)
      /\ \A i \in DOMAIN proxies : Fit(proxies[i])
  BY DEF Sound
<1>4. outbounds = proxies \o last
  BY DEF direct
<1> HIDE DEF proxies, last
<1>5. /\ IsList(outbounds) /\ DOMAIN proxies = 1..n /\ n \in Nat /\ DOMAIN outbounds = 1..(n + 1)
      /\ \A i \in 1..n : outbounds[i] = proxies[i]
  <2>1. /\ IsList(proxies \o last) /\ DOMAIN proxies = 1..Len(proxies) /\ Len(proxies) \in Nat
        /\ DOMAIN (proxies \o last) = 1..(Len(proxies) + Len(last))
    BY Zenon, <1>2, <1>3, JoinedIsList
  <2>2. \A i \in DOMAIN proxies : (proxies \o last)[i] = proxies[i]
    BY <1>2, <1>3, JoinedIsList
  <2> QED BY <1>2, <1>4, <2>1, <2>2, Zenon
<1>6. outbounds[n + 1] = direct
  <2>1. PICK i \in DOMAIN last : i = 1
    BY <1>2
  <2>2. IsList(proxies) /\ IsList(last)
    BY <1>2, <1>3
  <2>3. (proxies \o last)[Len(proxies) + i] = last[i]
    BY Zenon, <2>2, JoinedAt
  <2> QED BY <1>2, <1>4, <2>1, <2>3, Zenon
<1>7. Len(outbounds) = n + 1
  <2> HIDE DEF n
  <2>1. outbounds \in Seq(Range(outbounds))
    BY Zenon, <1>5 DEF IsList
  <2>2. Len(outbounds) \in Nat /\ DOMAIN outbounds = 1..Len(outbounds)
    BY <2>1
  <2> QED BY <1>5, <2>2
<1>8. Paths(outbounds) = proxies
  <2>1. proxies = [i \in 1..n |-> proxies[i]]
    BY <1>3, <1>5 DEF IsList
  <2> HIDE DEF n
  <2>2. Len(outbounds) - 1 = n
    BY <1>5, <1>7
  <2>3. Paths(outbounds) = [i \in 1..n |-> outbounds[i]]
    BY <2>2 DEF Paths
  <2> QED BY Zenon, <1>5, <2>1, <2>3
<1>9. ASSUME NEW i \in 1..n
      PROVE  /\ outbounds[i].tag # "" /\ outbounds[i].protocol \in ProxyProtocols
             /\ outbounds[i].protocol = "wireguard" \/ outbounds[i].marked
             /\ outbounds[i].files = {}
  <2>1. outbounds[i] = proxies[i] /\ Fit(proxies[i])
    BY <1>3, <1>5, <1>9
  <2> QED BY Zenon, <2>1 DEF Fit
<1>10. "" \notin Tags(proxies)
  <2>1. \A i \in DOMAIN proxies : proxies[i].tag # ""
    BY Zenon, <1>3 DEF Fit
  <2> QED BY Zenon, <2>1 DEF Tags
<1>11. Len(outbounds) \in 2..MaxServerIps + 1
  BY <1>3, <1>5, <1>7, SomeAreTaken
<1>12. PingOutboundsArePermitted(outbounds)
  <2>1. /\ outbounds[Len(outbounds)].tag = "direct"
        /\ outbounds[Len(outbounds)].protocol = "freedom"
    BY Zenon, <1>1, <1>6, <1>7
  <2>2. DOMAIN Paths(outbounds) = 1..n
    BY SMTT(40), <1>5, <1>8
  <2>3. UniqueTags(Paths(outbounds)) /\ "" \notin Tags(Paths(outbounds))
    BY <1>3, <1>8, <1>10, Zenon
  <2>4. \A i \in DOMAIN Paths(outbounds) :
          /\ outbounds[i].protocol \in ProxyProtocols
          /\ outbounds[i].protocol = "wireguard" \/ outbounds[i].marked
    BY <1>9, <2>2, Zenon
  <2> HIDE DEF n
  <2> QED BY <1>11, <2>1, <2>3, <2>4, Zenon DEF PingOutboundsArePermitted
<1>13. \A i \in DOMAIN outbounds : outbounds[i].files = {}
  <2> HIDE DEF n
  <2>1. DOMAIN outbounds = (1..n) \cup {n + 1}
    BY <1>5
  <2>2. \A i \in 1..n : outbounds[i].files = {}
    BY Zenon, <1>9
  <2> QED BY Zenon, <1>1, <1>6, <2>1, <2>2
<1> QED BY Zenon, <1>8, <1>12, <1>13 DEF proxies

(* A document with the parts of a probe of a sound plan passes               *)
(* validate_ping_xray_document.                                              *)
LEMMA ProbeIsValid ==
  ASSUME NEW plan, Sound(plan), NEW d, NEW ports,
         d.sections \subseteq {"log", "inbounds", "outbounds", "routing", "observatory"},
         {"log", "inbounds", "outbounds", "routing"} \subseteq d.sections,
         d.outbounds = plan.proxies \o << OwnOutbound("direct", "freedom", FALSE) >>,
         BalancersArePermitted(d.balancers, plan.proxies),
         PingInboundsArePermitted(d.inbounds, ports), Len(d.rules) = Len(ports),
         \A i \in DOMAIN ports :
           /\ IF "inbound" \in DOMAIN d.rules[i].on
              THEN d.rules[i].on.inbound = {d.inbounds[i].tag} ELSE Len(ports) = 1
           /\ d.rules[i].to \in {Outbound(t) : t \in Tags(plan.proxies)}
                                  \cup {Balancer(t) : t \in Tags(d.balancers)}
  PROVE  ValidatePingXrayDocument(d, ports)
<1>1. /\ PingOutboundsArePermitted(d.outbounds) /\ Paths(d.outbounds) = plan.proxies
      /\ \A i \in DOMAIN d.outbounds : d.outbounds[i].files = {}
  BY Zenon, ProbeOutbounds
<1>2. d.sections \subseteq {"log", "inbounds", "outbounds", "routing",
                            "observatory", "burstObservatory"}
  BY Zenon
<1>3. ~ContainsForbiddenFileKey(d)
  BY Zenon, <1>1 DEF ContainsForbiddenFileKey
<1>4. PingRulesArePermitted(d, ports)
  BY <1>1, Zenon DEF PingRulesArePermitted
<1>5. BalancersArePermitted(d.balancers, Paths(d.outbounds))
  BY Zenon, <1>1
<1> QED BY <1>1, <1>2, <1>3, <1>4, <1>5, Zenon DEF ValidatePingXrayDocument

(* A list of n elements.                                                     *)
IsTable(f, n) == f = [i \in 1..n |-> f[i]]

(* Its length and its positions.                                             *)
LEMMA TableIsList ==
  ASSUME NEW n \in Nat, NEW f, IsTable(f, n)
  PROVE  IsList(f) /\ Len(f) = n /\ DOMAIN f = 1..n
<1>1. DOMAIN f = 1..n /\ f = [i \in 1..n |-> f[i]]
  BY DEF IsTable
<1>2. \A i \in 1..n : f[i] \in Range(f)
  BY <1>1 DEF Range
<1>3. f \in Seq(Range(f))
  BY <1>1, <1>2
<1>4. Len(f) \in Nat /\ 1..Len(f) = 1..n
  BY <1>1, <1>3
<1> QED BY <1>1, <1>3, <1>4 DEF IsList

(* The loopback inbounds of a probe.                                         *)
LEMMA InboundFields ==
  ASSUME NEW name, NEW port, NEW inbound, inbound = SocksInbound(name, port)
  PROVE  /\ inbound.tag = name /\ inbound.protocol = "socks"
         /\ inbound.listen = "127.0.0.1" /\ inbound.port = port /\ ~inbound.udp
<1>1. /\ inbound.tag = name /\ inbound.protocol = "socks"
      /\ inbound.listen = "127.0.0.1" /\ inbound.port = port
      /\ inbound.udp = FALSE
  BY Zenon DEF SocksInbound
<1> QED BY <1>1, Zenon

(* One with a new port is what it would be with that port.                   *)
LEMMA InboundMoved ==
  ASSUME NEW name, NEW port, NEW other, NEW inbound, inbound = SocksInbound(name, port)
  PROVE  [inbound EXCEPT !.port = other] = SocksInbound(name, other)
<1> DEFINE address == "127.0.0.1"
           udp == FALSE
           At(p) == [tag |-> name, protocol |-> "socks", listen |-> address, port |-> p, udp |-> udp]
<1>1. inbound = At(port) /\ SocksInbound(name, other) = At(other)
  BY Zenon DEF SocksInbound
<1> HIDE DEF address, udp
<1>2. [At(port) EXCEPT !.port = other] = At(other)
  BY SMTT(40)
<1> HIDE DEF At
<1> QED BY <1>1, <1>2

(* The names of n inbounds, the inbounds under them, and rules that lead     *)
(* from each to a path or a balancer of the document.                        *)
Expected(names, n) ==
  \A i \in 1..n : names[i] = SocksIn[i] \/ (n = 1 /\ names[i] = "socks-in")

Listening(inbounds, names, ports, n) ==
  /\ IsTable(inbounds, n) /\ IsTable(ports, n)
  /\ \A i \in 1..n : inbounds[i] = SocksInbound(names[i], ports[i])

Leading(rules, names, n, proxies, balancers) ==
  /\ IsTable(rules, n)
  /\ \A i \in 1..n :
       /\ IF "inbound" \in DOMAIN rules[i].on THEN rules[i].on.inbound = {names[i]} ELSE n = 1
       /\ rules[i].to \in {Outbound(t) : t \in Tags(proxies)}
                            \cup {Balancer(t) : t \in Tags(balancers)}

(* Loopback inbounds under the names the daemon expects are permitted.       *)
LEMMA InboundsArePermitted ==
  ASSUME NEW n \in Nat, NEW names, NEW ports, NEW inbounds,
         Expected(names, n), Listening(inbounds, names, ports, n)
  PROVE  /\ PingInboundsArePermitted(inbounds, ports)
         /\ Len(ports) = n /\ DOMAIN ports = 1..n
         /\ \A i \in 1..n : inbounds[i].tag = names[i]
<1>1. Len(ports) = n /\ DOMAIN ports = 1..n
  BY TableIsList DEF Listening
<1>2. \A i \in 1..n : inbounds[i] = SocksInbound(names[i], ports[i])
  BY DEF Listening
<1>3. Len(inbounds) = n
  BY SMTT(40), TableIsList DEF Listening
<1>4. ASSUME NEW i \in 1..n
      PROVE  /\ inbounds[i].tag = names[i] /\ inbounds[i].protocol = "socks"
             /\ inbounds[i].listen = "127.0.0.1" /\ inbounds[i].port = ports[i] /\ ~inbounds[i].udp
  <2>1. inbounds[i] = SocksInbound(names[i], ports[i])
    BY SMTT(40), <1>2, <1>4
  <2> QED BY <2>1, InboundFields
<1>5. ASSUME NEW i \in DOMAIN ports
      PROVE  /\ \/ inbounds[i].tag = SocksIn[i]
                \/ Len(ports) = 1 /\ inbounds[i].tag = "socks-in"
             /\ inbounds[i].protocol = "socks" /\ inbounds[i].listen = "127.0.0.1"
             /\ inbounds[i].port = ports[i] /\ ~inbounds[i].udp
  <2>1. i \in 1..n
    BY SMTT(40), <1>1, <1>5
  <2>2. \/ inbounds[i].tag = SocksIn[i]
        \/ Len(ports) = 1 /\ inbounds[i].tag = "socks-in"
    BY <1>1, <1>4, <2>1 DEF Expected
  <2> QED BY <1>4, <2>1, <2>2
<1>6. PingInboundsArePermitted(inbounds, ports)
  BY <1>1, <1>3, <1>5, Zenon DEF PingInboundsArePermitted
<1> QED BY <1>1, <1>4, <1>6

(* Replacing the inbounds of a probe's document leaves the rest of it.       *)
LEMMA ProbeMoved ==
  ASSUME NEW plan, NEW inbounds, NEW rules, NEW balancers, NEW more, NEW moved, NEW d, NEW e,
         d = ProbeConfig(plan, inbounds, rules, balancers, more),
         e = ProbeConfig(plan, moved, rules, balancers, more)
  PROVE  [d EXCEPT !.inbounds = moved] = e
<1> DEFINE sections == {"log", "inbounds", "outbounds", "routing"} \cup more
           outbounds == plan.proxies \o << OwnOutbound("direct", "freedom", FALSE) >>
           With(x) == [sections |-> sections, inbounds |-> x, outbounds |-> outbounds,
                       rules |-> rules, balancers |-> balancers]
<1>1. d = With(inbounds) /\ e = With(moved)
  BY DEF ProbeConfig
<1> HIDE DEF sections, outbounds
<1>2. [With(inbounds) EXCEPT !.inbounds = moved] = With(moved)
  OBVIOUS
<1> HIDE DEF With
<1> QED BY SMTT(40), <1>1, <1>2

(* A probe's document of a sound plan is valid under the ports it names.     *)
LEMMA ProbeConfigIsValid ==
  ASSUME NEW plan, Sound(plan), NEW n \in Nat, NEW names, Expected(names, n),
         NEW ports, NEW inbounds, Listening(inbounds, names, ports, n),
         NEW balancers, BalancersArePermitted(balancers, plan.proxies),
         NEW rules, Leading(rules, names, n, plan.proxies, balancers),
         NEW more \in SUBSET {"observatory"}
  PROVE  ValidatePingXrayDocument(ProbeConfig(plan, inbounds, rules, balancers, more), ports)
<1> DEFINE c == ProbeConfig(plan, inbounds, rules, balancers, more)
<1>1. /\ c.sections = {"log", "inbounds", "outbounds", "routing"} \cup more
      /\ c.outbounds = plan.proxies \o << OwnOutbound("direct", "freedom", FALSE) >>
      /\ c.inbounds = inbounds /\ c.rules = rules /\ c.balancers = balancers
  BY Zenon DEF ProbeConfig
<1> HIDE DEF c
<1>2. /\ PingInboundsArePermitted(inbounds, ports) /\ DOMAIN ports = 1..n /\ Len(ports) = n
      /\ \A i \in 1..n : inbounds[i].tag = names[i]
  BY SMTT(40), InboundsArePermitted
<1>3. /\ c.sections \subseteq {"log", "inbounds", "outbounds", "routing", "observatory"}
      /\ {"log", "inbounds", "outbounds", "routing"} \subseteq c.sections
  BY SMTT(40), <1>1
<1>4. Len(c.rules) = Len(ports) /\ PingInboundsArePermitted(c.inbounds, ports)
  BY Zenon, <1>1, <1>2, TableIsList DEF Leading
<1>5. \A i \in DOMAIN ports :
        /\ IF "inbound" \in DOMAIN c.rules[i].on
           THEN c.rules[i].on.inbound = {c.inbounds[i].tag} ELSE Len(ports) = 1
        /\ c.rules[i].to \in {Outbound(t) : t \in Tags(plan.proxies)}
                               \cup {Balancer(t) : t \in Tags(c.balancers)}
  BY <1>1, <1>2, Zenon DEF Leading
<1>6. BalancersArePermitted(c.balancers, plan.proxies)
  BY <1>1
<1>7. ValidatePingXrayDocument(c, ports)
  BY Zenon, <1>1, <1>3, <1>4, <1>5, <1>6, ProbeIsValid
<1> QED BY <1>7 DEF c

(* It is accepted, with the ports it came with and with those the daemon     *)
(* gives it.                                                                 *)
LEMMA ProbeIsAccepted ==
  ASSUME NoneIsNothing, NEW plan, Sound(plan), NEW n \in 1..MaxServerIps,
         NEW names, Expected(names, n),
         NEW asked, NEW inbounds, Listening(inbounds, names, asked, n),
         NEW reserved, IsTable(reserved, n), IsInjective(reserved),
         \A i \in 1..n : reserved[i] >= 1024,
         NEW balancers, BalancersArePermitted(balancers, plan.proxies),
         NEW rules, Leading(rules, names, n, plan.proxies, balancers),
         NEW more \in SUBSET {"observatory"}
  PROVE  PingIsAccepted(ProbeConfig(plan, inbounds, rules, balancers, more), asked, reserved)
<1> DEFINE d == ProbeConfig(plan, inbounds, rules, balancers, more)
           moved == [i \in 1..n |-> SocksInbound(names[i], reserved[i])]
           e == ProbeConfig(plan, moved, rules, balancers, more)
<1>0. n \in Nat
  BY SMTT(40), SomeAreTaken
<1>1. Listening(moved, names, reserved, n)
  BY DEF Listening, IsTable
<1>2. d.inbounds = inbounds
  BY Zenon DEF ProbeConfig
<1>3. ValidatePingXrayDocument(d, asked)
  BY SMTT(40), <1>0, ProbeConfigIsValid
<1>4. [i \in DOMAIN reserved |-> [d.inbounds[i] EXCEPT !.port = reserved[i]]] = moved
  <2>1. DOMAIN reserved = 1..n
    BY <1>0, TableIsList
  <2>2. ASSUME NEW i \in 1..n
        PROVE  [d.inbounds[i] EXCEPT !.port = reserved[i]] = SocksInbound(names[i], reserved[i])
    <3>1. inbounds[i] = SocksInbound(names[i], asked[i])
      BY <2>2 DEF Listening
    <3> HIDE DEF d
    <3>2. d.inbounds[i] = SocksInbound(names[i], asked[i])
      BY <1>2, <3>1, Zenon
    <3> QED BY <3>2, InboundMoved
  <2> HIDE DEF d
  <2> QED BY <2>1, <2>2, Zenon
<1> HIDE DEF moved
<1>5. ValidatePingXrayDocument(e, reserved)
  BY SMTT(40), <1>0, <1>1, ProbeConfigIsValid
<1>6. e # None
  <2>1. e = [x \in DOMAIN e |-> e[x]]
    BY Zenon DEF ProbeConfig
  <2> HIDE DEF e
  <2> QED BY <2>1, FunctionIsSome
<1>7. [d EXCEPT !.inbounds = moved] = e
  <2>1. /\ d = ProbeConfig(plan, inbounds, rules, balancers, more)
        /\ e = ProbeConfig(plan, moved, rules, balancers, more)
    OBVIOUS
  <2> HIDE DEF d, e
  <2> QED BY <2>1, ProbeMoved
<1> HIDE DEF d, e
<1>8. ValidationConfigWithPorts(d, reserved) = e
  <2>1. /\ Len(reserved) \in 1..MaxServerIps /\ IsInjective(reserved)
        /\ \A i \in DOMAIN reserved : reserved[i] >= 1024
        /\ Len(d.inbounds) = Len(reserved)
    <3>1. Len(reserved) = n /\ DOMAIN reserved = 1..n
      BY SMTT(40), <1>0, TableIsList
    <3>2. Len(d.inbounds) = n
      BY <1>0, <1>2, TableIsList DEF Listening
    <3> QED BY <3>1, <3>2
  <2>2. ValidationConfigWithPorts(d, reserved)
          = [d EXCEPT !.inbounds =
              [i \in DOMAIN reserved |-> [d.inbounds[i] EXCEPT !.port = reserved[i]]]]
    BY SMTT(40), <2>1 DEF ValidationConfigWithPorts
  <2> QED BY <1>4, <1>7, <2>2, Zenon
<1>9. PingIsAccepted(d, asked, reserved)
  BY <1>3, <1>5, <1>6, <1>8, Zenon DEF PingIsAccepted
<1> QED BY <1>9 DEF d

(* A list of one.                                                            *)
LEMMA ListOfOne ==
  ASSUME NEW x, NEW f, f = <<x>>
  PROVE  IsTable(f, 1) /\ f[1] = x /\ DOMAIN f = 1..1 /\ Len(f) = 1 /\ IsInjective(f)
<1>1. DOMAIN f = 1..1 /\ f[1] = x /\ Len(f) = 1
  OBVIOUS
<1>2. f = [i \in 1..1 |-> f[i]]
  OBVIOUS
<1>3. IsInjective(f)
  <2>1. \A i, j \in DOMAIN f : i = j
    BY SMTT(40), <1>1
  <2> QED BY <2>1, Zenon DEF IsInjective
<1> QED BY <1>1, <1>2, <1>3 DEF IsTable

(* The path that stands for the target of a plan is one of its paths.        *)
LEMMA PingTag ==
  ASSUME NEW plan, Sound(plan)
  PROVE  PingOutboundTag(plan) \in Tags(plan.proxies)
<1> DEFINE named == {i \in DOMAIN plan.balancers : plan.balancers[i].tag = plan.target[2]}
           balancer == Selected(plan.balancers, named)[1]
           chosen == {i \in DOMAIN plan.proxies : plan.proxies[i].tag \in balancer.selects}
<1>1. CASE \E t \in Tags(plan.proxies) : plan.target = Outbound(t)
  <2>1. PICK t \in Tags(plan.proxies) : plan.target = Outbound(t)
    BY SMTT(40), <1>1
  <2>2. plan.target[1] = "outbound" /\ plan.target[2] = t
    BY <2>1 DEF Outbound
  <2>3. PingOutboundTag(plan) = plan.target[2]
    BY SMTT(40), <2>2 DEF PingOutboundTag
  <2> QED BY <2>2, <2>3
<1>2. CASE \E t \in Tags(plan.balancers) : plan.target = Balancer(t)
  <2>1. PICK t \in Tags(plan.balancers) : plan.target = Balancer(t)
    BY <1>2
  <2>2. plan.target[1] = "balancer" /\ plan.target[2] = t
    BY SMTT(40), <2>1 DEF Balancer
  <2>3. named # {} /\ named \in SUBSET DOMAIN plan.balancers
    BY SMTT(40), <2>1, <2>2 DEF Tags
  <2>4. IsList(plan.balancers) /\ IsList(plan.proxies)
    BY DEF Sound
  <2>5. \A i \in DOMAIN plan.balancers : Selects(plan.balancers[i], plan.proxies)
    BY Zenon DEF Sound, BalancersArePermitted
  <2>6. PICK i \in named : balancer = plan.balancers[i]
    <3> HIDE DEF named
    <3> QED BY SMTT(40), <2>3, <2>4, FirstSelected
  <2>7. Selects(balancer, plan.proxies)
    BY SMTT(40), <2>3, <2>5, <2>6
  <2> HIDE DEF balancer
  <2>8. chosen # {} /\ chosen \in SUBSET DOMAIN plan.proxies
    BY SMTT(40), <2>7 DEF Selects, Tags
  <2>9. PICK k \in chosen : Selected(plan.proxies, chosen)[1] = plan.proxies[k]
    <3> HIDE DEF chosen
    <3> QED BY SMTT(40), <2>4, <2>8, FirstSelected
  <2>10. Selected(plan.proxies, chosen)[1].tag \in Tags(plan.proxies)
    BY Zenon, <2>8, <2>9 DEF Tags
  <2>11. PingOutboundTag(plan) = IF balancer.fallback \in Tags(plan.proxies)
                                 THEN balancer.fallback
                                 ELSE Selected(plan.proxies, chosen)[1].tag
    BY Zenon, <2>2 DEF PingOutboundTag, balancer
  <2> QED BY Zenon, <2>10, <2>11
<1> QED BY Zenon, <1>1, <1>2 DEF Sound

(* A rule's conditions and its target.                                       *)
LEMMA RuleParts ==
  ASSUME NEW on, NEW to, NEW r, r = Rule(on, to)
  PROVE  r.on = on /\ r.to = to
  BY DEF Rule

(* The rule of a probe's inbound.                                            *)
LEMMA InboundRule ==
  ASSUME NEW name, NEW to, NEW r, r = Rule([inbound |-> {name}], to)
  PROVE  "inbound" \in DOMAIN r.on /\ r.on.inbound = {name} /\ r.to = to
  BY SMTT(40) DEF Rule

(* A document with one inbound, on an ordinary port, asks for that port.     *)
LEMMA AskedPort ==
  ASSUME NEW d, NEW asked, DOMAIN d.inbounds = 1..1, Len(d.inbounds) = 1,
         1 \in 1..MaxServerIps, IsTable(asked, 1),
         d.inbounds[1].port = asked[1], asked[1] >= 1024
  PROVE  ValidationConfigPorts(d) = asked
<1>1. \A i \in 1..1 : i = 1
  OBVIOUS
<1>2. \A i \in DOMAIN d.inbounds : d.inbounds[i].port = asked[i] /\ asked[i] >= 1024
  BY SMTT(40), <1>1
<1>3. ValidationConfigPorts(d) = [i \in DOMAIN d.inbounds |-> d.inbounds[i].port]
  BY SMTT(40), <1>2 DEF ValidationConfigPorts
<1>4. asked = [i \in 1..1 |-> asked[i]]
  BY SMTT(40) DEF IsTable
<1> QED BY SMTT(40), <1>2, <1>3, <1>4

(* The preflight of a sound plan is accepted.                                *)
LEMMA PreflightIsAccepted ==
  ASSUME NoneIsNothing, NEW plan, Sound(plan), NEW d,
         d = ProbeConfig(plan, << SocksInbound("socks-in-0", ProbePortBase) >>,
               << Rule([inbound |-> {"socks-in-0"}], plan.target) >>,
               plan.balancers, Observing(plan))
  PROVE  /\ ValidationConfigPorts(d) # None
         /\ PingIsAccepted(d, ValidationConfigPorts(d), <<Port>>)
<1> DEFINE inbound == SocksInbound("socks-in-0", ProbePortBase)
           inbounds == << inbound >>
           rule == Rule([inbound |-> {"socks-in-0"}], plan.target)
           rules == << rule >>
           names == << "socks-in-0" >>
           asked == << ProbePortBase >>
           reserved == << Port >>
           more == Observing(plan)
           balancers == plan.balancers
<1>1. 1 \in 1..MaxServerIps
  BY SMTT(40), SomeAreTaken
<1>2. Expected(names, 1)
  BY SMTT(40) DEF Expected, SocksIn
<1>3. "inbound" \in DOMAIN rule.on /\ rule.on.inbound = {"socks-in-0"} /\ rule.to = plan.target
  BY SMTT(40), InboundRule
<1>4. inbound.port = ProbePortBase
  BY SMTT(40), InboundFields
<1>5. d = ProbeConfig(plan, inbounds, rules, balancers, more) /\ inbound = SocksInbound(names[1], asked[1])
  OBVIOUS
<1>6. d.inbounds = inbounds
  BY Zenon DEF ProbeConfig
<1>7. Port >= 1024 /\ ProbePortBase >= 1024
  BY OffersAssumption DEF ProbePortBase
<1>8. names[1] = "socks-in-0"
  BY SMTT(40)
<1> HIDE DEF inbound, rule, names
<1>9. /\ IsTable(inbounds, 1) /\ inbounds[1] = inbound /\ DOMAIN inbounds = 1..1 /\ Len(inbounds) = 1
      /\ IsTable(rules, 1) /\ rules[1] = rule
  BY SMTT(40), ListOfOne
<1>10. /\ IsTable(asked, 1) /\ asked[1] = ProbePortBase
       /\ IsTable(reserved, 1) /\ reserved[1] = Port /\ IsInjective(reserved)
  BY ListOfOne
<1> HIDE DEF inbounds, rules, asked, reserved
<1>11. Listening(inbounds, names, asked, 1)
  <2>1. \A i \in 1..1 : i = 1
    OBVIOUS
  <2> QED BY Zenon, <1>5, <1>9, <1>10, <2>1 DEF Listening
<1>12. BalancersArePermitted(balancers, plan.proxies)
  BY Zenon DEF Sound
<1>13. Leading(rules, names, 1, plan.proxies, balancers)
  <2>1. \A i \in 1..1 : i = 1
    BY SMTT(40)
  <2> QED BY <1>3, <1>8, <1>9, <2>1, Zenon DEF Leading, Sound
<1>14. more \in SUBSET {"observatory"}
  BY SMTT(40) DEF Observing
<1> HIDE DEF more, balancers
<1>15. \A i \in 1..1 : reserved[i] >= 1024
  BY SMTT(40), <1>7, <1>10
<1>16. PingIsAccepted(d, asked, reserved)
  <2>1. PingIsAccepted(ProbeConfig(plan, inbounds, rules, balancers, more), asked, reserved)
    BY Zenon, <1>1, <1>2, <1>10, <1>11, <1>12, <1>13, <1>14, <1>15, ProbeIsAccepted
  <2> QED BY Zenon, <1>5, <2>1
<1>17. ValidationConfigPorts(d) = asked
  <2>1. DOMAIN d.inbounds = 1..1 /\ Len(d.inbounds) = 1 /\ d.inbounds[1].port = asked[1]
    BY Zenon, <1>4, <1>6, <1>9, <1>10
  <2>2. asked[1] >= 1024
    BY SMTT(40), <1>7, <1>10
  <2> QED BY Zenon, <1>1, <1>10, <2>1, <2>2, AskedPort
<1>18. asked # None
  <2>1. asked = [i \in DOMAIN asked |-> asked[i]]
    BY DEF asked
  <2> QED BY SMTT(40), <2>1, FunctionIsSome
<1> QED BY <1>16, <1>17, <1>18 DEF reserved

(* The ping of every path of a sound plan is accepted.                       *)
LEMMA PingsAreAccepted ==
  ASSUME NoneIsNothing, NEW plan, Sound(plan), NEW n \in 1..MaxServerIps, Len(plan.proxies) = n,
         NEW asked, asked = PingPlaceholderPorts(n),
         NEW reserved, reserved = [i \in 1..n |-> Port + i]
  PROVE  PingIsAccepted(
           ProbeConfig(plan, [i \in DOMAIN asked |-> SocksInbound(SocksIn[i], asked[i])],
             [i \in DOMAIN asked |-> Rule([inbound |-> {SocksIn[i]}], Outbound(plan.proxies[i].tag))],
             <<>>, {}),
           asked, reserved)
<1> DEFINE inbounds == [i \in DOMAIN asked |-> SocksInbound(SocksIn[i], asked[i])]
           rules == [i \in DOMAIN asked |->
                      Rule([inbound |-> {SocksIn[i]}], Outbound(plan.proxies[i].tag))]
           names == SocksIn
           balancers == <<>>
           more == {}
<1>0. n \in Nat
  BY SomeAreTaken
<1>1. IsTable(asked, n) /\ DOMAIN asked = 1..n
  BY DEF IsTable, PingPlaceholderPorts
<1>2. IsTable(reserved, n) /\ DOMAIN reserved = 1..n /\ \A i \in 1..n : reserved[i] = Port + i
  BY DEF IsTable
<1>3. IsInjective(reserved) /\ \A i \in 1..n : reserved[i] >= 1024
  <2>1. Port \in Nat /\ Port >= 1024
    BY SMTT(40), OffersAssumption
  <2>2. \A i, j \in 1..n : reserved[i] = reserved[j] => i = j
    BY <1>0, <1>2, <2>1
  <2>3. \A i \in 1..n : reserved[i] >= 1024
    BY SMTT(40), <1>0, <1>2, <2>1
  <2>4. IsInjective(reserved)
    BY <1>2, <2>2 DEF IsInjective
  <2> QED BY <2>3, <2>4
<1>4. Expected(names, n)
  BY DEF Expected
<1>5. Listening(inbounds, names, asked, n)
  BY <1>1, Zenon DEF Listening, IsTable
<1>6. IsTable(rules, n)
  BY <1>1, Zenon DEF IsTable
<1>7. ASSUME NEW i \in 1..n
      PROVE  /\ "inbound" \in DOMAIN rules[i].on /\ rules[i].on.inbound = {names[i]}
             /\ rules[i].to \in {Outbound(t) : t \in Tags(plan.proxies)}
  <2>1. rules[i] = Rule([inbound |-> {names[i]}], Outbound(plan.proxies[i].tag))
    BY <1>1, <1>7, Zenon
  <2>2. DOMAIN plan.proxies = 1..n
    BY SMTT(40) DEF Sound, IsList
  <2> HIDE DEF rules, names
  <2>3. /\ "inbound" \in DOMAIN rules[i].on /\ rules[i].on.inbound = {names[i]}
        /\ rules[i].to = Outbound(plan.proxies[i].tag)
    BY <2>1 DEF Rule
  <2> QED BY <1>7, <2>2, <2>3 DEF Tags
<1> HIDE DEF inbounds, rules, names, balancers, more
<1>8. Leading(rules, names, n, plan.proxies, balancers)
  BY <1>6, <1>7, Zenon DEF Leading
<1>9. BalancersArePermitted(balancers, plan.proxies) /\ more \in SUBSET {"observatory"}
  BY SMTT(40), NoBalancers DEF balancers, more
<1>10. PingIsAccepted(ProbeConfig(plan, inbounds, rules, balancers, more), asked, reserved)
  BY <1>1, <1>2, <1>3, <1>4, <1>5, <1>8, <1>9, ProbeIsAccepted
<1> QED BY <1>10, Zenon DEF inbounds, rules, balancers, more

(* The ping of one path of a sound plan is accepted.                         *)
LEMMA LegacyPingIsAccepted ==
  ASSUME NoneIsNothing, NEW plan, Sound(plan)
  PROVE  PingIsAccepted(
           ProbeConfig(plan, << SocksInbound("socks-in", Port) >>,
             << Rule(Always, Outbound(PingOutboundTag(plan))) >>, <<>>, {}),
           <<Port>>, <<Port>>)
<1> DEFINE inbound == SocksInbound("socks-in", Port)
           inbounds == << inbound >>
           to == Outbound(PingOutboundTag(plan))
           rule == Rule(Always, to)
           rules == << rule >>
           names == << "socks-in" >>
           ports == << Port >>
           balancers == <<>>
           more == {}
<1>1. 1 \in 1..MaxServerIps /\ Port >= 1024
  BY SomeAreTaken, OffersAssumption
<1>2. Expected(names, 1)
  BY DEF Expected
<1>3. inbound = SocksInbound(names[1], Port)
  OBVIOUS
<1>4. to \in {Outbound(t) : t \in Tags(plan.proxies)}
  BY PingTag
<1> HIDE DEF to
<1>5. "inbound" \notin DOMAIN rule.on /\ rule.to = to
  <2>1. rule.on = Always /\ rule.to = to
    BY RuleParts
  <2>2. DOMAIN Always = {}
    BY DEF Always
  <2> QED BY <2>1, <2>2
<1> HIDE DEF inbound, rule, names
<1>6. /\ IsTable(inbounds, 1) /\ inbounds[1] = inbound
      /\ IsTable(rules, 1) /\ rules[1] = rule
  BY ListOfOne
<1>7. IsTable(ports, 1) /\ ports[1] = Port /\ IsInjective(ports)
  BY ListOfOne
<1> HIDE DEF inbounds, rules, ports
<1>8. Listening(inbounds, names, ports, 1)
  <2>1. \A i \in 1..1 : i = 1
    OBVIOUS
  <2> QED BY Zenon, <1>3, <1>6, <1>7, <2>1 DEF Listening
<1>9. Leading(rules, names, 1, plan.proxies, balancers)
  <2>1. \A i \in 1..1 : i = 1
    OBVIOUS
  <2> HIDE DEF balancers
  <2> QED BY <1>4, <1>5, <1>6, <2>1, Zenon DEF Leading
<1>10. BalancersArePermitted(balancers, plan.proxies) /\ more \in SUBSET {"observatory"}
  BY NoBalancers
<1> HIDE DEF balancers, more
<1>11. \A i \in 1..1 : ports[i] >= 1024
  BY SMTT(40), <1>1, <1>7
<1>12. PingIsAccepted(ProbeConfig(plan, inbounds, rules, balancers, more), ports, ports)
  BY <1>1, <1>2, <1>7, <1>8, <1>9, <1>10, <1>11, ProbeIsAccepted
<1> QED BY <1>12, Zenon DEF inbounds, inbound, rules, rule, to, balancers, more, ports

(* With a plan there is a document.                                          *)
Documented ==
  request # None =>
    request.document # None \/ OutboundPlans(request.choice.server) = {}

(* A data document is a record, and so it is none of None.                   *)
LEMMA DocumentIsSome ==
  ASSUME NoneIsNothing, NEW server, NEW split, NEW mode, NEW lan,
         NEW document \in BuildXrayConfig(server, split, mode, lan)
  PROVE  document # None
<1>1. document = [x \in DOMAIN document |-> document[x]]
  BY DEF BuildXrayConfig
<1> QED BY SMTT(40), <1>1, FunctionIsSome

(* Choosing a location that has a plan writes its documents.                 *)
LEMMA DocumentedStep ==
  ASSUME NoneIsNothing, Documented, [Next]_vars
  PROVE  Documented'
<1>1. ASSUME NEW choice \in Offers, Choose(choice) PROVE Documented'
  <2> DEFINE documents == BuildXrayConfig(choice.server, choice.split, choice.mode, allowLan)
             preflights == BuildConnectionProbeConfig(choice.server)
  <2>1. request' \in [choice: {choice}, document: IF documents = {} THEN {None} ELSE documents,
                      preflight: IF documents = {} THEN {None} ELSE preflights]
    BY <1>1 DEF Choose
  <2>2. documents = {} => OutboundPlans(choice.server) = {}
    BY Zenon DEF BuildXrayConfig
  <2>3. \A document \in documents : document # None
    BY DocumentIsSome
  <2> HIDE DEF documents, preflights
  <2>4. /\ request'.choice = choice
        /\ documents # {} => request'.document \in documents
    BY SMTT(40), <2>1
  <2> QED BY SMTT(40), <2>2, <2>3, <2>4 DEF Documented
<1>2. CASE Refuse \/ Connect
  BY Zenon, <1>2 DEF Documented, Refuse, Connect
<1>3. CASE Relayer \/ NewFlow \/ EndFlow \/ Send \/ UNCHANGED vars
  <2>1. request' = request
    BY SMTT(40), <1>3 DEF Relayer, NewFlow, EndFlow, Send, vars
  <2> QED BY SMTT(40), <2>1 DEF Documented
<1> QED BY SMTT(40), <1>1, <1>2, <1>3 DEF Next

(* The sections, the inbound and the outbounds of a data document are those  *)
(* of a plan.                                                                *)
TakenFrom(plan, mode, document) ==
  /\ document.sections = {"log", "dns", "inbounds", "outbounds", "routing"} \cup Observing(plan)
  /\ document.inbounds = << BuildInbound(mode) >>
  /\ document.outbounds = plan.proxies \o SystemOutbounds

(* What a data document takes from its plan.                                 *)
LEMMA DocumentParts ==
  ASSUME NEW server, NEW split, NEW mode, NEW lan,
         NEW document \in BuildXrayConfig(server, split, mode, lan)
  PROVE  \E plan \in OutboundPlans(server) : TakenFrom(plan, mode, document)
<1>1. PICK plan \in OutboundPlans(server) :
        document = [sections |-> {"log", "dns", "inbounds", "outbounds", "routing"}
                                   \cup Observing(plan),
                    inbounds |-> << BuildInbound(mode) >>,
                    outbounds |-> plan.proxies \o SystemOutbounds,
                    rules |-> BuildRouteRules(split, lan, mode, plan.target,
                                              DnsUpstreams(server), plan.rules),
                    balancers |-> plan.balancers,
                    target |-> plan.target, provider |-> plan.rules]
  BY Zenon DEF BuildXrayConfig
<1> DEFINE sections == {"log", "dns", "inbounds", "outbounds", "routing"} \cup Observing(plan)
           inbounds == << BuildInbound(mode) >>
           outbounds == plan.proxies \o SystemOutbounds
<1> HIDE DEF sections, inbounds, outbounds
<1>2. /\ document.sections = sections /\ document.inbounds = inbounds
      /\ document.outbounds = outbounds
  BY <1>1, Zenon DEF sections, inbounds, outbounds
<1> QED BY Zenon, <1>2 DEF TakenFrom, sections, inbounds, outbounds

(* What was prepared for an ordinary location is accepted.                   *)
LEMMA PreparedIsAccepted ==
  ASSUME NoneIsNothing, PlaneInv, Documented
  PROVE  GeneratedIsAccepted
<1> DEFINE server == request.choice.server
           paths == Len(request.document.outbounds) - 3
           asked == PingPlaceholderPorts(paths)
           reserved == [i \in 1..paths |-> Port + i]
<1> SUFFICES ASSUME request # None, Ordinary(server)
             PROVE  /\ Accepted(request)
                    /\ \A d \in BuildPingConfig(server, asked) : PingIsAccepted(d, asked, reserved)
                    /\ \A d \in BuildLegacyPingConfig(server, Port) :
                         PingIsAccepted(d, <<Port>>, <<Port>>)
  BY Zenon DEF GeneratedIsAccepted
<1>1. /\ request.choice \in Offers /\ ValidateServer(server) /\ IsServer(server)
      /\ request.choice.mode \in {"tun", "proxy"}
  BY SMTT(40), OffersAssumption DEF PlaneInv, Prepared
<1>2. OutboundPlans(server) # {} /\ \A plan \in OutboundPlans(server) : Sound(plan)
  BY SMTT(40), <1>1, OrdinaryHasPlan, PlanIsSound
<1>3. /\ request.document # None
      /\ request.document \in BuildXrayConfig(server, request.choice.split,
                                             request.choice.mode, allowLan)
      /\ request.preflight \in BuildConnectionProbeConfig(server)
  BY <1>2 DEF Documented, PlaneInv, Prepared
<1>4. PICK plan \in OutboundPlans(server) :
        /\ request.document.sections
             = {"log", "dns", "inbounds", "outbounds", "routing"} \cup Observing(plan)
        /\ request.document.inbounds = << BuildInbound(request.choice.mode) >>
        /\ request.document.outbounds = plan.proxies \o SystemOutbounds
  <2> DEFINE split == request.choice.split
             mode == request.choice.mode
             document == request.document
  <2>1. document \in BuildXrayConfig(server, split, mode, allowLan)
    BY <1>3
  <2> HIDE DEF server, split, mode, document
  <2>2. \E plan \in OutboundPlans(server) : TakenFrom(plan, mode, document)
    BY Zenon, <2>1, DocumentParts
  <2> QED BY Zenon, <2>2 DEF TakenFrom, server, mode, document
<1>5. PICK q \in OutboundPlans(server) :
        request.preflight = ProbeConfig(q, << SocksInbound("socks-in-0", ProbePortBase) >>,
          << Rule([inbound |-> {"socks-in-0"}], q.target) >>, q.balancers, Observing(q))
  BY <1>3, Zenon DEF BuildConnectionProbeConfig
<1>6. Accepted(request)
  <2>1. ValidateXrayDocument(request.document, request.choice.mode)
    BY Zenon, <1>1, <1>2, <1>4, DataIsValid
  <2>2. /\ ValidationConfigPorts(request.preflight) # None
        /\ PingIsAccepted(request.preflight, ValidationConfigPorts(request.preflight), <<Port>>)
    BY <1>2, <1>5, PreflightIsAccepted
  <2> QED BY <1>3, <2>1, <2>2, Zenon DEF Accepted, ConnectIsAccepted
<1>7. paths \in 1..MaxServerIps
  <2>1. Sound(plan)
    BY SMTT(40), <1>2
  <2>2. Len(request.document.outbounds) = Len(plan.proxies) + 3
    BY SMTT(40), <1>4, <2>1, OutboundsArePermitted
  <2>3. Len(plan.proxies) \in 1..MaxServerIps
    BY Zenon, <2>1 DEF Sound
  <2> QED BY SMTT(40), <2>2, <2>3, SomeAreTaken
<1> HIDE DEF paths
<1>8. ASSUME NEW d \in BuildPingConfig(server, asked) PROVE PingIsAccepted(d, asked, reserved)
  <2>1. Len(asked) = paths
    <3>1. IsTable(asked, paths) /\ paths \in Nat
      BY <1>7, SomeAreTaken DEF IsTable, PingPlaceholderPorts
    <3> HIDE DEF asked
    <3> QED BY <3>1, TableIsList
  <2>2. PICK p \in OutboundPlans(server) :
          /\ Len(p.proxies) = Len(asked)
          /\ d = ProbeConfig(p, [i \in DOMAIN asked |-> SocksInbound(SocksIn[i], asked[i])],
                   [i \in DOMAIN asked |->
                     Rule([inbound |-> {SocksIn[i]}], Outbound(p.proxies[i].tag))],
                   <<>>, {})
    <3> HIDE DEF asked
    <3> QED BY <1>8, Zenon DEF BuildPingConfig
  <2>3. Sound(p) /\ Len(p.proxies) = paths
    BY Zenon, <1>2, <2>1, <2>2
  <2>4. asked = PingPlaceholderPorts(paths) /\ reserved = [i \in 1..paths |-> Port + i]
    BY SMTT(40)
  <2> HIDE DEF asked, reserved
  <2> QED BY Zenon, <1>7, <2>2, <2>3, <2>4, PingsAreAccepted
<1>9. ASSUME NEW d \in BuildLegacyPingConfig(server, Port)
      PROVE  PingIsAccepted(d, <<Port>>, <<Port>>)
  <2>1. PICK p \in OutboundPlans(server) :
          d = ProbeConfig(p, << SocksInbound("socks-in", Port) >>,
                << Rule(Always, Outbound(PingOutboundTag(p))) >>, <<>>, {})
    BY <1>9, Zenon DEF BuildLegacyPingConfig
  <2> QED BY <1>2, <2>1, LegacyPingIsAccepted
<1> QED BY <1>6, <1>8, <1>9

(* GeneratedIsAccepted: every document that build_xray_config,               *)
(* build_connection_probe_config, build_ping_config and                      *)
(* build_legacy_ping_config write for an ordinary location that passed       *)
(* validate_server is one that validate_xray_document or                     *)
(* validate_ping_xray_document takes, as it came and with the daemon's own   *)
(* ports (xray.rs:1474-1692, system.rs:1351), for profiles of any size the   *)
(* daemon takes. None is an Option's None and no record.                     *)
THEOREM GeneratedDocumentsAreAccepted ==
  ASSUME NoneIsNothing
  PROVE  Spec => []GeneratedIsAccepted
<1>1. Init => PlaneInv /\ Documented
  <2>1. Init => Documented
    BY DEF Init, Documented
  <2> QED BY <2>1, PlaneInit
<1>2. PlaneInv /\ Documented /\ [Next]_vars => (PlaneInv /\ Documented)'
  BY PlaneStep, DocumentedStep
<1>3. PlaneInv /\ Documented => GeneratedIsAccepted
  BY PreparedIsAccepted
<1> QED BY <1>1, <1>2, <1>3, PTL DEF Spec
=============================================================================
