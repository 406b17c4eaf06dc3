---------------------------- MODULE RoutingProofs ----------------------------
(***************************************************************************)
(* Why the routes never loop, are complete when they are up and gone when  *)
(* they are down, and why recovery finds nothing that it cannot remove:    *)
(* for any servers and interfaces, with and without IPv6. The argument     *)
(* follows the commands that a writer has left: what a command is to lay   *)
(* or to remove is laid or gone once the command is not among them.        *)
(***************************************************************************)
EXTENDS Routing, TLAPS

USE RoutingAssumption

DownNames ==
  {"del_low", "del_high", "del_dns_rule", "flush_101", "del_hole", "del_dial",
   "del_dial6", "del_bypass", "del_bypass6", "flush_100", "flush_100v6",
   "del_pins", "restore_rp"}
RemoveNames == {"del_split_rule", "flush_102", "del_split_nft"}
InstallNames == {"del_split_rule", "flush_102", "split_table", "split_rule", "split_nft"}
RecoverNames == DownNames \cup RemoveNames \cup {"del_tun"}

Plain == (UpNames \ {"pin"}) \cup RecoverNames \cup InstallNames

Pin(s) == [do |-> "pin", at |-> s]

Commands == {Cmd(x) : x \in Plain} \cup {Pin(s) : s \in Servers}

Rules4 == {<<"dns", "101">>, <<"dial", "100">>, <<"bypass", "100">>, <<"bypass", "102">>}
Rules6 == {<<"dial", "100v6">>, <<"bypass", "100v6">>}

Nets ==
  [tun: BOOLEAN, low: BOOLEAN, high: BOOLEAN, hole: BOOLEAN,
   pins: SUBSET Servers, pinFile: SUBSET Servers,
   table: [Tables -> Ifaces \cup {None, "tun"}],
   rules4: SUBSET Rules4, rules6: SUBSET Rules6,
   rp: {"strict", "loose"}, rpFile: {"strict", "loose", None}, nat: Seq(Ifaces)]

Down == {"undo", "down"}
Quiet == {"idle", "install", "remove"}
Dead == {"dead", "recover", "repaired", "dirty"}

TypeOK ==
  /\ net \in Nets /\ uplink \in Ifaces /\ list \subseteq Servers
  /\ op \in {"up"} \cup Down \cup Quiet \cup Dead /\ todo \in Seq(Commands)
  /\ routesUp \in BOOLEAN /\ split \in BOOLEAN /\ astray \in BOOLEAN
  /\ net.table["100"] # "tun" /\ net.table["102"] # "tun"

(* The commands a writer has left.                                          *)
Left == {c.do : c \in Range(todo)}

(* The order of the commands of route_up, and of route_down.                *)
Rank(x) ==
  CASE x = "ensure_tun" -> 1    [] x = "dns_table" -> 2    [] x = "dns_rule" -> 3
    [] x = "rp" -> 4            [] x = "phys" -> 5         [] x = "dial_rule" -> 6
    [] x = "bypass_rule" -> 7   [] x = "phys6" -> 8        [] x = "dial_rule6" -> 9
    [] x = "bypass_rule6" -> 10 [] x = "pin" -> 11         [] x = "save_pins" -> 12
    [] x = "low" -> 13          [] x = "high" -> 14        [] x = "hole" -> 15
    [] x = "del_low" -> 21      [] x = "del_high" -> 22    [] x = "del_dns_rule" -> 23
    [] x = "flush_101" -> 24    [] x = "del_hole" -> 25    [] x = "del_dial" -> 26
    [] x = "del_dial6" -> 27    [] x = "del_bypass" -> 28  [] x = "del_bypass6" -> 29
    [] x = "flush_100" -> 30    [] x = "flush_100v6" -> 31 [] x = "del_pins" -> 32
    [] x = "restore_rp" -> 33   [] OTHER -> 0

Precedes(c, d) == Rank(c.do) < Rank(d.do) \/ (c.do = "pin" /\ d.do = "pin")

Sorted(s) == \A i, j \in DOMAIN s : i < j => Precedes(s[i], s[j])

(* What each writer may have left.                                          *)
Shape ==
  /\ op = "up" => /\ Left \subseteq UpNames /\ Sorted(todo)
                  /\ \A s \in Servers : Pin(s) \in Range(todo) => s \in list
  /\ op \in Down => Left \subseteq DownNames /\ Sorted(todo)
  /\ op = "install" => Left \subseteq InstallNames
  /\ op = "remove" => Left \subseteq RemoveNames
  /\ op = "recover" => Left \subseteq RecoverNames
  /\ op \in {"up", "undo"} \cup Dead => ~routesUp
  /\ op \in {"down", "install"} => routesUp
  /\ op \in Dead => astray
  /\ op # "dirty"

(* A half of the internet goes into the tunnel only past the marks' routes. *)
Tunnelled ==
  net.low \/ net.high =>
    net.tun /\ <<"dial", "100">> \in net.rules4 /\ <<"bypass", "100">> \in net.rules4
      /\ net.table["100"] # None

Pinned == op \notin Dead /\ (net.low \/ net.high) => list \subseteq net.pins

Laid ==
  /\ net.low /\ net.high /\ net.hole
  /\ <<"dns", "101">> \in net.rules4 /\ net.table["101"] = "tun"

Up ==
  op = "up" =>
    /\ net.tun \/ "ensure_tun" \in Left
    /\ net.table["101"] = "tun" \/ "dns_table" \in Left
    /\ <<"dns", "101">> \in net.rules4 \/ "dns_rule" \in Left
    /\ net.table["100"] # None \/ "phys" \in Left
    /\ <<"dial", "100">> \in net.rules4 \/ "dial_rule" \in Left
    /\ <<"bypass", "100">> \in net.rules4 \/ "bypass_rule" \in Left
    /\ \A s \in list : s \in net.pins \/ Pin(s) \in Range(todo)
    /\ net.low \/ "low" \in Left
    /\ net.high \/ "high" \in Left
    /\ net.hole \/ "hole" \in Left
    /\ net.low \/ net.high => Left \subseteq {"low", "high", "hole"}

Off ==
  /\ op \in {"idle", "remove"} /\ ~routesUp => ~net.low /\ ~net.high
  /\ op = "repaired" => ~net.low /\ ~net.high

Going ==
  op \in Down =>
    /\ net.low => "del_low" \in Left
    /\ net.high => "del_high" \in Left
    /\ net.hole => "del_hole" \in Left
    /\ <<"dns", "101">> \in net.rules4 => "del_dns_rule" \in Left
    /\ <<"dial", "100">> \in net.rules4 => "del_dial" \in Left
    /\ <<"bypass", "100">> \in net.rules4 => "del_bypass" \in Left
    /\ <<"bypass", "102">> \in net.rules4 => "del_bypass" \in Left
    /\ <<"dial", "100v6">> \in net.rules6 => "del_dial6" \in Left
    /\ <<"bypass", "100v6">> \in net.rules6 => "del_bypass6" \in Left
    /\ net.table["101"] # None => "flush_101" \in Left
    /\ net.table["100"] # None => "flush_100" \in Left
    /\ net.table["100v6"] # None => "flush_100v6" \in Left
    /\ ~astray /\ net.pins # {} => "del_pins" \in Left
    /\ ~astray /\ net.rp # "strict" => "restore_rp" \in Left

Recovering ==
  op = "recover" =>
    /\ net.tun => "del_tun" \in Left
    /\ net.hole => "del_hole" \in Left
    /\ <<"dns", "101">> \in net.rules4 => "del_dns_rule" \in Left
    /\ <<"dial", "100">> \in net.rules4 => "del_dial" \in Left
    /\ <<"bypass", "100">> \in net.rules4 => "del_bypass" \in Left
    /\ <<"bypass", "102">> \in net.rules4 => "del_split_rule" \in Left
    /\ net.nat # <<>> => "del_split_nft" \in Left
    /\ net.low \/ net.high => todo # <<>> /\ Head(todo).do = "del_tun"

Late == {"pin", "save_pins", "low", "high", "hole"}

(* What the records say, while no kill and no refused pin has come between. *)
Recorded ==
  ~astray =>
    /\ net.rpFile # "loose" /\ (net.rpFile = None => net.rp = "strict")
    /\ op = "up" =>
         /\ "rp" \in Left => net.rp = "strict"
         /\ net.pins \subseteq list
         /\ net.pins = {} \/ Left \subseteq Late
         /\ net.pins \subseteq net.pinFile \/ "save_pins" \in Left
         /\ "pin" \in Left => "save_pins" \in Left
    /\ op \in Down \cup Quiet /\ ~(op \in {"idle", "remove"} /\ ~routesUp)
         => net.pins \subseteq net.pinFile
    /\ op \in {"idle", "remove"} /\ ~routesUp => Clean(net)

IInv ==
  /\ TypeOK /\ Shape /\ Tunnelled /\ Pinned /\ Up /\ Off /\ Going /\ Recovering /\ Recorded
  /\ op \in Quiet /\ routesUp => Laid

(***************************************************************************)
(* Lists of commands                                                       *)
(***************************************************************************)
LEMMA SetOfJoined ==
  ASSUME NEW S, NEW s \in Seq(S), NEW t \in Seq(S)
  PROVE  s \o t \in Seq(S) /\ Range(s \o t) = Range(s) \cup Range(t)
<1>1. /\ s \o t \in Seq(S) /\ Len(s \o t) = Len(s) + Len(t)
      /\ \A k \in 1..Len(s) : (s \o t)[k] = s[k]
      /\ \A k \in 1..(Len(s) + Len(t)) : k > Len(s) => (s \o t)[k] = t[k - Len(s)]
      /\ Len(s) \in Nat /\ Len(t) \in Nat
  OBVIOUS
<1>2. /\ DOMAIN (s \o t) = 1..(Len(s) + Len(t)) /\ DOMAIN s = 1..Len(s) /\ DOMAIN t = 1..Len(t)
  BY <1>1
<1>3. ASSUME NEW e \in Range(s \o t) PROVE e \in Range(s) \cup Range(t)
  <2>1. PICK k \in 1..(Len(s) + Len(t)) : e = (s \o t)[k]
    BY <1>2 DEF Range
  <2>2. CASE k <= Len(s)
    BY <1>1, <1>2, <2>1, <2>2 DEF Range
  <2>3. CASE k > Len(s)
    <3>1. k - Len(s) \in DOMAIN t /\ e = t[k - Len(s)]
      BY <1>1, <1>2, <2>1, <2>3
    <3> QED BY <3>1 DEF Range
  <2> QED BY <1>1, <2>2, <2>3
<1>4. ASSUME NEW e \in Range(s) PROVE e \in Range(s \o t)
  <2>1. PICK k \in 1..Len(s) : e = s[k]
    BY <1>2 DEF Range
  <2>2. k \in DOMAIN (s \o t) /\ e = (s \o t)[k]
    BY <1>1, <1>2, <2>1
  <2> QED BY <2>2 DEF Range
<1>5. ASSUME NEW e \in Range(t) PROVE e \in Range(s \o t)
  <2>1. PICK k \in 1..Len(t) : e = t[k]
    BY <1>2 DEF Range
  <2>2. Len(s) + k \in 1..(Len(s) + Len(t)) /\ Len(s) + k > Len(s) /\ (Len(s) + k) - Len(s) = k
    BY <1>1
  <2>3. Len(s) + k \in DOMAIN (s \o t) /\ e = (s \o t)[Len(s) + k]
    BY <1>1, <1>2, <2>1, <2>2
  <2> QED BY <2>3 DEF Range
<1> QED BY <1>1, <1>3, <1>4, <1>5

(* A list whose every command precedes those of the next stays sorted.       *)
LEMMA SortedJoined ==
  ASSUME NEW S, NEW s \in Seq(S), NEW t \in Seq(S), Sorted(s), Sorted(t),
         \A c \in Range(s), d \in Range(t) : Precedes(c, d)
  PROVE  Sorted(s \o t)
<1>1. /\ Len(s \o t) = Len(s) + Len(t)
      /\ \A k \in 1..Len(s) : (s \o t)[k] = s[k]
      /\ \A k \in 1..(Len(s) + Len(t)) : k > Len(s) => (s \o t)[k] = t[k - Len(s)]
      /\ Len(s) \in Nat /\ Len(t) \in Nat
  OBVIOUS
<1>2. /\ DOMAIN (s \o t) = 1..(Len(s) + Len(t)) /\ DOMAIN s = 1..Len(s) /\ DOMAIN t = 1..Len(t)
  BY <1>1
<1> SUFFICES ASSUME NEW i \in 1..(Len(s) + Len(t)), NEW j \in 1..(Len(s) + Len(t)), i < j
             PROVE  Precedes((s \o t)[i], (s \o t)[j])
  BY <1>2 DEF Sorted
<1>3. CASE j <= Len(s)
  <2>1. i \in DOMAIN s /\ j \in DOMAIN s /\ (s \o t)[i] = s[i] /\ (s \o t)[j] = s[j]
    BY <1>1, <1>2, <1>3
  <2> QED BY <2>1 DEF Sorted
<1>4. CASE i <= Len(s) /\ j > Len(s)
  <2>1. i \in DOMAIN s /\ j - Len(s) \in DOMAIN t /\ (s \o t)[i] = s[i] /\ (s \o t)[j] = t[j - Len(s)]
    BY <1>1, <1>2, <1>4
  <2> QED BY <2>1 DEF Range
<1>5. CASE i > Len(s)
  <2>1. /\ i - Len(s) \in DOMAIN t /\ j - Len(s) \in DOMAIN t /\ i - Len(s) < j - Len(s)
        /\ (s \o t)[i] = t[i - Len(s)] /\ (s \o t)[j] = t[j - Len(s)]
    BY <1>1, <1>2, <1>5
  <2> QED BY <2>1 DEF Sorted
<1> QED BY <1>1, <1>3, <1>4, <1>5

(* The first command is taken off; it comes before the others.              *)
LEMMA TakeFirst ==
  ASSUME NEW S, NEW s \in Seq(S), s # <<>>
  PROVE  /\ Head(s) \in S /\ Tail(s) \in Seq(S)
         /\ Head(s) \in Range(s) /\ Range(s) = Range(Tail(s)) \cup {Head(s)}
         /\ Sorted(s) => Sorted(Tail(s)) /\ \A d \in Range(Tail(s)) : Precedes(Head(s), d)
<1>1. /\ Tail(s) \in Seq(S) /\ Len(Tail(s)) = Len(s) - 1 /\ Len(s) \in Nat /\ Len(s) > 0
      /\ \A i \in 1..Len(Tail(s)) : Tail(s)[i] = s[i + 1]
  OBVIOUS
<1>2. Head(s) = s[1] /\ DOMAIN s = 1..Len(s) /\ DOMAIN Tail(s) = 1..(Len(s) - 1)
  BY <1>1
<1>3. Head(s) \in Range(s) /\ Head(s) \in S
  BY <1>1, <1>2 DEF Range
<1>4. ASSUME NEW e \in Range(s) PROVE e \in Range(Tail(s)) \cup {Head(s)}
  <2>1. PICK i \in 1..Len(s) : e = s[i]
    BY <1>2 DEF Range
  <2>2. CASE i = 1
    BY <2>1, <2>2, <1>2
  <2>3. CASE i # 1
    <3>1. i - 1 \in DOMAIN Tail(s) /\ e = Tail(s)[i - 1]
      BY <2>1, <2>3, <1>1, <1>2
    <3> QED BY Zenon, <3>1 DEF Range
  <2> QED BY <2>2, <2>3
<1>5. ASSUME NEW d \in Range(Tail(s))
      PROVE  d \in Range(s) /\ (Sorted(s) => Precedes(Head(s), d))
  <2>1. PICK i \in 1..(Len(s) - 1) : d = Tail(s)[i]
    BY <1>2 DEF Range
  <2>2. i + 1 \in DOMAIN s /\ d = s[i + 1] /\ 1 < i + 1 /\ 1 \in DOMAIN s
    BY <1>1, <1>2, <2>1
  <2> QED BY <1>2, <2>2 DEF Range, Sorted
<1>6. ASSUME Sorted(s), NEW i \in DOMAIN Tail(s), NEW j \in DOMAIN Tail(s), i < j
      PROVE  Precedes(Tail(s)[i], Tail(s)[j])
  <2>1. /\ i + 1 \in DOMAIN s /\ j + 1 \in DOMAIN s /\ i + 1 < j + 1
        /\ Tail(s)[i] = s[i + 1] /\ Tail(s)[j] = s[j + 1]
    BY <1>1, <1>2, <1>6
  <2> QED BY <1>6, <2>1 DEF Sorted
<1> QED BY <1>1, <1>3, <1>4, <1>5, <1>6 DEF Sorted

(* The commands of a list of plain names.                                    *)
LEMMA SetOfCmds ==
  ASSUME NEW names \in Seq(Plain)
  PROVE  /\ Cmds(names) \in Seq(Commands) /\ Len(Cmds(names)) = Len(names)
         /\ DOMAIN Cmds(names) = DOMAIN names
         /\ Range(Cmds(names)) = {Cmd(x) : x \in Range(names)}
<1>1. DOMAIN names = 1..Len(names) /\ Len(names) \in Nat /\ \A i \in 1..Len(names) : names[i] \in Plain
  OBVIOUS
<1>2. Cmds(names) \in Seq(Commands) /\ Len(Cmds(names)) = Len(names)
  BY <1>1 DEF Cmds, Commands
<1> QED BY <1>1, <1>2 DEF Cmds, Range

(* The pin commands of route_up, one for each server address.                *)
LEMMA SetOfPinCmds ==
  ASSUME NEW servers \in Seq(Servers)
  PROVE  /\ PinCmds(servers) \in Seq(Commands) /\ Sorted(PinCmds(servers))
         /\ Range(PinCmds(servers)) = {Pin(s) : s \in Range(servers)}
<1>1. PinCmds(servers) = [i \in DOMAIN servers |-> Pin(servers[i])]
  BY DEF PinCmds, Pin
<1>2. /\ DOMAIN servers = 1..Len(servers) /\ Len(servers) \in Nat
      /\ \A i \in 1..Len(servers) : servers[i] \in Servers
  OBVIOUS
<1>3. PinCmds(servers) \in Seq(Commands)
  BY <1>1, <1>2 DEF Commands
<1>4. Sorted(PinCmds(servers))
  BY <1>1 DEF Sorted, Precedes, Pin
<1>5. Range(PinCmds(servers)) = {Pin(s) : s \in Range(servers)}
  BY <1>1 DEF Range
<1> QED BY <1>3, <1>4, <1>5

(* The parts of route_up's list.                                            *)
MarkNames == <<"ensure_tun", "dns_table", "dns_rule", "rp", "phys", "dial_rule", "bypass_rule">>
MarkNames6 == <<"phys6", "dial_rule6", "bypass_rule6">>
TailNames == <<"save_pins", "low", "high", "hole">>

(* The parts route_up is written from, as lists and as sets.                 *)
LEMMA SetOfNames ==
  /\ MarkNames \in Seq(Plain) /\ DOMAIN MarkNames = 1..7
  /\ Range(MarkNames) = {"ensure_tun", "dns_table", "dns_rule", "rp", "phys", "dial_rule", "bypass_rule"}
  /\ MarkNames6 \in Seq(Plain) /\ DOMAIN MarkNames6 = 1..3
  /\ Range(MarkNames6) = {"phys6", "dial_rule6", "bypass_rule6"}
  /\ TailNames \in Seq(Plain) /\ DOMAIN TailNames = 1..4
  /\ Range(TailNames) = {"save_pins", "low", "high", "hole"}
<1> USE DEF Plain, UpNames, Range
<1>1. MarkNames \in Seq(Plain) /\ DOMAIN MarkNames = 1..7
  BY DEF MarkNames
<1>2. Range(MarkNames) = {"ensure_tun", "dns_table", "dns_rule", "rp", "phys", "dial_rule", "bypass_rule"}
  BY <1>1 DEF MarkNames
<1>3. MarkNames6 \in Seq(Plain) /\ DOMAIN MarkNames6 = 1..3
  BY DEF MarkNames6
<1>4. Range(MarkNames6) = {"phys6", "dial_rule6", "bypass_rule6"}
  BY <1>3 DEF MarkNames6
<1>5. TailNames \in Seq(Plain) /\ DOMAIN TailNames = 1..4
  BY DEF TailNames
<1>6. Range(TailNames) = {"save_pins", "low", "high", "hole"}
  BY <1>5 DEF TailNames
<1> QED BY Zenon, <1>1, <1>2, <1>3, <1>4, <1>5, <1>6

(* The commands of route_down, as a list and as a set.                       *)
LEMMA DownNamesSeq ==
  DownSeq \in Seq(Plain) /\ DOMAIN DownSeq = 1..13 /\ Range(DownSeq) = DownNames
<1>1. DownSeq \in Seq(Plain) /\ DOMAIN DownSeq = 1..13
  BY DEF DownSeq, Plain, RecoverNames, DownNames
<1> QED BY <1>1 DEF DownSeq, DownNames, Range

(* Ranks rise along each part.                                              *)
LEMMA RanksRise ==
  /\ \A i, j \in 1..7 : i < j => Rank(MarkNames[i]) < Rank(MarkNames[j])
  /\ \A i, j \in 1..3 : i < j => Rank(MarkNames6[i]) < Rank(MarkNames6[j])
  /\ \A i, j \in 1..4 : i < j => Rank(TailNames[i]) < Rank(TailNames[j])
  /\ \A i, j \in 1..13 : i < j => Rank(DownSeq[i]) < Rank(DownSeq[j])
<1>1. \A i \in 1..7 : Rank(MarkNames[i]) = i
  BY DEF MarkNames, Rank
<1>2. \A i \in 1..3 : Rank(MarkNames6[i]) = 7 + i
  BY DEF MarkNames6, Rank
<1>3. \A i \in 1..4 : Rank(TailNames[i]) = 11 + i
  BY DEF TailNames, Rank
<1>4. \A i \in 1..13 : Rank(DownSeq[i]) = 20 + i
  BY DEF DownSeq, Rank
<1> QED BY <1>1, <1>2, <1>3, <1>4

(* Commands listed by rising rank are sorted.                                *)
LEMMA SortedCmds ==
  ASSUME NEW names \in Seq(Plain),
         \A i, j \in DOMAIN names : i < j => Rank(names[i]) < Rank(names[j])
  PROVE  Sorted(Cmds(names))
  BY DEF Sorted, Cmds, Cmd, Precedes

(* route_down runs every command of its list once, in its order.             *)
LEMMA DownList ==
  /\ DownCmds \in Seq(Commands) /\ Sorted(DownCmds)
  /\ Range(DownCmds) = {Cmd(x) : x \in DownNames}
  /\ {c.do : c \in Range(DownCmds)} = DownNames
<1>1. /\ DownCmds \in Seq(Commands) /\ Sorted(DownCmds)
      /\ Range(DownCmds) = {Cmd(x) : x \in DownNames}
  BY Zenon, DownNamesSeq, RanksRise, SortedCmds, SetOfCmds DEF DownCmds
<1>2. \A x : Cmd(x).do = x
  BY DEF Cmd
<1>3. ASSUME NEW x \in DownNames PROVE x \in {c.do : c \in Range(DownCmds)}
  <2>1. Cmd(x) \in Range(DownCmds) /\ Cmd(x).do = x
    BY <1>1, <1>2
  <2> HIDE DEF Cmd
  <2> QED BY <2>1
<1>4. ASSUME NEW c \in Range(DownCmds) PROVE c.do \in DownNames
  BY <1>1, <1>2
<1> QED BY <1>1, <1>3, <1>4

(* route_up lists what it lays before what relies on it.                     *)
LEMMA UpList ==
  ASSUME NEW servers \in Seq(Servers)
  PROVE  /\ UpCmds(servers) \in Seq(Commands) /\ Sorted(UpCmds(servers))
         /\ \A c \in Range(UpCmds(servers)) : c.do \in UpNames
         /\ \A x \in {"ensure_tun", "dns_table", "dns_rule", "rp", "phys", "dial_rule",
                      "bypass_rule", "save_pins", "low", "high", "hole"} :
              Cmd(x) \in Range(UpCmds(servers))
         /\ \A s \in Servers : Pin(s) \in Range(UpCmds(servers)) <=> s \in Range(servers)
<1> DEFINE a == Cmds(MarkNames)
           b == IF HostV6 THEN Cmds(MarkNames6) ELSE <<>>
           p == PinCmds(servers)
           z == Cmds(TailNames)
<1>1. UpCmds(servers) = ((a \o b) \o p) \o z
  BY DEF UpCmds, MarkNames, MarkNames6, TailNames
<1>2. a \in Seq(Commands) /\ Sorted(a) /\ Range(a) = {Cmd(x) : x \in Range(MarkNames)}
  BY Zenon, SetOfNames, RanksRise, SortedCmds, SetOfCmds
<1>3. z \in Seq(Commands) /\ Sorted(z) /\ Range(z) = {Cmd(x) : x \in Range(TailNames)}
  BY Zenon, SetOfNames, RanksRise, SortedCmds, SetOfCmds
<1>4. b \in Seq(Commands) /\ Sorted(b) /\ Range(b) \subseteq {Cmd(x) : x \in Range(MarkNames6)}
  <2>1. CASE HostV6
    BY Zenon, <2>1, SetOfNames, RanksRise, SortedCmds, SetOfCmds
  <2>2. CASE ~HostV6
    BY <2>2 DEF Sorted, Range
  <2> QED BY <2>1, <2>2
<1>5. p \in Seq(Commands) /\ Sorted(p) /\ Range(p) = {Pin(s) : s \in Range(servers)}
  BY SetOfPinCmds
<1>6. /\ \A c \in Range(a) : Rank(c.do) \in 1..7 /\ c.do \in UpNames
      /\ \A c \in Range(b) : Rank(c.do) \in 8..10 /\ c.do \in UpNames
      /\ \A c \in Range(p) : Rank(c.do) = 11 /\ c.do \in UpNames
      /\ \A c \in Range(z) : Rank(c.do) \in 12..15 /\ c.do \in UpNames
  <2>1. \A c \in Range(a) : Rank(c.do) \in 1..7 /\ c.do \in UpNames
    BY <1>2, SetOfNames DEF Rank, Cmd, UpNames
  <2>2. \A c \in Range(b) : Rank(c.do) \in 8..10 /\ c.do \in UpNames
    BY <1>4, SetOfNames DEF Rank, Cmd, UpNames
  <2>3. \A c \in Range(p) : Rank(c.do) = 11 /\ c.do \in UpNames
    BY <1>5 DEF Rank, Pin, UpNames
  <2>4. \A c \in Range(z) : Rank(c.do) \in 12..15 /\ c.do \in UpNames
    BY <1>3, SetOfNames DEF Rank, Cmd, UpNames
  <2> QED BY <2>1, <2>2, <2>3, <2>4
<1> HIDE DEF a, b, p, z
<1> DEFINE ab == a \o b
           abp == ab \o p
           abpz == abp \o z
<1>7. ab \in Seq(Commands) /\ Range(ab) = Range(a) \cup Range(b) /\ Sorted(ab)
  <2>1. ab \in Seq(Commands) /\ Range(ab) = Range(a) \cup Range(b)
    BY <1>2, <1>4, SetOfJoined
  <2>2. \A c \in Range(a), d \in Range(b) : Precedes(c, d)
    BY <1>6 DEF Precedes
  <2> QED BY <1>2, <1>4, <2>1, <2>2, SortedJoined
<1> HIDE DEF ab
<1>8. /\ abp \in Seq(Commands) /\ Sorted(abp)
      /\ Range(abp) = Range(a) \cup Range(b) \cup Range(p)
  <2>1. abp \in Seq(Commands) /\ Range(abp) = Range(ab) \cup Range(p)
    BY <1>5, <1>7, SetOfJoined
  <2>2. \A c \in Range(ab), d \in Range(p) : Precedes(c, d)
    BY <1>6, <1>7 DEF Precedes
  <2> QED BY <1>5, <1>7, <2>1, <2>2, SortedJoined
<1> HIDE DEF abp
<1>9. /\ abpz \in Seq(Commands) /\ Sorted(abpz)
      /\ Range(abpz) = Range(a) \cup Range(b) \cup Range(p) \cup Range(z)
  <2>1. abpz \in Seq(Commands) /\ Range(abpz) = Range(abp) \cup Range(z)
    BY <1>3, <1>8, SetOfJoined
  <2>2. \A c \in Range(abp), d \in Range(z) : Precedes(c, d)
    BY <1>6, <1>8 DEF Precedes
  <2> QED BY <1>3, <1>8, <2>1, <2>2, SortedJoined
<1> HIDE DEF abpz
<1>0. UpCmds(servers) = abpz
  BY <1>1 DEF ab, abp, abpz
<1>10. \A c \in Range(UpCmds(servers)) : c.do \in UpNames
  BY <1>0, <1>6, <1>9
<1>11. \A s \in Servers : Pin(s) \in Range(UpCmds(servers)) <=> s \in Range(servers)
  <2>1. ASSUME NEW s \in Range(servers) PROVE Pin(s) \in Range(UpCmds(servers))
    BY <1>0, <1>5, <1>9
  <2>2. ASSUME NEW s \in Servers, Pin(s) \in Range(UpCmds(servers)) PROVE s \in Range(servers)
    <3>1. Pin(s).do = "pin" /\ Rank("pin") = 11
      BY DEF Pin, Rank
    <3>2. Pin(s) \in Range(p)
      BY <1>0, <1>6, <1>9, <2>2, <3>1
    <3>3. PICK r \in Range(servers) : Pin(s) = Pin(r)
      BY <1>5, <3>2
    <3> QED BY <3>3 DEF Pin
  <2> QED BY <2>1, <2>2
<1>12. \A x \in {"ensure_tun", "dns_table", "dns_rule", "rp", "phys", "dial_rule",
                 "bypass_rule", "save_pins", "low", "high", "hole"} :
         Cmd(x) \in Range(UpCmds(servers))
  BY <1>0, <1>2, <1>3, <1>9, SetOfNames
<1> QED BY <1>0, <1>9, <1>10, <1>11, <1>12

(* The commands of a list of one or of two names.                            *)
LEMMA SetOfOneOrTwo ==
  ASSUME NEW x \in Plain, NEW y \in Plain
  PROVE  /\ Cmds(<<x>>) \in Seq(Commands) /\ Range(Cmds(<<x>>)) = {Cmd(x)}
         /\ Cmds(<<x>>) # <<>> /\ Cmds(<<x>>)[1] = Cmd(x)
         /\ Cmds(<<x, y>>) \in Seq(Commands) /\ Range(Cmds(<<x, y>>)) = {Cmd(x), Cmd(y)}
<1>1. <<x>> \in Seq(Plain) /\ Range(<<x>>) = {x} /\ Len(<<x>>) = 1 /\ <<x>>[1] = x
  BY DEF Range
<1>2. <<x, y>> \in Seq(Plain) /\ Range(<<x, y>>) = {x, y}
  BY DEF Range
<1>3. /\ Cmds(<<x>>) \in Seq(Commands) /\ Range(Cmds(<<x>>)) = {Cmd(x)}
      /\ Len(Cmds(<<x>>)) = 1
  BY Zenon, <1>1, SetOfCmds
<1>4. Cmds(<<x, y>>) \in Seq(Commands) /\ Range(Cmds(<<x, y>>)) = {Cmd(x), Cmd(y)}
  BY Zenon, <1>2, SetOfCmds
<1>5. Cmds(<<x>>)[1] = Cmd(x)
  BY <1>1 DEF Cmds
<1> QED BY <1>3, <1>4, <1>5

(* The elements of a list with one more at its end.                          *)
LEMMA SetOfAppended ==
  ASSUME NEW S, NEW s \in Seq(S), NEW e \in S
  PROVE  Append(s, e) \in Seq(S) /\ Range(Append(s, e)) = Range(s) \cup {e}
<1>1. /\ Append(s, e) \in Seq(S) /\ Len(s) \in Nat
      /\ DOMAIN Append(s, e) = 1..(Len(s) + 1) /\ DOMAIN s = 1..Len(s)
      /\ \A i \in 1..Len(s) : Append(s, e)[i] = s[i]
      /\ Append(s, e)[Len(s) + 1] = e
  OBVIOUS
<1> QED BY <1>1 DEF Range

(* The lists that install and remove the split routing.                      *)
LEMMA SplitLists ==
  /\ SplitTeardown \in Seq(Commands)
  /\ Range(SplitTeardown) = {Cmd("del_split_rule"), Cmd("flush_102")}
  /\ SplitTeardown \o SplitSetup \in Seq(Commands)
  /\ \A c \in Range(SplitTeardown \o SplitSetup) : c.do \in InstallNames
  /\ Append(SplitTeardown, Cmd("del_split_nft")) \in Seq(Commands)
  /\ \A c \in Range(Append(SplitTeardown, Cmd("del_split_nft"))) : c.do \in RemoveNames
<1>1. /\ SplitTeardown \in Seq(Commands)
      /\ Range(SplitTeardown) = {Cmd("del_split_rule"), Cmd("flush_102")}
  BY Zenon, SetOfOneOrTwo DEF SplitTeardown, Plain, InstallNames
<1>2. <<"split_table", "split_rule", "split_nft">> \in Seq(Plain)
  BY DEF Plain, InstallNames
<1>3. Range(<<"split_table", "split_rule", "split_nft">>) = {"split_table", "split_rule", "split_nft"}
  BY DEF Range
<1>4. SplitSetup \in Seq(Commands) /\ \A c \in Range(SplitSetup) : c.do \in InstallNames
  <2>1. /\ SplitSetup \in Seq(Commands)
        /\ Range(SplitSetup) = {Cmd(x) : x \in {"split_table", "split_rule", "split_nft"}}
    BY Zenon, <1>2, <1>3, SetOfCmds DEF SplitSetup
  <2> QED BY <2>1 DEF Cmd, InstallNames
<1>5. /\ SplitTeardown \o SplitSetup \in Seq(Commands)
      /\ Range(SplitTeardown \o SplitSetup) = Range(SplitTeardown) \cup Range(SplitSetup)
  BY <1>1, <1>4, SetOfJoined
<1>6. \A c \in Range(SplitTeardown \o SplitSetup) : c.do \in InstallNames
  BY <1>1, <1>4, <1>5 DEF Cmd, InstallNames
<1>7. Cmd("del_split_nft") \in Commands
  BY DEF Commands, Plain, RecoverNames, RemoveNames
<1>8. /\ Append(SplitTeardown, Cmd("del_split_nft")) \in Seq(Commands)
      /\ Range(Append(SplitTeardown, Cmd("del_split_nft")))
           = Range(SplitTeardown) \cup {Cmd("del_split_nft")}
  BY <1>1, <1>7, SetOfAppended
<1>9. \A c \in Range(Append(SplitTeardown, Cmd("del_split_nft"))) : c.do \in RemoveNames
  BY <1>1, <1>8 DEF Cmd, RemoveNames
<1> QED BY <1>1, <1>5, <1>6, <1>8, <1>9

(* Recovery removes the device first, and then whatever its look has found. *)
LEMMA RemovalList ==
  ASSUME NEW n
  PROVE  /\ Removal(n) \in Seq(Commands)
         /\ \A c \in Range(Removal(n)) : c.do \in RecoverNames
         /\ n.tun => /\ Cmd("del_tun") \in Range(Removal(n))
                     /\ Removal(n) # <<>> /\ Head(Removal(n)) = Cmd("del_tun")
         /\ "100" \in FoundTables(n) => \A x \in DownNames : Cmd(x) \in Range(Removal(n))
         /\ "101" \in FoundTables(n) => Cmd("del_dns_rule") \in Range(Removal(n))
         /\ "102" \in FoundTables(n) => Cmd("del_split_rule") \in Range(Removal(n))
         /\ n.nat # <<>> => Cmd("del_split_nft") \in Range(Removal(n))
<1> DEFINE a == IF n.tun THEN Cmds(<<"del_tun">>) ELSE <<>>
           b == IF "100" \in FoundTables(n) THEN Append(DownCmds, Cmd("del_tun")) ELSE <<>>
           c == IF "101" \in FoundTables(n) THEN Cmds(<<"del_dns_rule", "flush_101">>) ELSE <<>>
           d == IF "102" \in FoundTables(n) THEN SplitTeardown ELSE <<>>
           e == IF n.nat # <<>> THEN Cmds(<<"del_split_nft">>) ELSE <<>>
           ab == a \o b
           abc == ab \o c
           abcd == abc \o d
<1>0. Removal(n) = abcd \o e
  BY DEF Removal
<1>1. <<>> \in Seq(Commands) /\ Range(<<>>) = {}
  BY DEF Range
<1>2. {"del_tun", "del_dns_rule", "flush_101", "del_split_nft"} \subseteq Plain
  BY DEF Plain, RecoverNames, RemoveNames, DownNames
<1>3. Cmd("del_tun") \in Commands
  BY <1>2 DEF Commands
<1>4. /\ a \in Seq(Commands) /\ Range(a) \subseteq {Cmd("del_tun")}
      /\ n.tun => Range(a) = {Cmd("del_tun")} /\ a # <<>> /\ a[1] = Cmd("del_tun")
  BY Zenon, <1>1, <1>2, SetOfOneOrTwo
<1>5. /\ Append(DownCmds, Cmd("del_tun")) \in Seq(Commands)
      /\ Range(Append(DownCmds, Cmd("del_tun"))) = Range(DownCmds) \cup {Cmd("del_tun")}
  BY <1>3, DownList, SetOfAppended
<1>6. /\ b \in Seq(Commands) /\ Range(b) \subseteq {Cmd(x) : x \in DownNames} \cup {Cmd("del_tun")}
      /\ "100" \in FoundTables(n) => \A x \in DownNames : Cmd(x) \in Range(b)
  BY <1>1, <1>5, DownList
<1>7. /\ c \in Seq(Commands) /\ Range(c) \subseteq {Cmd("del_dns_rule"), Cmd("flush_101")}
      /\ "101" \in FoundTables(n) => Cmd("del_dns_rule") \in Range(c)
  <2>1. /\ Cmds(<<"del_dns_rule", "flush_101">>) \in Seq(Commands)
        /\ Range(Cmds(<<"del_dns_rule", "flush_101">>)) = {Cmd("del_dns_rule"), Cmd("flush_101")}
    BY Zenon, <1>2, SetOfOneOrTwo
  <2> QED BY <1>1, <2>1
<1>8. /\ d \in Seq(Commands) /\ Range(d) \subseteq {Cmd("del_split_rule"), Cmd("flush_102")}
      /\ "102" \in FoundTables(n) => Cmd("del_split_rule") \in Range(d)
  BY <1>1, SplitLists
<1>9. /\ e \in Seq(Commands) /\ Range(e) \subseteq {Cmd("del_split_nft")}
      /\ n.nat # <<>> => Cmd("del_split_nft") \in Range(e)
  BY Zenon, <1>1, <1>2, SetOfOneOrTwo
<1> HIDE DEF a, b, c, d, e
<1>10. /\ ab \in Seq(Commands) /\ Range(ab) = Range(a) \cup Range(b)
       /\ n.tun => ab # <<>> /\ ab[1] = Cmd("del_tun")
  <2>1. ab \in Seq(Commands) /\ Range(ab) = Range(a) \cup Range(b)
    BY <1>4, <1>6, SetOfJoined
  <2>2. n.tun => ab # <<>> /\ ab[1] = Cmd("del_tun")
    BY <1>4, <1>6
  <2> QED BY <2>1, <2>2
<1> HIDE DEF ab
<1>11. /\ abc \in Seq(Commands) /\ Range(abc) = Range(ab) \cup Range(c)
       /\ n.tun => abc # <<>> /\ abc[1] = Cmd("del_tun")
  <2>1. abc \in Seq(Commands) /\ Range(abc) = Range(ab) \cup Range(c)
    BY <1>10, <1>7, SetOfJoined
  <2>2. n.tun => abc # <<>> /\ abc[1] = Cmd("del_tun")
    BY <1>10, <1>7
  <2> QED BY <2>1, <2>2
<1> HIDE DEF abc
<1>12. /\ abcd \in Seq(Commands) /\ Range(abcd) = Range(abc) \cup Range(d)
       /\ n.tun => abcd # <<>> /\ abcd[1] = Cmd("del_tun")
  <2>1. abcd \in Seq(Commands) /\ Range(abcd) = Range(abc) \cup Range(d)
    BY <1>11, <1>8, SetOfJoined
  <2>2. n.tun => abcd # <<>> /\ abcd[1] = Cmd("del_tun")
    BY <1>11, <1>8
  <2> QED BY <2>1, <2>2
<1> HIDE DEF abcd
<1>13. /\ Removal(n) \in Seq(Commands) /\ Range(Removal(n)) = Range(abcd) \cup Range(e)
       /\ n.tun => Removal(n) # <<>> /\ Head(Removal(n)) = Cmd("del_tun")
  <2>1. Removal(n) \in Seq(Commands) /\ Range(Removal(n)) = Range(abcd) \cup Range(e)
    BY <1>0, <1>12, <1>9, SetOfJoined
  <2>2. n.tun => Removal(n) # <<>> /\ Head(Removal(n)) = Cmd("del_tun")
    BY <1>0, <1>12, <1>9
  <2> QED BY <2>1, <2>2
<1>14. Range(Removal(n)) = Range(a) \cup Range(b) \cup Range(c) \cup Range(d) \cup Range(e)
  BY <1>10, <1>11, <1>12, <1>13
<1>15. \A x \in Range(Removal(n)) : x.do \in RecoverNames
  BY <1>14, <1>4, <1>6, <1>7, <1>8, <1>9 DEF Cmd, RecoverNames, RemoveNames, DownNames
<1> QED BY <1>4, <1>6, <1>7, <1>8, <1>9, <1>13, <1>14, <1>15

(***************************************************************************)
(* What a command changes                                                  *)
(***************************************************************************)
(* Two states of the kernel that differ in one place at most.              *)
OnlyTable(m, n) ==
  /\ m.tun = n.tun /\ m.low = n.low /\ m.high = n.high /\ m.hole = n.hole
  /\ m.pins = n.pins /\ m.pinFile = n.pinFile /\ m.rules4 = n.rules4 /\ m.rules6 = n.rules6
  /\ m.rp = n.rp /\ m.rpFile = n.rpFile /\ m.nat = n.nat

OnlyRules(m, n) ==
  /\ m.tun = n.tun /\ m.low = n.low /\ m.high = n.high /\ m.hole = n.hole
  /\ m.pins = n.pins /\ m.pinFile = n.pinFile /\ m.table = n.table /\ m.rules6 = n.rules6
  /\ m.rp = n.rp /\ m.rpFile = n.rpFile /\ m.nat = n.nat

OnlyRules6(m, n) ==
  /\ m.tun = n.tun /\ m.low = n.low /\ m.high = n.high /\ m.hole = n.hole
  /\ m.pins = n.pins /\ m.pinFile = n.pinFile /\ m.table = n.table /\ m.rules4 = n.rules4
  /\ m.rp = n.rp /\ m.rpFile = n.rpFile /\ m.nat = n.nat

(* Replacing one table leaves every other field as it was.                   *)
LEMMA SetFields ==
  ASSUME NEW n \in Nets, NEW t \in Tables, NEW v \in Ifaces \cup {None, "tun"}, NEW m, m = Set(n, t, v)
  PROVE  /\ m \in Nets /\ OnlyTable(m, n)
         /\ m.table[t] = v /\ \A u \in Tables \ {t} : m.table[u] = n.table[u]
<1> DEFINE f == [n.table EXCEPT ![t] = v]
<1>1. n.table \in [Tables -> Ifaces \cup {None, "tun"}]
  BY DEF Nets
<1>2. m = [n EXCEPT !.table = f]
  BY DEF Set
<1>3. /\ f \in [Tables -> Ifaces \cup {None, "tun"}]
      /\ f[t] = v /\ \A u \in Tables \ {t} : f[u] = n.table[u]
  BY <1>1
<1> HIDE DEF f
<1> QED BY Zenon, <1>2, <1>3 DEF Nets, OnlyTable

(* Replacing the IPv4 rules leaves every other field as it was.              *)
LEMMA RulesFields ==
  ASSUME NEW n \in Nets, NEW R \in SUBSET Rules4, NEW m, m = [n EXCEPT !.rules4 = R]
  PROVE  /\ m \in Nets /\ m.rules4 = R /\ OnlyRules(m, n)
  BY DEF Nets, OnlyRules

(* Replacing the IPv6 rules leaves every other field as it was.              *)
LEMMA Rules6Fields ==
  ASSUME NEW n \in Nets, NEW R \in SUBSET Rules6, NEW m, m = [n EXCEPT !.rules6 = R]
  PROVE  /\ m \in Nets /\ m.rules6 = R /\ OnlyRules6(m, n)
  BY DEF Nets, OnlyRules6

(* What a command of route_up lays, and what it leaves.                     *)
UpChange(c, n, m) ==
  /\ m \in Nets /\ m.nat = n.nat
  /\ m.tun <=> n.tun \/ c.do = "ensure_tun"
  /\ m.low <=> n.low \/ c.do = "low"
  /\ m.high <=> n.high \/ c.do = "high"
  /\ m.hole <=> n.hole \/ c.do = "hole"
  /\ m.pins = IF c.do = "pin" THEN n.pins \cup {c.at} ELSE n.pins
  /\ m.pinFile = IF c.do = "save_pins" THEN list ELSE n.pinFile
  /\ m.table["101"] = IF c.do = "dns_table" THEN "tun" ELSE n.table["101"]
  /\ m.table["100"] = IF c.do = "phys" THEN uplink ELSE n.table["100"]
  /\ m.table["102"] = n.table["102"]
  /\ <<"dns", "101">> \in m.rules4 <=> <<"dns", "101">> \in n.rules4 \/ c.do = "dns_rule"
  /\ <<"dial", "100">> \in m.rules4 <=> <<"dial", "100">> \in n.rules4 \/ c.do = "dial_rule"
  /\ <<"bypass", "100">> \in m.rules4 <=> <<"bypass", "100">> \in n.rules4 \/ c.do = "bypass_rule"
  /\ m.rp = IF c.do = "rp" THEN "loose" ELSE n.rp
  /\ m.rpFile = IF c.do = "rp" THEN n.rp ELSE n.rpFile

(* Each command of route_up changes what UpChange says and nothing else.     *)
LEMMA UpFields ==
  ASSUME NEW n \in Nets, NEW c \in Commands, c.do \in UpNames,
         uplink \in Ifaces, list \subseteq Servers,
         NEW m, m = UpEffect(c, n)
  PROVE  UpChange(c, n, m)
<1>0. c.do = "pin" => c.at \in Servers
  BY DEF Commands, Cmd, Pin, Plain, UpNames, RecoverNames, DownNames, RemoveNames, InstallNames
<1>1. CASE c.do = "ensure_tun"
  <2>1. m = [n EXCEPT !.tun = TRUE]
    BY <1>1 DEF UpEffect
  <2> QED BY Zenon, <1>1, <2>1 DEF Nets, UpChange
<1>2. CASE c.do = "dns_table"
  <2>1. m = Set(n, "101", "tun")
    BY <1>2 DEF UpEffect
  <2>0. "101" \in Tables
    BY DEF Tables
  <2>2. /\ m \in Nets /\ OnlyTable(m, n)
        /\ m.table["101"] = "tun" /\ \A u \in Tables \ {"101"} : m.table[u] = n.table[u]
    BY <2>0, <2>1, SetFields
  <2> QED BY <1>2, <2>2 DEF Tables, OnlyTable, UpChange
<1>3. CASE c.do = "dns_rule"
  <2> DEFINE R == n.rules4 \cup {<<"dns", "101">>}
  <2>1. m = [n EXCEPT !.rules4 = R]
    BY <1>3 DEF UpEffect, AddRule
  <2>2. R \in SUBSET Rules4
    BY DEF Nets, Rules4
  <2> HIDE DEF R
  <2>3. /\ m \in Nets /\ m.rules4 = R /\ OnlyRules(m, n)
    BY Zenon, <2>1, <2>2, RulesFields
  <2> QED BY <1>3, <2>3 DEF R, OnlyRules, UpChange
<1>4. CASE c.do = "rp"
  <2>1. m = [n EXCEPT !.rpFile = n.rp, !.rp = "loose"]
    BY <1>4 DEF UpEffect
  <2> QED BY Zenon, <1>4, <2>1 DEF Nets, UpChange
<1>5. CASE c.do = "phys"
  <2>1. m = Set(n, "100", uplink)
    BY <1>5 DEF UpEffect
  <2>0. "100" \in Tables
    BY DEF Tables
  <2>2. /\ m \in Nets /\ OnlyTable(m, n)
        /\ m.table["100"] = uplink /\ \A u \in Tables \ {"100"} : m.table[u] = n.table[u]
    BY <2>0, <2>1, SetFields
  <2> QED BY <1>5, <2>2 DEF Tables, OnlyTable, UpChange
<1>6. CASE c.do = "dial_rule"
  <2> DEFINE R == n.rules4 \cup {<<"dial", "100">>}
  <2>1. m = [n EXCEPT !.rules4 = R]
    BY <1>6 DEF UpEffect, AddRule
  <2>2. R \in SUBSET Rules4
    BY DEF Nets, Rules4
  <2> HIDE DEF R
  <2>3. /\ m \in Nets /\ m.rules4 = R /\ OnlyRules(m, n)
    BY Zenon, <2>1, <2>2, RulesFields
  <2> QED BY <1>6, <2>3 DEF R, OnlyRules, UpChange
<1>7. CASE c.do = "bypass_rule"
  <2> DEFINE R == n.rules4 \cup {<<"bypass", "100">>}
  <2>1. m = [n EXCEPT !.rules4 = R]
    BY <1>7 DEF UpEffect, AddRule
  <2>2. R \in SUBSET Rules4
    BY DEF Nets, Rules4
  <2> HIDE DEF R
  <2>3. /\ m \in Nets /\ m.rules4 = R /\ OnlyRules(m, n)
    BY Zenon, <2>1, <2>2, RulesFields
  <2> QED BY <1>7, <2>3 DEF R, OnlyRules, UpChange
<1>8. CASE c.do = "phys6"
  <2>1. m = Set(n, "100v6", uplink)
    BY <1>8 DEF UpEffect
  <2>0. "100v6" \in Tables
    BY DEF Tables
  <2>2. /\ m \in Nets /\ OnlyTable(m, n)
        /\ m.table["100v6"] = uplink /\ \A u \in Tables \ {"100v6"} : m.table[u] = n.table[u]
    BY <2>0, <2>1, SetFields
  <2> QED BY <1>8, <2>2 DEF Tables, OnlyTable, UpChange
<1>9. CASE c.do = "dial_rule6"
  <2> DEFINE R == n.rules6 \cup {<<"dial", "100v6">>}
  <2>1. m = [n EXCEPT !.rules6 = R]
    BY <1>9 DEF UpEffect
  <2>2. R \in SUBSET Rules6
    BY DEF Nets, Rules6
  <2> HIDE DEF R
  <2>3. /\ m \in Nets /\ m.rules6 = R /\ OnlyRules6(m, n)
    BY Zenon, <2>1, <2>2, Rules6Fields
  <2> QED BY <1>9, <2>3 DEF R, OnlyRules6, UpChange
<1>10. CASE c.do = "bypass_rule6"
  <2> DEFINE R == n.rules6 \cup {<<"bypass", "100v6">>}
  <2>1. m = [n EXCEPT !.rules6 = R]
    BY <1>10 DEF UpEffect
  <2>2. R \in SUBSET Rules6
    BY DEF Nets, Rules6
  <2> HIDE DEF R
  <2>3. /\ m \in Nets /\ m.rules6 = R /\ OnlyRules6(m, n)
    BY Zenon, <2>1, <2>2, Rules6Fields
  <2> QED BY <1>10, <2>3 DEF R, OnlyRules6, UpChange
<1>11. CASE c.do = "pin"
  <2>1. m = [n EXCEPT !.pins = @ \cup {c.at}]
    BY <1>11 DEF UpEffect
  <2> QED BY <1>0, <1>11, <2>1 DEF Nets, UpChange
<1>12. CASE c.do = "save_pins"
  <2>1. m = [n EXCEPT !.pinFile = list]
    BY <1>12 DEF UpEffect
  <2> QED BY <1>12, <2>1 DEF Nets, UpChange
<1>13. CASE c.do = "low"
  <2>1. m = [n EXCEPT !.low = TRUE]
    BY <1>13 DEF UpEffect
  <2> QED BY Zenon, <1>13, <2>1 DEF Nets, UpChange
<1>14. CASE c.do = "high"
  <2>1. m = [n EXCEPT !.high = TRUE]
    BY <1>14 DEF UpEffect
  <2> QED BY Zenon, <1>14, <2>1 DEF Nets, UpChange
<1>15. CASE c.do = "hole"
  <2>1. m = [n EXCEPT !.hole = TRUE]
    BY <1>15 DEF UpEffect
  <2> QED BY Zenon, <1>15, <2>1 DEF Nets, UpChange
<1> QED BY <1>1, <1>2, <1>3, <1>4, <1>5, <1>6, <1>7, <1>8, <1>9, <1>10, <1>11, <1>12, <1>13, <1>14, <1>15 DEF UpNames

(* What a command of route_down removes, and what it leaves.                *)
DownChange(c, n, m) ==
  /\ m \in Nets /\ m.nat = n.nat
  /\ m.tun <=> n.tun /\ c.do # "del_tun"
  /\ m.low <=> n.low /\ c.do # "del_low" /\ c.do # "del_tun"
  /\ m.high <=> n.high /\ c.do # "del_high" /\ c.do # "del_tun"
  /\ m.hole <=> n.hole /\ c.do # "del_hole"
  /\ m.pins = IF c.do = "del_pins" THEN n.pins \ n.pinFile ELSE n.pins
  /\ m.pinFile = IF c.do = "del_pins" THEN {} ELSE n.pinFile
  /\ m.table["101"] = n.table["101"] \/ m.table["101"] = None
  /\ c.do = "flush_101" => m.table["101"] = None
  /\ m.table["100v6"] = n.table["100v6"] \/ m.table["100v6"] = None
  /\ c.do = "flush_100v6" => m.table["100v6"] = None
  /\ m.table["100"] = IF c.do = "flush_100" THEN None ELSE n.table["100"]
  /\ m.table["102"] = n.table["102"]
  /\ <<"dns", "101">> \in m.rules4 <=> <<"dns", "101">> \in n.rules4 /\ c.do # "del_dns_rule"
  /\ <<"dial", "100">> \in m.rules4 <=> <<"dial", "100">> \in n.rules4 /\ c.do # "del_dial"
  /\ <<"bypass", "100">> \in m.rules4 <=> <<"bypass", "100">> \in n.rules4 /\ c.do # "del_bypass"
  /\ <<"bypass", "102">> \in m.rules4 <=> <<"bypass", "102">> \in n.rules4 /\ c.do # "del_bypass"
  /\ <<"dial", "100v6">> \in m.rules6 <=> <<"dial", "100v6">> \in n.rules6 /\ c.do # "del_dial6"
  /\ <<"bypass", "100v6">> \in m.rules6 <=> <<"bypass", "100v6">> \in n.rules6 /\ c.do # "del_bypass6"
  /\ m.rp = IF c.do = "restore_rp" /\ n.rpFile # None THEN n.rpFile ELSE n.rp
  /\ m.rpFile = IF c.do = "restore_rp" THEN None ELSE n.rpFile

(* Each command of route_down changes what DownChange says and nothing else. *)
LEMMA DownFields ==
  ASSUME NEW n \in Nets, NEW c, c.do \in DownNames \cup {"del_tun"},
         n.table["100"] # "tun", n.table["102"] # "tun",
         NEW m, m = DownEffect(c, n)
  PROVE  DownChange(c, n, m)
<1>0. None \in Ifaces \cup {None, "tun"}
  OBVIOUS
<1>1. CASE c.do = "del_low"
  <2>1. m = [n EXCEPT !.low = FALSE]
    BY <1>1 DEF DownEffect
  <2> QED BY Zenon, <1>1, <2>1 DEF Nets, DownChange
<1>2. CASE c.do = "del_high"
  <2>1. m = [n EXCEPT !.high = FALSE]
    BY <1>2 DEF DownEffect
  <2> QED BY Zenon, <1>2, <2>1 DEF Nets, DownChange
<1>3. CASE c.do = "del_dns_rule"
  <2> DEFINE R == n.rules4 \ {<<"dns", "101">>}
  <2>1. m = [n EXCEPT !.rules4 = R]
    BY <1>3 DEF DownEffect
  <2>2. R \in SUBSET Rules4
    BY DEF Nets, Rules4
  <2> HIDE DEF R
  <2>3. /\ m \in Nets /\ m.rules4 = R /\ OnlyRules(m, n)
    BY <2>1, <2>2, RulesFields
  <2> QED BY <1>3, <2>3 DEF R, OnlyRules, DownChange
<1>4. CASE c.do = "flush_101"
  <2>1. m = Set(n, "101", None)
    BY <1>4 DEF DownEffect
  <2>2. "101" \in Tables
    BY DEF Tables
  <2>3. /\ m \in Nets /\ OnlyTable(m, n)
        /\ m.table["101"] = None /\ \A u \in Tables \ {"101"} : m.table[u] = n.table[u]
    BY <2>1, <2>2, SetFields
  <2> QED BY <1>4, <2>3 DEF Tables, OnlyTable, DownChange
<1>5. CASE c.do = "del_hole"
  <2>1. m = [n EXCEPT !.hole = FALSE]
    BY <1>5 DEF DownEffect
  <2> QED BY Zenon, <1>5, <2>1 DEF Nets, DownChange
<1>6. CASE c.do = "del_dial"
  <2> DEFINE R == DropMark(n.rules4, "dial")
  <2>1. m = [n EXCEPT !.rules4 = R]
    BY <1>6 DEF DownEffect
  <2>2. R \in SUBSET Rules4
    BY DEF Nets, Rules4, DropMark
  <2> HIDE DEF R
  <2>3. /\ m \in Nets /\ m.rules4 = R /\ OnlyRules(m, n)
    BY <2>1, <2>2, RulesFields
  <2> QED BY <1>6, <2>3 DEF R, OnlyRules, DropMark, DownChange
<1>7. CASE c.do = "del_dial6"
  <2> DEFINE R == DropMark(n.rules6, "dial")
  <2>1. m = [n EXCEPT !.rules6 = R]
    BY <1>7 DEF DownEffect
  <2>2. R \in SUBSET Rules6
    BY DEF Nets, Rules6, DropMark
  <2> HIDE DEF R
  <2>3. /\ m \in Nets /\ m.rules6 = R /\ OnlyRules6(m, n)
    BY <2>1, <2>2, Rules6Fields
  <2> QED BY <1>7, <2>3 DEF R, OnlyRules6, DropMark, DownChange
<1>8. CASE c.do = "del_bypass"
  <2> DEFINE R == DropMark(n.rules4, "bypass")
  <2>1. m = [n EXCEPT !.rules4 = R]
    BY <1>8 DEF DownEffect
  <2>2. R \in SUBSET Rules4
    BY DEF Nets, Rules4, DropMark
  <2> HIDE DEF R
  <2>3. /\ m \in Nets /\ m.rules4 = R /\ OnlyRules(m, n)
    BY <2>1, <2>2, RulesFields
  <2> QED BY <1>8, <2>3 DEF R, OnlyRules, DropMark, DownChange
<1>9. CASE c.do = "del_bypass6"
  <2> DEFINE R == DropMark(n.rules6, "bypass")
  <2>1. m = [n EXCEPT !.rules6 = R]
    BY <1>9 DEF DownEffect
  <2>2. R \in SUBSET Rules6
    BY DEF Nets, Rules6, DropMark
  <2> HIDE DEF R
  <2>3. /\ m \in Nets /\ m.rules6 = R /\ OnlyRules6(m, n)
    BY <2>1, <2>2, Rules6Fields
  <2> QED BY <1>9, <2>3 DEF R, OnlyRules6, DropMark, DownChange
<1>10. CASE c.do = "flush_100"
  <2>1. m = Set(n, "100", None)
    BY <1>10 DEF DownEffect
  <2>2. "100" \in Tables
    BY DEF Tables
  <2>3. /\ m \in Nets /\ OnlyTable(m, n)
        /\ m.table["100"] = None /\ \A u \in Tables \ {"100"} : m.table[u] = n.table[u]
    BY <2>1, <2>2, SetFields
  <2> QED BY <1>10, <2>3 DEF Tables, OnlyTable, DownChange
<1>11. CASE c.do = "flush_100v6"
  <2>1. m = Set(n, "100v6", None)
    BY <1>11 DEF DownEffect
  <2>2. "100v6" \in Tables
    BY DEF Tables
  <2>3. /\ m \in Nets /\ OnlyTable(m, n)
        /\ m.table["100v6"] = None /\ \A u \in Tables \ {"100v6"} : m.table[u] = n.table[u]
    BY <2>1, <2>2, SetFields
  <2> QED BY <1>11, <2>3 DEF Tables, OnlyTable, DownChange
<1>12. CASE c.do = "del_pins"
  <2>1. m = [n EXCEPT !.pins = n.pins \ n.pinFile, !.pinFile = {}]
    BY <1>12 DEF DownEffect
  <2> DEFINE P == n.pins \ n.pinFile
  <2>2. P \in SUBSET Servers
    BY DEF Nets
  <2> HIDE DEF P
  <2>3. m = [n EXCEPT !.pins = P, !.pinFile = {}]
    BY <2>1 DEF P
  <2>4. m \in Nets /\ m.pins = n.pins \ n.pinFile
    <3>1. m \in Nets /\ m.pins = P
      BY Zenon, <2>2, <2>3 DEF Nets
    <3> QED BY <3>1 DEF P
  <2> QED BY <1>12, <2>3, <2>4 DEF Nets, DownChange
<1>13. CASE c.do = "restore_rp"
  <2>1. m = [n EXCEPT !.rp = IF n.rpFile = None THEN n.rp ELSE n.rpFile, !.rpFile = None]
    BY <1>13 DEF DownEffect, RestoreRp
  <2> QED BY Zenon, <1>13, <2>1 DEF Nets, DownChange
<1>14. CASE c.do = "del_tun"
  <2> DEFINE f == [t \in Tables |-> IF n.table[t] = "tun" THEN None ELSE n.table[t]]
  <2>1. m = [n EXCEPT !.tun = FALSE, !.low = FALSE, !.high = FALSE, !.table = f]
    BY <1>14 DEF DownEffect, WithoutTun
  <2>2. /\ f \in [Tables -> Ifaces \cup {None, "tun"}]
        /\ f["101"] \in {None, n.table["101"]} /\ f["100v6"] \in {None, n.table["100v6"]}
        /\ f["100"] = n.table["100"] /\ f["102"] = n.table["102"]
    BY DEF Nets, Tables
  <2> HIDE DEF f
  <2> QED BY Zenon, <1>14, <2>1, <2>2 DEF Nets, DownChange
<1> QED BY <1>1, <1>2, <1>3, <1>4, <1>5, <1>6, <1>7, <1>8, <1>9, <1>10, <1>11, <1>12, <1>13, <1>14 DEF DownNames

(* What the split's commands leave.                                         *)
SplitChange(c, n, m) ==
  /\ m \in Nets
  /\ m.tun = n.tun /\ m.low = n.low /\ m.high = n.high /\ m.hole = n.hole
  /\ m.pins = n.pins /\ m.pinFile = n.pinFile /\ m.rules6 = n.rules6
  /\ m.rp = n.rp /\ m.rpFile = n.rpFile
  /\ m.table["101"] = n.table["101"] /\ m.table["100"] = n.table["100"]
  /\ m.table["100v6"] = n.table["100v6"] /\ m.table["102"] # "tun"
  /\ <<"dns", "101">> \in m.rules4 <=> <<"dns", "101">> \in n.rules4
  /\ <<"dial", "100">> \in m.rules4 <=> <<"dial", "100">> \in n.rules4
  /\ <<"bypass", "100">> \in m.rules4 <=> <<"bypass", "100">> \in n.rules4
  /\ c.do # "split_rule" /\ <<"bypass", "102">> \in m.rules4 =>
       <<"bypass", "102">> \in n.rules4 /\ c.do # "del_split_rule"
  /\ c.do # "split_nft" /\ m.nat # <<>> => n.nat # <<>> /\ c.do # "del_split_nft"

(* Each command of the split routing changes what SplitChange says.          *)
LEMMA SplitFields ==
  ASSUME NEW n \in Nets, NEW c, c.do \in InstallNames \cup RemoveNames,
         uplink \in Ifaces, n.table["102"] # "tun",
         NEW m, m = SplitEffect(c, n)
  PROVE  SplitChange(c, n, m)
<1>1. CASE c.do = "split_table"
  <2>1. m = Set(n, "102", uplink)
    BY <1>1 DEF SplitEffect
  <2>2. "102" \in Tables
    BY DEF Tables
  <2>3. /\ m \in Nets /\ OnlyTable(m, n)
        /\ m.table["102"] = uplink /\ \A u \in Tables \ {"102"} : m.table[u] = n.table[u]
    BY <2>1, <2>2, SetFields
  <2> QED BY <1>1, <2>3 DEF Tables, OnlyTable, SplitChange
<1>2. CASE c.do = "split_rule"
  <2> DEFINE R == n.rules4 \cup {<<"bypass", "102">>}
  <2>1. m = [n EXCEPT !.rules4 = R]
    BY <1>2 DEF SplitEffect, AddRule
  <2>2. R \in SUBSET Rules4
    BY DEF Nets, Rules4
  <2> HIDE DEF R
  <2>3. /\ m \in Nets /\ m.rules4 = R /\ OnlyRules(m, n)
    BY <2>1, <2>2, RulesFields
  <2> QED BY <1>2, <2>3 DEF R, OnlyRules, SplitChange
<1>3. CASE c.do = "split_nft"
  <2>1. m = [n EXCEPT !.nat = Append(n.nat, uplink)]
    BY <1>3 DEF SplitEffect
  <2> DEFINE q == Append(n.nat, uplink)
  <2>2. q \in Seq(Ifaces)
    BY DEF Nets
  <2> HIDE DEF q
  <2>3. m = [n EXCEPT !.nat = q]
    BY <2>1 DEF q
  <2> QED BY Zenon, <1>3, <2>2, <2>3 DEF Nets, SplitChange
<1>4. CASE c.do = "del_split_rule"
  <2> DEFINE R == n.rules4 \ {<<"bypass", "102">>}
  <2>1. m = [n EXCEPT !.rules4 = R]
    BY <1>4 DEF SplitEffect
  <2>2. R \in SUBSET Rules4
    BY DEF Nets, Rules4
  <2> HIDE DEF R
  <2>3. /\ m \in Nets /\ m.rules4 = R /\ OnlyRules(m, n)
    BY <2>1, <2>2, RulesFields
  <2> QED BY <1>4, <2>3 DEF R, OnlyRules, SplitChange
<1>5. CASE c.do = "flush_102"
  <2>1. m = Set(n, "102", None)
    BY <1>5 DEF SplitEffect
  <2>2. "102" \in Tables
    BY DEF Tables
  <2>3. /\ m \in Nets /\ OnlyTable(m, n)
        /\ m.table["102"] = None /\ \A u \in Tables \ {"102"} : m.table[u] = n.table[u]
    BY <2>1, <2>2, SetFields
  <2> QED BY <1>5, <2>3 DEF Tables, OnlyTable, None, SplitChange
<1>6. CASE c.do = "del_split_nft"
  <2>1. m = [n EXCEPT !.nat = <<>>]
    BY <1>6 DEF SplitEffect
  <2> DEFINE q == <<>>
  <2>2. q \in Seq(Ifaces)
    OBVIOUS
  <2> HIDE DEF q
  <2>3. m = [n EXCEPT !.nat = q] /\ m.nat = q
    BY <2>1, <2>2 DEF q, Nets
  <2>4. m.nat = <<>>
    BY <2>3 DEF q
  <2> QED BY Zenon, <1>6, <2>2, <2>3, <2>4 DEF Nets, SplitChange
<1> QED BY <1>1, <1>2, <1>3, <1>4, <1>5, <1>6 DEF InstallNames, RemoveNames

(***************************************************************************)
(* The steps                                                               *)
(***************************************************************************)
(* Taking a command off the list, and where the others stand to it.         *)
LEMMA TodoStep ==
  ASSUME TypeOK, todo # <<>>, todo' = Tail(todo), NEW c, c = Head(todo)
  PROVE  /\ c \in Commands /\ c \in Range(todo) /\ c.do \in Left
         /\ todo' \in Seq(Commands) /\ Range(todo') \subseteq Range(todo) /\ Left' \subseteq Left
         /\ \A x \in Left : x # c.do => x \in Left'
         /\ \A s : Pin(s) \in Range(todo) => Pin(s) \in Range(todo') \/ c = Pin(s)
         /\ todo' = <<>> => Left' = {}
         /\ Sorted(todo) => /\ Sorted(todo')
                            /\ \A x \in Left' : Rank(c.do) < Rank(x) \/ (c.do = "pin" /\ x = "pin")
<1>1. /\ c \in Commands /\ Tail(todo) \in Seq(Commands)
      /\ c \in Range(todo) /\ Range(todo) = Range(todo') \cup {c}
      /\ Sorted(todo) => Sorted(todo') /\ \A d \in Range(todo') : Precedes(c, d)
  BY TakeFirst DEF TypeOK
<1>2. Left' = {d.do : d \in Range(todo')}
  BY DEF Left
<1>3. c.do \in Left /\ Left' \subseteq Left
  BY <1>1, <1>2 DEF Left
<1>4. \A x \in Left : x # c.do => x \in Left'
  BY <1>1, <1>2 DEF Left
<1>5. todo' = <<>> => Left' = {}
  BY <1>2 DEF Range
<1>6. Sorted(todo) => \A x \in Left' : Rank(c.do) < Rank(x) \/ (c.do = "pin" /\ x = "pin")
  BY <1>1, <1>2 DEF Precedes
<1> QED BY <1>1, <1>3, <1>4, <1>5, <1>6

(* A command of route_up.                                                   *)
LEMMA UpCommand ==
  ASSUME IInv, Command, op = "up"
  PROVE  IInv'
<1> DEFINE c == Head(todo)
           n == net
<1>1. /\ todo # <<>> /\ todo' = Tail(todo) /\ net' = Effect(c, net)
      /\ uplink' = uplink /\ list' = list /\ astray' = astray
  BY DEF Command
<1>2. \/ todo' = <<>> /\ op' = "idle" /\ routesUp' = TRUE /\ split' = split
      \/ todo' # <<>> /\ op' = "up" /\ routesUp' = routesUp /\ split' = split
  BY Zenon DEF Command, Finished
<1>3. TypeOK /\ Sorted(todo) /\ Left \subseteq UpNames /\ ~routesUp
      /\ \A s \in Servers : Pin(s) \in Range(todo) => s \in list
  BY DEF IInv, Shape
<1>4. /\ c \in Commands /\ c \in Range(todo) /\ c.do \in Left
      /\ todo' \in Seq(Commands) /\ Range(todo') \subseteq Range(todo) /\ Left' \subseteq Left
      /\ \A x \in Left : x # c.do => x \in Left'
      /\ \A s : Pin(s) \in Range(todo) => Pin(s) \in Range(todo') \/ c = Pin(s)
      /\ todo' = <<>> => Left' = {}
      /\ Sorted(todo')
      /\ \A x \in Left' : Rank(c.do) < Rank(x) \/ (c.do = "pin" /\ x = "pin")
  BY <1>1, <1>3, TodoStep
<1>5. c.do \in UpNames /\ Left' \subseteq UpNames
  BY <1>3, <1>4
<1>6. net \in Nets /\ uplink \in Ifaces /\ list \subseteq Servers
  BY <1>3 DEF TypeOK
<1>7. net' = UpEffect(c, net)
  BY <1>1, <1>5 DEF Effect
<1>8. \A s \in Servers : c = Pin(s) => c.do = "pin" /\ c.at = s
  BY DEF Pin
<1>9. c.do = "pin" => c.at \in list
  <2> SUFFICES ASSUME c.do = "pin" PROVE c.at \in list
    OBVIOUS
  <2>1. PICK s \in Servers : c = Pin(s)
    BY <1>4 DEF Commands, Cmd, Plain, UpNames, RecoverNames, DownNames, RemoveNames, InstallNames
  <2> QED BY <1>3, <1>4, <1>8, <2>1
<1> HIDE DEF c
<1>10. UpChange(c, net, net')
  BY SMTT(40), <1>4, <1>5, <1>6, <1>7, UpFields
<1> USE DEF UpChange
<1>11. TypeOK'
  <2>1. net'.table["100"] # "tun" /\ net'.table["102"] # "tun"
    BY <1>3, <1>10 DEF TypeOK
  <2> QED BY Zenon, <1>1, <1>2, <1>3, <1>4, <1>10, <2>1 DEF TypeOK, Quiet
(* What a command was to lay is laid, once it is not on the list.           *)
<1>12. /\ net'.tun \/ "ensure_tun" \in Left'
       /\ net'.table["101"] = "tun" \/ "dns_table" \in Left'
       /\ <<"dns", "101">> \in net'.rules4 \/ "dns_rule" \in Left'
       /\ net'.table["100"] # None \/ "phys" \in Left'
       /\ <<"dial", "100">> \in net'.rules4 \/ "dial_rule" \in Left'
       /\ <<"bypass", "100">> \in net'.rules4 \/ "bypass_rule" \in Left'
       /\ net'.low \/ "low" \in Left'
       /\ net'.high \/ "high" \in Left'
       /\ net'.hole \/ "hole" \in Left'
  BY <1>4, <1>6, <1>10 DEF IInv, Up, None
<1>13. \A s \in list : s \in net'.pins \/ Pin(s) \in Range(todo')
  BY <1>4, <1>6, <1>8, <1>10 DEF IInv, Up
<1>14. net'.low \/ net'.high => Left' \subseteq {"low", "high", "hole"}
  <2>1. CASE net.low \/ net.high
    BY SMTT(40), <1>4, <2>1 DEF IInv, Up
  <2>2. CASE c.do = "low" \/ c.do = "high"
    <3>1. \A x \in Left' : Rank(c.do) < Rank(x) /\ Rank(c.do) >= 13
      BY <1>4, <2>2 DEF Rank
    <3>2. \A x \in UpNames : Rank(x) > 13 => x \in {"high", "hole"}
      BY DEF Rank, UpNames
    <3> QED BY SMTT(40), <1>5, <2>2, <3>1, <3>2 DEF Rank
  <2> QED BY <1>10, <2>1, <2>2
<1>15. Up'
  BY <1>1, <1>12, <1>13, <1>14 DEF Up
<1>16. Tunnelled'
  BY <1>12, <1>14 DEF Tunnelled
<1>17. Pinned'
  <2>1. "pin" \notin Left' => \A s \in list : Pin(s) \notin Range(todo')
    BY DEF Left, Pin
  <2>2. net'.low \/ net'.high => list \subseteq net'.pins
    BY <1>13, <1>14, <2>1
  <2> QED BY <1>1, <2>2 DEF Pinned
<1>18. Shape'
  <2>1. \A s \in Servers : Pin(s) \in Range(todo') => s \in list'
    BY <1>1, <1>3, <1>4
  <2> QED BY <1>2, <1>3, <1>4, <1>5, <2>1 DEF Shape, Down, Dead
<1>19. Off' /\ Going' /\ Recovering'
  BY <1>2 DEF Off, Going, Recovering, Down
<1>20. (op \in Quiet /\ routesUp => Laid)'
  BY Zenon, <1>2, <1>4, <1>12 DEF Laid, Quiet
<1>21. Recorded'
  <2> SUFFICES ASSUME ~astray PROVE Recorded'
    BY <1>1 DEF Recorded
  <2>1. /\ net.rpFile # "loose" /\ (net.rpFile = None => net.rp = "strict")
        /\ "rp" \in Left => net.rp = "strict"
        /\ net.pins \subseteq list
        /\ net.pins = {} \/ Left \subseteq Late
        /\ net.pins \subseteq net.pinFile \/ "save_pins" \in Left
        /\ "pin" \in Left => "save_pins" \in Left
    BY DEF IInv, Recorded
  <2>2. net'.rpFile # "loose" /\ (net'.rpFile = None => net'.rp = "strict")
    BY SMTT(40), <1>4, <1>10, <2>1 DEF None
  <2>3. "rp" \in Left' => net'.rp = "strict"
    BY <1>4, <1>10, <2>1 DEF Rank
  <2>4. net'.pins \subseteq list
    BY <1>9, <1>10, <2>1
  <2>5. net'.pins = {} \/ Left' \subseteq Late
    <3>1. CASE c.do = "pin"
      <4>1. \A x \in Left' : Rank(x) >= 11
        BY <1>4, <1>5, <3>1 DEF Rank, UpNames
      <4>2. \A x \in UpNames : Rank(x) >= 11 => x \in Late
        BY DEF Rank, UpNames, Late
      <4> QED BY <1>5, <4>1, <4>2
    <3>2. CASE c.do # "pin"
      BY <1>4, <1>10, <2>1, <3>2
    <3> QED BY <3>1, <3>2
  <2>6. "pin" \in Left' => "save_pins" \in Left'
    BY <1>4, <2>1 DEF Rank
  <2>7. net'.pins \subseteq net'.pinFile \/ "save_pins" \in Left'
    <3>1. CASE c.do = "save_pins"
      BY <1>10, <2>1, <3>1
    <3>2. CASE c.do # "save_pins"
      BY <1>4, <1>10, <2>1, <3>2
    <3> QED BY <3>1, <3>2
  <2>8. todo' = <<>> => net'.pins \subseteq net'.pinFile
    BY <1>4, <2>7
  <2> QED BY <1>1, <1>2, <2>2, <2>3, <2>4, <2>5, <2>6, <2>7, <2>8 DEF Recorded, Down, Quiet
<1> QED BY <1>11, <1>15, <1>16, <1>17, <1>18, <1>19, <1>20, <1>21 DEF IInv

(* A command of route_down, or of the route_down that undoes a route_up.     *)
LEMMA DownCommand ==
  ASSUME IInv, Command, op \in Down
  PROVE  IInv'
<1> DEFINE c == Head(todo)
<1>1. /\ todo # <<>> /\ todo' = Tail(todo) /\ net' = Effect(c, net)
      /\ uplink' = uplink /\ list' = list /\ astray' = astray
  BY DEF Command
<1>2. \/ todo' = <<>> /\ op' = "idle" /\ routesUp' = FALSE /\ split' = split
      \/ todo' # <<>> /\ op' = op /\ routesUp' = routesUp /\ split' = split
  BY Zenon DEF Command, Finished, Down
<1>3. TypeOK /\ Sorted(todo) /\ Left \subseteq DownNames
  BY DEF IInv, Shape
<1>4. /\ c.do \in Left
      /\ todo' \in Seq(Commands) /\ Left' \subseteq Left
      /\ \A x \in Left : x # c.do => x \in Left'
      /\ todo' = <<>> => Left' = {}
      /\ Sorted(todo')
      /\ \A x \in Left' : Rank(c.do) < Rank(x) \/ (c.do = "pin" /\ x = "pin")
  BY <1>1, <1>3, TodoStep
<1>5. c.do \in DownNames /\ Left' \subseteq DownNames
  BY <1>3, <1>4
<1>6. net \in Nets /\ net.table["100"] # "tun" /\ net.table["102"] # "tun"
  BY <1>3 DEF TypeOK
<1>7. net' = DownEffect(c, net)
  <2>1. c.do \notin UpNames /\ c.do \in Range(DownSeq)
    BY <1>5, DownNamesSeq DEF DownNames, UpNames
  <2> QED BY <1>1, <2>1 DEF Effect
<1> HIDE DEF c
<1>8. DownChange(c, net, net')
  BY <1>5, <1>6, <1>7, DownFields
<1>9. TypeOK'
  <2>1. net' \in Nets /\ net'.table["100"] # "tun" /\ net'.table["102"] # "tun"
    BY <1>6, <1>8 DEF DownChange, None
  <2> QED BY Zenon, <1>1, <1>2, <1>3, <1>4, <2>1 DEF TypeOK, Quiet
(* What a command was to remove is gone, once it is not on the list.        *)
<1>10. /\ net'.low => "del_low" \in Left'
       /\ net'.high => "del_high" \in Left'
       /\ net'.hole => "del_hole" \in Left'
       /\ <<"dns", "101">> \in net'.rules4 => "del_dns_rule" \in Left'
       /\ <<"dial", "100">> \in net'.rules4 => "del_dial" \in Left'
       /\ <<"bypass", "100">> \in net'.rules4 => "del_bypass" \in Left'
       /\ <<"bypass", "102">> \in net'.rules4 => "del_bypass" \in Left'
       /\ <<"dial", "100v6">> \in net'.rules6 => "del_dial6" \in Left'
       /\ <<"bypass", "100v6">> \in net'.rules6 => "del_bypass6" \in Left'
       /\ net'.table["101"] # None => "flush_101" \in Left'
       /\ net'.table["100"] # None => "flush_100" \in Left'
       /\ net'.table["100v6"] # None => "flush_100v6" \in Left'
  BY <1>4, <1>8 DEF IInv, Going, DownChange
(* The halves go first, so while one stands nothing else is touched.        *)
<1>11. net'.low \/ net'.high => c.do = "del_low"
  <2>1. \A x \in DownNames : Rank(x) < 22 => x = "del_low"
    BY SMTT(40) DEF DownNames, Rank
  <2>2. "del_low" \in Left' \/ "del_high" \in Left' => Rank(c.do) < 22
    BY SMTT(40), <1>4, <1>5 DEF Rank, DownNames
  <2> QED BY <1>5, <1>10, <2>1, <2>2
<1>12. Tunnelled'
  BY SMTT(40), <1>8, <1>11 DEF IInv, Tunnelled, DownChange
<1>13. Pinned'
  BY <1>1, <1>8, <1>11 DEF IInv, Pinned, DownChange, Down, Dead
<1>14. ASSUME ~astray
       PROVE  /\ net'.pins # {} => "del_pins" \in Left'
              /\ net'.rp # "strict" => "restore_rp" \in Left'
              /\ net'.rpFile # "loose" /\ (net'.rpFile = None => net'.rp = "strict")
              /\ net'.pins \subseteq net'.pinFile
  <2>1. /\ net.rpFile # "loose" /\ (net.rpFile = None => net.rp = "strict")
        /\ net.pins \subseteq net.pinFile
    BY <1>14 DEF IInv, Recorded, Down
  <2>2. /\ net.pins # {} => "del_pins" \in Left
        /\ net.rp # "strict" => "restore_rp" \in Left
    BY <1>14 DEF IInv, Going
  <2>3. net.rpFile \in {"strict", None} /\ net.rp \in {"strict", "loose"}
    BY <1>6, <2>1 DEF Nets
  <2>4. net'.pins \subseteq net'.pinFile /\ (net'.pins # {} => "del_pins" \in Left')
    <3>1. CASE c.do = "del_pins"
      <4>1. net'.pins = {}
        BY <1>8, <2>1, <3>1 DEF DownChange
      <4> QED BY <4>1
    <3>2. CASE c.do # "del_pins"
      BY <1>4, <1>8, <2>1, <2>2, <3>2 DEF DownChange
    <3> QED BY <3>1, <3>2
  <2>5. /\ net'.rp # "strict" => "restore_rp" \in Left'
        /\ net'.rpFile # "loose" /\ (net'.rpFile = None => net'.rp = "strict")
    <3>1. CASE c.do = "restore_rp"
      BY <1>8, <2>1, <2>3, <3>1 DEF DownChange, None
    <3>2. CASE c.do # "restore_rp"
      BY <1>4, <1>8, <2>1, <2>2, <3>2 DEF DownChange
    <3> QED BY <3>1, <3>2
  <2> QED BY <2>4, <2>5
<1>15. Going'
  BY <1>1, <1>10, <1>14 DEF Going
<1>16. Shape'
  BY <1>2, <1>3, <1>4, <1>5 DEF IInv, Shape, Down, Dead
<1>17. Off' /\ Up' /\ Recovering'
  BY <1>2, <1>4, <1>10 DEF Off, Up, Recovering, Down
<1>18. (op \in Quiet /\ routesUp => Laid)'
  BY <1>2 DEF Down, Quiet
<1>19. Recorded'
  <2> SUFFICES ASSUME ~astray PROVE Recorded'
    BY <1>1 DEF Recorded
  <2>1. todo' = <<>> => Clean(net')
    <3> SUFFICES ASSUME todo' = <<>> PROVE Clean(net')
      OBVIOUS
    <3>1. net' \in Nets /\ Left' = {}
      BY <1>4, <1>9 DEF TypeOK
    <3>2. net'.rules4 \subseteq Rules4 /\ net'.rules6 \subseteq Rules6
      BY <3>1 DEF Nets
    <3>3. net'.rules4 = {}
      BY <1>10, <3>1, <3>2 DEF Rules4
    <3>4. net'.rules6 = {}
      BY <1>10, <3>1, <3>2 DEF Rules6
    <3>5. \A t \in Tables \ {"102"} : net'.table[t] = None
      BY <1>10, <3>1 DEF Tables
    <3> QED BY <1>10, <1>14, <3>1, <3>3, <3>4, <3>5 DEF Clean
  <2> QED BY <1>1, <1>2, <1>14, <2>1 DEF Recorded, Down, Quiet
<1> QED BY <1>9, <1>12, <1>13, <1>15, <1>16, <1>17, <1>18, <1>19 DEF IInv

(* A command of install_routing or of remove_routing.                       *)
LEMMA SplitCommand ==
  ASSUME IInv, Command, op \in {"install", "remove"}
  PROVE  IInv'
<1> DEFINE c == Head(todo)
<1>1. /\ todo # <<>> /\ todo' = Tail(todo) /\ net' = Effect(c, net)
      /\ uplink' = uplink /\ list' = list /\ astray' = astray
  BY DEF Command
<1>2. /\ op' = "idle" \/ op' = op
      /\ routesUp' = routesUp /\ split' \in BOOLEAN
  BY Zenon DEF Command, Finished, IInv, TypeOK
<1>3. /\ TypeOK /\ (op = "install" => Left \subseteq InstallNames /\ routesUp)
      /\ op = "remove" => Left \subseteq RemoveNames
  BY DEF IInv, Shape
<1>4. c.do \in Left /\ todo' \in Seq(Commands) /\ Left' \subseteq Left
  BY <1>1, <1>3, TodoStep
<1>5. net \in Nets /\ uplink \in Ifaces /\ net.table["102"] # "tun"
  BY <1>3 DEF TypeOK
<1>6. c.do \in InstallNames \cup RemoveNames /\ (op = "remove" => c.do # "split_rule")
  BY <1>3, <1>4 DEF RemoveNames
<1>7. net' = SplitEffect(c, net)
  <2>1. c.do \notin UpNames /\ c.do \notin Range(DownSeq) \cup {"del_tun"}
    BY <1>6, DownNamesSeq DEF DownNames, UpNames, InstallNames, RemoveNames
  <2> QED BY <1>1, <2>1 DEF Effect
<1> HIDE DEF c
<1>8. SplitChange(c, net, net')
  BY <1>5, <1>6, <1>7, SplitFields
<1>9. TypeOK'
  BY <1>1, <1>2, <1>3, <1>4, <1>8 DEF TypeOK, SplitChange, Quiet
<1>10. Shape'
  BY <1>2, <1>3, <1>4 DEF IInv, Shape, Down, Dead
<1>11. Tunnelled'
  BY SMTT(40), <1>8 DEF IInv, Tunnelled, SplitChange
<1>12. Pinned'
  BY <1>1, <1>2, <1>8 DEF IInv, Pinned, SplitChange, Dead
<1>13. Up' /\ Going' /\ Recovering'
  BY <1>2 DEF Up, Going, Recovering, Down
<1>14. Off'
  BY <1>2, <1>3, <1>8 DEF IInv, Off, SplitChange
<1>15. (op \in Quiet /\ routesUp => Laid)'
  BY <1>2, <1>8 DEF IInv, Laid, Quiet, SplitChange
<1>16. Recorded'
  <2> SUFFICES ASSUME ~astray PROVE Recorded'
    BY <1>1 DEF Recorded
  <2>1. /\ net'.rpFile # "loose" /\ (net'.rpFile = None => net'.rp = "strict")
    BY <1>8 DEF IInv, Recorded, SplitChange
  <2>2. routesUp => net'.pins \subseteq net'.pinFile
    BY <1>8 DEF IInv, Recorded, SplitChange, Quiet
  <2>3. ~routesUp => Clean(net')
    <3> SUFFICES ASSUME ~routesUp PROVE Clean(net')
      OBVIOUS
    <3>1. op = "remove" /\ Clean(net)
      BY <1>3 DEF IInv, Recorded
    <3>2. net'.rules4 \subseteq Rules4
      BY <1>8 DEF SplitChange, Nets
    <3>3. net'.rules4 = {}
      BY <1>6, <1>8, <3>1, <3>2 DEF SplitChange, Clean, Rules4
    <3>4. \A t \in Tables \ {"102"} : net'.table[t] = None
      BY <1>8, <3>1 DEF SplitChange, Clean, Tables
    <3> QED BY <1>8, <3>1, <3>3, <3>4 DEF SplitChange, Clean
  <2> QED BY <1>1, <1>2, <1>3, <2>1, <2>2, <2>3 DEF Recorded, Down, Quiet
<1> QED BY <1>9, <1>10, <1>11, <1>12, <1>13, <1>14, <1>15, <1>16 DEF IInv

(* A command of recovery: the device went first, and the halves with it.    *)
LEMMA RecoverCommand ==
  ASSUME IInv, Command, op = "recover"
  PROVE  IInv'
<1> DEFINE c == Head(todo)
<1>1. /\ todo # <<>> /\ todo' = Tail(todo) /\ net' = Effect(c, net)
      /\ uplink' = uplink /\ list' = list /\ astray' = astray
      /\ op' = op /\ routesUp' = routesUp /\ split' = split
  BY DEF Command
<1>2. TypeOK /\ Left \subseteq RecoverNames /\ ~routesUp
  BY DEF IInv, Shape, Dead
<1>3. /\ c.do \in Left /\ todo' \in Seq(Commands) /\ Left' \subseteq Left
      /\ \A x \in Left : x # c.do => x \in Left'
  BY <1>1, <1>2, TodoStep
<1>4. net \in Nets /\ uplink \in Ifaces /\ net.table["100"] # "tun" /\ net.table["102"] # "tun"
  BY <1>2 DEF TypeOK
<1>5. net.low \/ net.high => c.do = "del_tun"
  BY DEF IInv, Recovering
<1>6. /\ net.tun => "del_tun" \in Left
      /\ net.hole => "del_hole" \in Left
      /\ <<"dns", "101">> \in net.rules4 => "del_dns_rule" \in Left
      /\ <<"dial", "100">> \in net.rules4 => "del_dial" \in Left
      /\ <<"bypass", "100">> \in net.rules4 => "del_bypass" \in Left
      /\ <<"bypass", "102">> \in net.rules4 => "del_split_rule" \in Left
      /\ net.nat # <<>> => "del_split_nft" \in Left
  BY DEF IInv, Recovering
<1>7. ~astray => net.rpFile # "loose" /\ (net.rpFile = None => net.rp = "strict")
  BY DEF IInv, Recorded
<1>8. c.do \in DownNames \cup {"del_tun"} \/ c.do \in RemoveNames
  BY <1>2, <1>3 DEF RecoverNames
<1>9. /\ net' \in Nets /\ ~net'.low /\ ~net'.high
      /\ net'.table["100"] # "tun" /\ net'.table["102"] # "tun"
      /\ net'.tun => "del_tun" \in Left'
      /\ net'.hole => "del_hole" \in Left'
      /\ <<"dns", "101">> \in net'.rules4 => "del_dns_rule" \in Left'
      /\ <<"dial", "100">> \in net'.rules4 => "del_dial" \in Left'
      /\ <<"bypass", "100">> \in net'.rules4 => "del_bypass" \in Left'
      /\ <<"bypass", "102">> \in net'.rules4 => "del_split_rule" \in Left'
      /\ net'.nat # <<>> => "del_split_nft" \in Left'
      /\ ~astray => net'.rpFile # "loose" /\ (net'.rpFile = None => net'.rp = "strict")
  <2>1. CASE c.do \in DownNames \cup {"del_tun"}
    <3>1. c.do \notin UpNames /\ c.do \in Range(DownSeq) \cup {"del_tun"}
      BY <2>1, DownNamesSeq DEF DownNames, UpNames
    <3>2. net' = DownEffect(c, net)
      BY <1>1, <3>1 DEF Effect
    <3> HIDE DEF c
    <3>3. DownChange(c, net, net')
      BY <1>4, <2>1, <3>2, DownFields
    <3>4. c.do # "del_split_rule" /\ c.do # "del_split_nft"
      BY SMTT(40), <2>1 DEF DownNames
    <3>5. net' \in Nets /\ ~net'.low /\ ~net'.high
      BY SMTT(40), <1>5, <3>3 DEF DownChange
    <3>6. net'.table["100"] # "tun" /\ net'.table["102"] # "tun"
      BY SMTT(40), <1>4, <3>3 DEF DownChange, None
    <3>7. ~astray => net'.rpFile # "loose" /\ (net'.rpFile = None => net'.rp = "strict")
      <4>1. net.rpFile \in {"strict", "loose", None}
        BY SMTT(40), <1>4 DEF Nets
      <4> QED BY <1>7, <3>3, <4>1 DEF DownChange, None
    <3> QED BY <1>3, <1>6, <3>3, <3>4, <3>5, <3>6, <3>7 DEF DownChange
  <2>2. CASE c.do \in RemoveNames
    <3>1. c.do \notin UpNames /\ c.do \notin Range(DownSeq) \cup {"del_tun"}
      BY <2>2, DownNamesSeq DEF DownNames, UpNames, RemoveNames
    <3>2. net' = SplitEffect(c, net)
      BY <1>1, <3>1 DEF Effect
    <3> HIDE DEF c
    <3>3. SplitChange(c, net, net')
      BY <1>4, <2>2, <3>2, SplitFields
    <3>4. c.do \notin {"del_tun", "del_hole", "del_dns_rule", "del_dial", "del_bypass",
                     "split_rule", "split_nft"}
      BY SMTT(40), <2>2 DEF RemoveNames
    <3> QED BY <1>3, <1>4, <1>5, <1>6, <1>7, <3>3, <3>4 DEF SplitChange
  <2> QED BY SMTT(40), <1>8, <2>1, <2>2
<1> HIDE DEF c
<1>10. TypeOK' /\ Shape'
  BY SMTT(40), <1>1, <1>2, <1>3, <1>9 DEF IInv, TypeOK, Shape, Down, Dead
<1>11. Tunnelled' /\ Pinned' /\ Up' /\ Off' /\ Going'
  BY SMTT(40), <1>1, <1>9 DEF Tunnelled, Pinned, Up, Off, Going, Down
<1>12. Recovering' /\ Recorded' /\ (op \in Quiet /\ routesUp => Laid)'
  BY <1>1, <1>9 DEF Recovering, Recorded, Down, Quiet
<1> QED BY <1>10, <1>11, <1>12 DEF IInv

(* Every command, of whichever list, preserves the inductive invariant.      *)
LEMMA CommandStep ==
  ASSUME IInv, Command
  PROVE  IInv'
  BY UpCommand, DownCommand, SplitCommand, RecoverCommand DEF Command, Down

(* The untouched host satisfies the inductive invariant.                     *)
LEMMA InitInv == Init => IInv
<1> SUFFICES ASSUME Init PROVE IInv
  OBVIOUS
<1>1. TypeOK
  <2>1. [t \in Tables |-> None] \in [Tables -> Ifaces \cup {None, "tun"}]
    OBVIOUS
  <2>2. net \in Nets
    BY <2>1 DEF Init, Pristine, Nets
  <2>3. net.table["100"] # "tun" /\ net.table["102"] # "tun"
    BY DEF Init, Pristine, Tables, None
  <2>4. /\ todo = <<>> /\ uplink \in Ifaces /\ list = {} /\ op = "idle"
        /\ routesUp = FALSE /\ split = FALSE /\ astray = FALSE
    BY DEF Init
  <2>5. todo \in Seq(Commands)
    BY SMTT(40), <2>4
  <2> QED BY Zenon, <2>2, <2>3, <2>4, <2>5 DEF TypeOK, Quiet
<1>2. Clean(net)
  BY SMTT(40) DEF Init, Pristine, Clean
<1>3. Shape /\ Up /\ Going /\ Recovering
  BY DEF Init, Shape, Up, Going, Recovering, Down, Dead
<1>4. Tunnelled /\ Pinned /\ Off
  BY <1>2 DEF Init, Clean, Tunnelled, Pinned, Off
<1>5. Recorded /\ (op \in Quiet /\ routesUp => Laid)
  BY <1>2 DEF Init, Pristine, Recorded, Down, None
<1> QED BY <1>1, <1>3, <1>4, <1>5 DEF IInv

(* The start of route_up preserves the inductive invariant.                  *)
LEMMA RouteUpStep ==
  ASSUME IInv, NEW servers \in Lists, RouteUp(servers)
  PROVE  IInv'
<1>0. servers \in Seq(Servers) /\ Range(servers) \subseteq Servers
  <2>1. PICK k \in 0..MaxServers : servers \in [1..k -> Servers]
    BY DEF Lists
  <2> QED BY <2>1 DEF Range
<1>1. /\ op = "idle" /\ ~routesUp /\ list' = Range(servers) /\ op' = "up" /\ todo' = UpCmds(servers)
      /\ UNCHANGED <<net, uplink, routesUp, split, astray>>
  BY DEF RouteUp, Begin
<1>2. /\ todo' \in Seq(Commands) /\ Sorted(todo')
      /\ \A c \in Range(todo') : c.do \in UpNames
      /\ \A x \in {"ensure_tun", "dns_table", "dns_rule", "rp", "phys", "dial_rule",
                   "bypass_rule", "save_pins", "low", "high", "hole"} :
           Cmd(x) \in Range(todo')
      /\ \A s \in Servers : Pin(s) \in Range(todo') <=> s \in Range(servers)
  BY <1>0, <1>1, UpList
<1>3. Left' = {c.do : c \in Range(todo')}
  BY DEF Left
<1>4. \A x : Cmd(x) \in Range(todo') => x \in Left'
  BY <1>3 DEF Cmd
<1>5. Left' \subseteq UpNames
  BY <1>2, <1>3
<1>6. /\ "ensure_tun" \in Left' /\ "dns_table" \in Left' /\ "dns_rule" \in Left' /\ "phys" \in Left'
      /\ "dial_rule" \in Left' /\ "bypass_rule" \in Left' /\ "save_pins" \in Left'
      /\ "low" \in Left' /\ "high" \in Left' /\ "hole" \in Left'
  BY <1>2, <1>4
<1>7. ~net.low /\ ~net.high
  BY <1>1 DEF IInv, Off
<1>8. TypeOK'
  BY <1>0, <1>1, <1>2 DEF IInv, TypeOK
<1>9. Shape'
  BY SMTT(40), <1>1, <1>2, <1>5 DEF Shape, Down, Dead
<1>10. Tunnelled' /\ Pinned' /\ Off' /\ Going' /\ Recovering'
  BY SMTT(40), <1>1, <1>7 DEF Tunnelled, Pinned, Off, Going, Recovering, Down
<1>11. Up'
  <2>1. \A s \in list' : Pin(s) \in Range(todo')
    BY <1>0, <1>1, <1>2
  <2>2. ~net'.low /\ ~net'.high
    BY <1>1, <1>7
  <2> QED BY <1>6, <2>1, <2>2 DEF Up
<1>12. Recorded'
  <2> SUFFICES ASSUME ~astray PROVE Recorded'
    BY SMTT(40), <1>1 DEF Recorded
  <2>1. Clean(net) /\ net.rpFile # "loose"
    BY <1>1 DEF IInv, Recorded
  <2> QED BY <1>1, <1>6, <2>1 DEF Recorded, Clean, Down, Quiet
<1> QED BY <1>1, <1>8, <1>9, <1>10, <1>11, <1>12 DEF IInv, Quiet

(* Every command of route_down is on its list, so whatever stands has one.   *)
LEMMA DownBegins ==
  ASSUME todo' = DownCmds
  PROVE  todo' \in Seq(Commands) /\ Sorted(todo') /\ Left' = DownNames
  BY DownList DEF Left

(* The start of route_down preserves the inductive invariant.                *)
LEMMA RouteDownStep ==
  ASSUME IInv, RouteDown
  PROVE  IInv'
<1>1. /\ op = "idle" /\ routesUp /\ op' = "down" /\ todo' = DownCmds
      /\ UNCHANGED <<net, uplink, list, routesUp, split, astray>>
  BY DEF RouteDown, Begin
<1>2. todo' \in Seq(Commands) /\ Sorted(todo') /\ Left' = DownNames
  BY SMTT(40), <1>1, DownBegins
<1>3. TypeOK' /\ Shape'
  BY SMTT(40), <1>1, <1>2 DEF IInv, TypeOK, Shape, Down, Dead
<1>4. Tunnelled' /\ Pinned' /\ Up' /\ Off' /\ Recovering'
  BY SMTT(40), <1>1 DEF IInv, Tunnelled, Pinned, Up, Off, Recovering, Dead
<1>5. Going'
  BY <1>2 DEF Going, DownNames
<1>6. Recorded'
  BY <1>1 DEF IInv, Recorded, Quiet, Down
<1> QED BY <1>1, <1>3, <1>4, <1>5, <1>6 DEF IInv, Quiet

(* The start of a split install or removal preserves the invariant.          *)
LEMMA SplitBegins ==
  ASSUME IInv, InstallRouting \/ RemoveRouting
  PROVE  IInv'
<1>1. /\ op = "idle" /\ UNCHANGED <<net, uplink, list, routesUp, split, astray>>
      /\ \/ op' = "install" /\ routesUp /\ todo' = SplitTeardown \o SplitSetup
         \/ op' = "remove" /\ todo' = Append(SplitTeardown, Cmd("del_split_nft"))
  BY SMTT(40) DEF InstallRouting, RemoveRouting, Begin
<1>2. /\ todo' \in Seq(Commands)
      /\ op' = "install" => Left' \subseteq InstallNames
      /\ op' = "remove" => Left' \subseteq RemoveNames
  BY Zenon, <1>1, SplitLists DEF Left
<1>3. TypeOK' /\ Shape'
  BY SMTT(40), <1>1, <1>2 DEF IInv, TypeOK, Shape, Down, Dead, Quiet
<1>4. Tunnelled' /\ Pinned' /\ Up' /\ Off' /\ Going' /\ Recovering'
  BY <1>1 DEF IInv, Tunnelled, Pinned, Up, Off, Going, Recovering, Down, Dead
<1>5. Recorded' /\ (op \in Quiet /\ routesUp => Laid)'
  <2>1. Recorded'
    BY <1>1 DEF IInv, Recorded, Quiet, Down
  <2> QED BY SMTT(40), <1>1, <2>1 DEF IInv, Quiet, Laid
<1> QED BY <1>3, <1>4, <1>5 DEF IInv

(* A command the kernel refuses preserves the inductive invariant.           *)
LEMMA RefusedStep ==
  ASSUME IInv, Refused
  PROVE  IInv'
<1>1. /\ todo # <<>> /\ UNCHANGED <<net, uplink, list, routesUp, split>>
      /\ astray' = (astray \/ Head(todo).do \in {"pin", "save_pins"})
      /\ \/ op = "up" /\ op' = "undo" /\ todo' = DownCmds
         \/ op = "install" /\ op' = "idle" /\ todo' = <<>>
  BY DEF Refused, Begin
<1>2. TypeOK /\ astray' \in BOOLEAN /\ (~astray' => ~astray /\ Head(todo).do \notin {"pin", "save_pins"})
  BY Zenon, <1>1 DEF IInv, TypeOK
<1>3. CASE op = "up" /\ op' = "undo" /\ todo' = DownCmds
  <2>1. todo' \in Seq(Commands) /\ Sorted(todo') /\ Left' = DownNames
    BY <1>3, DownBegins
  <2>2. TypeOK'
    BY <1>1, <1>2, <1>3, <2>1 DEF TypeOK, Down
  <2>3. Shape'
    BY SMTT(40), <1>1, <1>3, <2>1 DEF IInv, Shape, Down, Dead
  <2>4. Tunnelled' /\ Pinned' /\ Up' /\ Off' /\ Recovering'
    BY <1>1, <1>3 DEF IInv, Tunnelled, Pinned, Up, Off, Recovering, Dead
  <2>5. Going'
    BY <2>1 DEF Going, DownNames
  <2>6. Recorded'
    <3> SUFFICES ASSUME ~astray' PROVE Recorded'
      BY DEF Recorded
    <3>1. /\ net.rpFile # "loose" /\ (net.rpFile = None => net.rp = "strict")
          /\ net.pins = {} \/ Left \subseteq Late
          /\ net.pins \subseteq net.pinFile \/ "save_pins" \in Left
      BY SMTT(40), <1>2, <1>3 DEF IInv, Recorded
    <3>2. Sorted(todo) /\ todo \in Seq(Commands)
      BY <1>2, <1>3 DEF IInv, Shape, TypeOK
    <3>3. /\ Head(todo) \in Range(todo) /\ Range(todo) = Range(Tail(todo)) \cup {Head(todo)}
          /\ \A d \in Range(Tail(todo)) : Precedes(Head(todo), d)
      BY <1>1, <3>2, TakeFirst
    <3>4. /\ Head(todo).do \in Left
          /\ \A x \in Left : \/ x = Head(todo).do \/ Rank(Head(todo).do) < Rank(x)
                           \/ (Head(todo).do = "pin" /\ x = "pin")
      BY SMTT(40), <3>3 DEF Left, Precedes
    <3>5. CASE net.pins # {}
      <4>1. Head(todo).do \in {"low", "high", "hole"}
        BY SMTT(40), <1>2, <3>1, <3>4, <3>5 DEF Late
      <4>2. "save_pins" \notin Left
        BY SMTT(40), <3>4, <4>1 DEF Rank
      <4> QED BY SMTT(40), <1>1, <1>3, <3>1, <4>2 DEF Recorded, Down, Quiet
    <3>6. CASE net.pins = {}
      BY <1>1, <1>3, <3>1, <3>6 DEF Recorded, Down, Quiet
    <3> QED BY <3>5, <3>6
  <2> QED BY <1>1, <1>3, <2>2, <2>3, <2>4, <2>5, <2>6 DEF IInv, Quiet
<1>4. CASE op = "install" /\ op' = "idle" /\ todo' = <<>>
  <2>1. routesUp /\ todo' \in Seq(Commands)
    BY SMTT(40), <1>4 DEF IInv, Shape
  <2>2. TypeOK' /\ Shape'
    BY <1>1, <1>2, <1>4, <2>1 DEF TypeOK, Shape, Quiet, Down, Dead
  <2>3. Tunnelled' /\ Pinned' /\ Up' /\ Off' /\ Going' /\ Recovering'
    BY Zenon, <1>1, <1>4, <2>1 DEF IInv, Tunnelled, Pinned, Up, Off, Going, Recovering, Down, Dead
  <2>4. Recorded'
    BY SMTT(40), <1>1, <1>2, <1>4, <2>1 DEF IInv, Recorded, Quiet, Down
  <2>5. Laid'
    BY <1>1, <1>4, <2>1 DEF IInv, Laid, Quiet
  <2> QED BY <2>2, <2>3, <2>4, <2>5 DEF IInv
<1> QED BY <1>1, <1>3, <1>4

(* A change of the uplink preserves the inductive invariant.                 *)
LEMMA LinkStep ==
  ASSUME IInv, LinkChange
  PROVE  IInv'
<1> DEFINE f == [t \in Tables |-> IF net.table[t] = uplink THEN None ELSE net.table[t]]
<1>1. /\ op = "idle" /\ ~routesUp /\ uplink' \in Ifaces
      /\ net' = [net EXCEPT !.table = f, !.pins = {}]
      /\ UNCHANGED <<op, todo, list, routesUp, split, astray>>
  BY SMTT(40) DEF LinkChange
<1>2. /\ TypeOK /\ net \in Nets /\ net.table["100"] # "tun" /\ net.table["102"] # "tun"
      /\ net.table \in [Tables -> Ifaces \cup {None, "tun"}]
  BY DEF IInv, TypeOK, Nets
<1>3. /\ f \in [Tables -> Ifaces \cup {None, "tun"}]
      /\ f["100"] # "tun" /\ f["102"] # "tun"
      /\ \A t \in Tables : net.table[t] = None => f[t] = None
  BY <1>2 DEF Tables, None
<1> HIDE DEF f
<1>4. /\ net' \in Nets /\ net'.table = f /\ net'.pins = {}
      /\ net'.low = net.low /\ net'.high = net.high /\ net'.hole = net.hole
      /\ net'.rules4 = net.rules4 /\ net'.rules6 = net.rules6
      /\ net'.rp = net.rp /\ net'.rpFile = net.rpFile
  BY Zenon, <1>1, <1>2, <1>3 DEF Nets
<1>5. ~net.low /\ ~net.high
  BY <1>1 DEF IInv, Off
<1>6. TypeOK'
  BY <1>1, <1>2, <1>3, <1>4 DEF TypeOK
<1>7. Shape'
  BY <1>1 DEF IInv, Shape, Left, Down, Dead
<1>8. Tunnelled' /\ Pinned' /\ Up' /\ Off' /\ Going' /\ Recovering'
  BY <1>1, <1>4, <1>5 DEF Tunnelled, Pinned, Up, Off, Going, Recovering, Down
<1>9. Recorded'
  <2> SUFFICES ASSUME ~astray PROVE Recorded'
    BY <1>1 DEF Recorded
  <2>1. Clean(net) /\ net.rpFile # "loose"
    BY SMTT(40), <1>1 DEF IInv, Recorded
  <2>2. Clean(net')
    BY SMTT(40), <1>3, <1>4, <2>1 DEF Clean
  <2>3. net'.rpFile # "loose" /\ net'.rp = "strict"
    BY SMTT(40), <1>4, <2>1 DEF Clean
  <2> QED BY <1>1, <2>2, <2>3 DEF Recorded, Down
<1> QED BY <1>1, <1>6, <1>7, <1>8, <1>9 DEF IInv

(* A kill of the daemon preserves the inductive invariant.                   *)
LEMMA KillStep ==
  ASSUME IInv, Kill
  PROVE  IInv'
<1>1. /\ op' = "dead" /\ todo' = <<>> /\ routesUp' = FALSE /\ split' = FALSE
      /\ astray' = TRUE /\ UNCHANGED <<net, uplink, list>>
  BY DEF Kill
<1>2. todo' \in Seq(Commands)
  BY SMTT(40), <1>1
<1>3. TypeOK' /\ Shape'
  BY Zenon, <1>1, <1>2 DEF IInv, TypeOK, Shape, Down, Dead
<1>4. Tunnelled' /\ Pinned' /\ Up' /\ Off' /\ Going' /\ Recovering' /\ Recorded'
  BY Zenon, <1>1 DEF IInv, Tunnelled, Pinned, Up, Off, Going, Recovering, Recorded, Down, Dead
<1> QED BY <1>1, <1>3, <1>4 DEF IInv

(* What recovery looks for is what it then removes.                         *)
LEMMA RecoverStep ==
  ASSUME IInv, Recover
  PROVE  IInv'
<1>1. /\ op = "dead" /\ op' = "recover" /\ todo' = Removal(net)
      /\ UNCHANGED <<net, uplink, list, routesUp, split, astray>>
  BY SMTT(40) DEF Recover, Begin
<1>2. /\ todo' \in Seq(Commands)
      /\ \A c \in Range(todo') : c.do \in RecoverNames
      /\ net.tun => Cmd("del_tun") \in Range(todo') /\ todo' # <<>> /\ Head(todo') = Cmd("del_tun")
      /\ "100" \in FoundTables(net) => \A x \in DownNames : Cmd(x) \in Range(todo')
      /\ "101" \in FoundTables(net) => Cmd("del_dns_rule") \in Range(todo')
      /\ "102" \in FoundTables(net) => Cmd("del_split_rule") \in Range(todo')
      /\ net.nat # <<>> => Cmd("del_split_nft") \in Range(todo')
  BY <1>1, RemovalList
<1>3. Left' = {c.do : c \in Range(todo')}
  BY DEF Left
<1>4. \A x : Cmd(x).do = x /\ (Cmd(x) \in Range(todo') => x \in Left')
  BY <1>3 DEF Cmd
<1>5. /\ net.hole \/ <<"dial", "100">> \in net.rules4 \/ <<"bypass", "100">> \in net.rules4
           => "100" \in FoundTables(net)
      /\ <<"dns", "101">> \in net.rules4 => "101" \in FoundTables(net)
      /\ <<"bypass", "102">> \in net.rules4 => "102" \in FoundTables(net)
  BY SMTT(40) DEF FoundTables
<1>6. /\ net.tun => "del_tun" \in Left'
      /\ net.hole => "del_hole" \in Left'
      /\ <<"dns", "101">> \in net.rules4 => "del_dns_rule" \in Left'
      /\ <<"dial", "100">> \in net.rules4 => "del_dial" \in Left'
      /\ <<"bypass", "100">> \in net.rules4 => "del_bypass" \in Left'
      /\ <<"bypass", "102">> \in net.rules4 => "del_split_rule" \in Left'
      /\ net.nat # <<>> => "del_split_nft" \in Left'
  <2>1. "100" \in FoundTables(net) => "del_hole" \in Left' /\ "del_dial" \in Left' /\ "del_bypass" \in Left'
    BY SMTT(40), <1>2, <1>4 DEF DownNames
  <2> QED BY <1>2, <1>4, <1>5, <2>1
<1>7. net.low \/ net.high => todo' # <<>> /\ Head(todo').do = "del_tun"
  BY SMTT(40), <1>2, <1>4 DEF IInv, Tunnelled
<1>8. TypeOK' /\ Shape'
  BY <1>1, <1>2, <1>3 DEF IInv, TypeOK, Shape, Down, Dead
<1>9. Tunnelled' /\ Pinned' /\ Up' /\ Off' /\ Going' /\ Recorded'
  BY Zenon, <1>1 DEF IInv, Tunnelled, Pinned, Up, Off, Going, Recorded, Shape, Down, Dead
<1>10. Recovering'
  BY <1>1, <1>6, <1>7 DEF Recovering
<1> QED BY <1>1, <1>8, <1>9, <1>10 DEF IInv, Quiet

(* The second look finds nothing.                                           *)
LEMMA VerifyStep ==
  ASSUME IInv, VerifyClean
  PROVE  IInv'
<1>1. /\ op = "recover" /\ todo = <<>> /\ op' = IF Found(net) THEN "dirty" ELSE "repaired"
      /\ UNCHANGED <<net, uplink, todo, list, routesUp, split, astray>>
  BY SMTT(40) DEF VerifyClean
<1>2. Left = {}
  BY SMTT(40), <1>1 DEF Left, Range
<1>3. /\ ~net.tun /\ ~net.hole /\ ~net.low /\ ~net.high /\ net.nat = <<>>
      /\ <<"dns", "101">> \notin net.rules4 /\ <<"dial", "100">> \notin net.rules4
      /\ <<"bypass", "100">> \notin net.rules4 /\ <<"bypass", "102">> \notin net.rules4
  BY <1>1, <1>2 DEF IInv, Recovering
<1>4. FoundTables(net) = {}
  BY Zenon, <1>3 DEF FoundTables
<1>5. op' = "repaired"
  BY <1>1, <1>3, <1>4 DEF Found
<1>6. TypeOK' /\ Shape'
  BY <1>1, <1>5 DEF IInv, TypeOK, Shape, Down, Dead
<1>7. Tunnelled' /\ Pinned' /\ Up' /\ Off' /\ Going' /\ Recovering' /\ Recorded'
  BY Zenon, <1>1, <1>3, <1>5
  DEF IInv, Tunnelled, Pinned, Up, Off, Going, Recovering, Recorded, Shape, Down, Dead
<1> QED BY <1>5, <1>6, <1>7 DEF IInv, Quiet

(* The restarted daemon begins to serve in a state of the invariant.         *)
LEMMA ServeStep ==
  ASSUME IInv, Serve
  PROVE  IInv'
<1>1. /\ op = "repaired" /\ op' = "idle" /\ ~routesUp /\ astray
      /\ UNCHANGED <<net, uplink, todo, list, routesUp, split, astray>>
  BY DEF IInv, Shape, Serve, Dead
<1>2. ~net.low /\ ~net.high
  BY SMTT(40), <1>1 DEF IInv, Off
<1>3. TypeOK' /\ Shape'
  BY SMTT(40), <1>1 DEF IInv, TypeOK, Shape, Down, Dead, Quiet
<1>4. Tunnelled' /\ Pinned' /\ Up' /\ Off' /\ Going' /\ Recovering' /\ Recorded'
  BY SMTT(40), <1>1, <1>2
  DEF Tunnelled, Pinned, Up, Off, Going, Recovering, Recorded, Down
<1> QED BY <1>1, <1>3, <1>4 DEF IInv

(* A step of anything else preserves the inductive invariant.                *)
LEMMA StutterStep ==
  ASSUME IInv, UNCHANGED vars
  PROVE  IInv'
<1>1. /\ net' = net /\ uplink' = uplink /\ op' = op /\ todo' = todo /\ list' = list
      /\ routesUp' = routesUp /\ split' = split /\ astray' = astray /\ Left' = Left
  BY SMTT(40) DEF vars, Left
<1>2. TypeOK' /\ Shape'
  BY SMTT(40), <1>1 DEF IInv, TypeOK, Shape
<1>3. Tunnelled' /\ Pinned' /\ Up' /\ Off'
  BY SMTT(40), <1>1 DEF IInv, Tunnelled, Pinned, Up, Off
<1>4. Going' /\ Recovering' /\ Recorded'
  BY <1>1 DEF IInv, Going, Recovering, Recorded
<1> QED BY <1>1, <1>2, <1>3, <1>4 DEF IInv, Laid

(* What stands, and what a writer has left, fit together at every command.  *)
THEOREM RoutingInvariant == Spec => []IInv
<1>1. Init => IInv
  BY InitInv
<1>2. IInv /\ [Next]_vars => IInv'
  <2> SUFFICES ASSUME IInv, [Next]_vars PROVE IInv'
    OBVIOUS
  <2>1. CASE Next
    BY <2>1, RouteUpStep, RouteDownStep, SplitBegins, CommandStep, RefusedStep, LinkStep,
       KillStep, RecoverStep, VerifyStep, ServeStep DEF Next
  <2>2. CASE UNCHANGED vars
    BY SMTT(40), <2>2, StutterStep
  <2> QED BY <2>1, <2>2
<1> QED BY <1>1, <1>2, PTL DEF Spec

(***************************************************************************)
(* Where the packets leave                                                 *)
(***************************************************************************)
(* The policy rules: a packet takes the route of a table that one of its    *)
(* rules names, or else the main table's.                                   *)
LEMMA EgressWay ==
  ASSUME NEW n, NEW mark, NEW dst, NEW half
  PROVE  \/ /\ Egress(n, mark, dst, half) = Main(n, dst, half)
            /\ \A t \in {"101", "102", "100"} :
                 <<mark, t>> \in n.rules4 /\ n.table[t] # None => dst = "lan" /\ t # "101"
         \/ \E t \in {"101", "102", "100"} :
              /\ Egress(n, mark, dst, half) = n.table[t]
              /\ <<mark, t>> \in n.rules4
<1> DEFINE order == <<"101", "102", "100">>
           hits == {i \in 1..3 : /\ <<mark, order[i]>> \in n.rules4
                                 /\ n.table[order[i]] # None
                                 /\ dst = "lan" => order[i] = "101"}
           i0 == CHOOSE i \in hits : \A j \in hits : i <= j
<1>1. Egress(n, mark, dst, half) = IF hits = {} THEN Main(n, dst, half) ELSE n.table[order[i0]]
  BY DEF Egress
<1>2. order[1] = "101" /\ order[2] = "102" /\ order[3] = "100"
  BY SMTT(40)
<1>3. CASE hits = {}
  <2>1. \A i \in 1..3 : <<mark, order[i]>> \in n.rules4 /\ n.table[order[i]] # None
                          => dst = "lan" /\ order[i] # "101"
    BY <1>3
  <2>2. 1 \in 1..3 /\ 2 \in 1..3 /\ 3 \in 1..3
    BY SMTT(40)
  <2> HIDE DEF order, hits
  <2>3. \A t \in {"101", "102", "100"} :
          <<mark, t>> \in n.rules4 /\ n.table[t] # None => dst = "lan" /\ t # "101"
    BY SMTT(40), <1>2, <2>1, <2>2
  <2> QED BY <1>1, <1>3, <2>3
<1>4. CASE hits # {}
  <2>1. \E i \in hits : \A j \in hits : i <= j
    <3>1. hits \subseteq 1..3
      OBVIOUS
    <3> HIDE DEF hits
    <3>2. \A j \in hits : j = 1 \/ j = 2 \/ j = 3
      BY <3>1
    <3>3. CASE 1 \in hits
      BY <3>2, <3>3
    <3>4. CASE 1 \notin hits /\ 2 \in hits
      BY <3>2, <3>4
    <3>5. CASE 1 \notin hits /\ 2 \notin hits
      <4>1. 3 \in hits /\ \A j \in hits : 3 <= j
        BY SMTT(40), <1>4, <3>2, <3>5
      <4> QED BY <4>1
    <3> QED BY <3>3, <3>4, <3>5
  <2>2. i0 \in hits
    BY Zenon, <2>1
  <2>3. i0 \in 1..3 /\ <<mark, order[i0]>> \in n.rules4
    BY Zenon, <2>2
  <2> HIDE DEF i0, hits
  <2>4. order[i0] \in {"101", "102", "100"}
    BY <2>3
  <2> QED BY <1>1, <1>4, <2>3, <2>4
<1> QED BY SMTT(40), <1>3, <1>4

(* The inductive invariant gives NoLoop.                                     *)
LEMMA InvNoLoop == IInv => NoLoop
<1> SUFFICES ASSUME IInv PROVE NoLoop
  BY SMTT(40)
<1>1. /\ net \in Nets /\ uplink \in Ifaces /\ list \subseteq Servers
      /\ net.table["100"] # "tun" /\ net.table["102"] # "tun"
      /\ net.rules4 \subseteq Rules4 /\ uplink # "tun"
  BY SMTT(40) DEF IInv, TypeOK, Nets
<1>2. ASSUME NEW mark \in {"dial", "bypass"}, NEW dst \in Dests
      PROVE  Egress(net, mark, dst, Half(dst)) # "tun"
  <2>1. \A t \in {"101", "102", "100"} : <<mark, t>> \in net.rules4 => net.table[t] # "tun"
    BY <1>1 DEF Rules4
  <2>2. CASE \E t \in {"101", "102", "100"} :
               /\ Egress(net, mark, dst, Half(dst)) = net.table[t]
               /\ <<mark, t>> \in net.rules4
    BY <2>1, <2>2
  <2>3. CASE /\ Egress(net, mark, dst, Half(dst)) = Main(net, dst, Half(dst))
             /\ \A t \in {"101", "102", "100"} :
                  <<mark, t>> \in net.rules4 /\ net.table[t] # None => dst = "lan" /\ t # "101"
    <3>1. dst = "lan" \/ (~net.low /\ ~net.high)
      BY <2>3 DEF IInv, Tunnelled
    <3>2. Main(net, dst, Half(dst)) = uplink
      BY <3>1 DEF Main
    <3> QED BY <1>1, <2>3, <3>2
  <2> QED BY ZenonT(40), <2>2, <2>3, EgressWay
<1>3. ASSUME op \notin {"dead", "recover", "repaired", "dirty"}, net.low \/ net.high,
             NEW s \in list, NEW half \in {"low", "high"}
      PROVE  Egress(net, "plain", s, half) # "tun"
  <2>1. s \in net.pins
    BY <1>3 DEF IInv, Pinned, Dead
  <2>2. Main(net, s, half) = uplink
    BY <2>1 DEF Main
  <2>3. \A t \in {"101", "102", "100"} : <<"plain", t>> \notin net.rules4
    BY <1>1 DEF Rules4
  <2>4. Egress(net, "plain", s, half) = Main(net, s, half)
    BY <2>3, EgressWay
  <2> QED BY <1>1, <2>2, <2>4
<1> QED BY <1>2, <1>3 DEF NoLoop

(* The inductive invariant gives UpIsComplete.                               *)
LEMMA InvUpIsComplete == IInv => UpIsComplete
<1> SUFFICES ASSUME IInv, routesUp, op = "idle"
             PROVE  /\ \A dst \in Dests \ {"lan"} : Egress(net, "plain", dst, Half(dst)) = "tun"
                    /\ Egress(net, "dns", "lan", "low") = "tun"
                    /\ net.hole
  BY DEF UpIsComplete
<1>1. Laid /\ net.rules4 \subseteq Rules4 /\ net.pins \subseteq Servers
  BY SMTT(40) DEF IInv, TypeOK, Nets, Quiet
<1>2. ASSUME NEW dst \in Dests \ {"lan"} PROVE Egress(net, "plain", dst, Half(dst)) = "tun"
  <2>1. \A t \in {"101", "102", "100"} : <<"plain", t>> \notin net.rules4
    BY SMTT(40), <1>1 DEF Rules4
  <2>2. Egress(net, "plain", dst, Half(dst)) = Main(net, dst, Half(dst))
    BY <2>1, EgressWay
  <2>3. dst \notin net.pins /\ dst # "lan" /\ Half(dst) \in {"low", "high"}
    BY <1>1 DEF Dests, Half
  <2> QED BY <1>1, <2>2, <2>3 DEF Main, Laid
<1>3. Egress(net, "dns", "lan", "low") = "tun"
  <2>1. \A t \in {"101", "102", "100"} : <<"dns", t>> \in net.rules4 => t = "101"
    BY <1>1 DEF Rules4
  <2>2. <<"dns", "101">> \in net.rules4 /\ net.table["101"] = "tun" /\ "tun" # None
    BY <1>1 DEF Laid, None
  <2> QED BY <2>1, <2>2, EgressWay
<1> QED BY <1>1, <1>2, <1>3 DEF Laid

(* Whatever order the commands of route_up, route_down, the split's         *)
(* refresh, a refused command, a kill and recovery come in, Xray's marked   *)
(* dials and the excluded applications' packets never enter the tunnel, and *)
(* a server is reached past it unmarked as soon as a half of the internet   *)
(* is in it: for any servers, interfaces and any number of refreshes.       *)
THEOREM NeverLoops == Spec => []NoLoop
  BY RoutingInvariant, InvNoLoop, PTL

(* Once route_up has reported success everything unmarked goes into the     *)
(* tunnel, DNS too, and IPv6 has nowhere to go, whatever the split has      *)
(* refreshed, failed to refresh or removed since.                           *)
THEOREM UpStaysComplete == Spec => []UpIsComplete
  BY RoutingInvariant, InvUpIsComplete, PTL

(* route_down, and the route_down with which a failing route_up undoes      *)
(* itself, leave nothing behind.                                            *)
THEOREM DownLeavesNothing == Spec => []DownIsClean
<1>1. IInv => DownIsClean
  BY DEF IInv, Recorded, DownIsClean
<1> QED BY <1>1, RoutingInvariant, PTL

(* Wherever the daemon was killed, recovery's second look finds nothing.    *)
THEOREM RecoveryFinishes == Spec => []RecoveryConverges
<1>1. IInv => RecoveryConverges
  BY DEF IInv, Shape, RecoveryConverges
<1> QED BY <1>1, RoutingInvariant, PTL

=============================================================================
