---------------------------- MODULE ServerProofs ----------------------------
(***************************************************************************)
(* Why a client never takes one answer for another, and why a command that *)
(* outlived its connection never undoes a later one, for any number of     *)
(* clients, connections and slots, and any limit on requests.              *)
(***************************************************************************)
EXTENDS Server, TLAPS

USE ServerAssumption

TypeOK ==
  /\ session \in [Conns -> {"none", "reading", "handling"}]
  /\ task \in [Conns -> Nat] /\ served \in [Conns -> Nat]
  /\ inbox \in [Conns -> Seq(Requests)] /\ outbox \in [Conns -> Seq(Requests)]
  /\ closed \in [Conns -> BOOLEAN]
  /\ conn \in [Clients -> Conns \cup {None}]
  /\ id \in [Clients -> Nat]
  /\ waits \in [Clients -> Requests \cup {None}]
  /\ sent \in Nat /\ queue \in Seq(Requests) /\ word \in Requests

(***************************************************************************)
(* Sequences                                                               *)
(***************************************************************************)
LEMMA SetOfEmpty == Range(<<>>) = {}
  BY DEF Range

(* The elements of a queue with one request more.                            *)
LEMMA SetOfAppend ==
  ASSUME NEW S, NEW s \in Seq(S), NEW e \in S
  PROVE  Range(Append(s, e)) = Range(s) \cup {e}
<1>1. Append(s, e) \in Seq(S) /\ Len(Append(s, e)) = Len(s) + 1 /\ Len(s) \in Nat
  OBVIOUS
<1>2. \A i \in 1..Len(s) : Append(s, e)[i] = s[i]
  OBVIOUS
<1>3. Append(s, e)[Len(s) + 1] = e
  OBVIOUS
<1>4. DOMAIN Append(s, e) = 1..(Len(s) + 1) /\ DOMAIN s = 1..Len(s)
  BY <1>1
<1> QED BY <1>1, <1>2, <1>3, <1>4 DEF Range

(* The elements of a queue without its first request.                        *)
LEMMA SetOfTail ==
  ASSUME NEW S, NEW s \in Seq(S), s # <<>>
  PROVE  /\ Head(s) \in Range(s) /\ Head(s) \in S /\ Tail(s) \in Seq(S)
         /\ Range(s) = Range(Tail(s)) \cup {Head(s)}
<1>1. /\ Tail(s) \in Seq(S) /\ Len(Tail(s)) = Len(s) - 1 /\ Len(s) \in Nat /\ Len(s) > 0
      /\ \A i \in 1..Len(Tail(s)) : Tail(s)[i] = s[i + 1]
  OBVIOUS
<1>2. Head(s) = s[1] /\ DOMAIN s = 1..Len(s) /\ DOMAIN Tail(s) = 1..(Len(s) - 1)
  BY <1>1
<1>3. Head(s) \in Range(s) /\ Head(s) \in S
  BY <1>1, <1>2 DEF Range
<1>4. Range(Tail(s)) \subseteq Range(s)
  BY <1>1, <1>2 DEF Range
<1>5. ASSUME NEW e \in Range(s) PROVE e \in Range(Tail(s)) \cup {Head(s)}
  <2>1. PICK i \in 1..Len(s) : e = s[i]
    BY <1>2 DEF Range
  <2>2. CASE i = 1
    BY <2>1, <2>2, <1>2
  <2>3. CASE i # 1
    <3>1. i - 1 \in DOMAIN Tail(s) /\ e = Tail(s)[i - 1]
      BY <2>1, <2>3, <1>1, <1>2
    <3> QED BY Zenon, <3>1 DEF Range
  <2> QED BY <2>2, <2>3
<1> QED BY <1>1, <1>3, <1>4, <1>5

(* A queue of one request.                                                   *)
LEMMA SetOfOne ==
  ASSUME NEW S, NEW e \in S
  PROVE  Range(Append(<<>>, e)) = {e} /\ Tail(Append(<<>>, e)) = <<>>
<1>1. <<>> \in Seq(S)
  OBVIOUS
<1>2. Range(Append(<<>>, e)) = {e}
  <2>1. Range(Append(<<>>, e)) = Range(<<>>) \cup {e}
    BY <1>1, SetOfAppend, Zenon
  <2> QED BY <2>1, SetOfEmpty
<1>3. Tail(Append(<<>>, e)) = <<>>
  <2>1. Append(<<>>, e) \in Seq(S) /\ Len(Append(<<>>, e)) = 1
    BY <1>1
  <2>2. Tail(Append(<<>>, e)) \in Seq(S) /\ Len(Tail(Append(<<>>, e))) = 0
    BY <2>1
  <2> QED BY <2>2
<1> QED BY <1>2, <1>3

(* Taking the first request out of a queue leaves its tail.                  *)
LEMMA RemoveFirstIsTail ==
  ASSUME NEW S, NEW s \in Seq(S), s # <<>>
  PROVE  Without(s, 1) = Tail(s)
  BY DEF Without

(* What a client sends is a request.                                         *)
LEMMA NewRequest ==
  ASSUME TypeOK, NEW p \in Clients, NEW command \in Commands(p), conn[p] # None
  PROVE  Request(sent + 1, id[p], conn[p], command) \in Requests
  BY DEF TypeOK, Requests, Request, Commands

SessionTypes ==
  /\ session \in [Conns -> {"none", "reading", "handling"}] /\ task \in [Conns -> Nat]
  /\ closed \in [Conns -> BOOLEAN] /\ inbox \in [Conns -> Seq(Requests)]

(* Closing a session keeps the types of the sessions.                        *)
LEMMA CloseTypes ==
  ASSUME SessionTypes, NEW c, Close(c) PROVE SessionTypes'
<1>1. [closed EXCEPT ![c] = TRUE] \in [Conns -> BOOLEAN]
  BY Zenon DEF SessionTypes
<1> QED BY <1>1 DEF SessionTypes, Close

(* Going on after an answer keeps the types of the sessions.                 *)
LEMMA ContinueTypes ==
  ASSUME SessionTypes, NEW c, Continue(c) PROVE SessionTypes'
<1>1. CASE served[c] = MaxRequests
  BY <1>1, CloseTypes DEF Continue
<1>2. CASE served[c] # MaxRequests
  <2>1. /\ session' = [session EXCEPT ![c] = "reading"] /\ task' = [task EXCEPT ![c] = 0]
        /\ UNCHANGED <<closed, inbox>>
    BY <1>2 DEF Continue
  <2> QED BY Zenon, <2>1 DEF SessionTypes
<1> QED BY <1>1, <1>2

(* The first of the queue has its turn, and leaves the queue.               *)
LEMMA RunsFirst ==
  ASSUME TypeOK, Run
  PROVE  /\ queue # <<>> /\ Head(queue) \in Requests
         /\ queue' = Tail(queue) /\ queue' \in Seq(Requests)
         /\ phase' = Effect(Head(queue).command)
         /\ LET c == Head(queue).conn IN
            \/ /\ task[c] = Head(queue).n /\ Continue(c)
               /\ outbox' = [outbox EXCEPT ![c] = Append(@, Head(queue))]
            \/ task[c] # Head(queue).n /\ UNCHANGED <<outbox, session, task, closed, inbox>>
         /\ UNCHANGED <<served, conn, id, waits, sent, word, answer>>
<1>1. queue # <<>> /\ queue \in Seq(Requests)
  BY DEF Run, TypeOK
<1>2. Head(queue) \in Requests /\ Tail(queue) \in Seq(Requests) /\ Head(queue) = queue[1]
  BY <1>1
<1>3. Without(queue, 1) = Tail(queue)
  BY <1>1, RemoveFirstIsTail
<1> QED BY <1>1, <1>2, <1>3 DEF Run, NextToRun

(* Every step preserves the type invariant.                                  *)
LEMMA TypeStep == TypeOK /\ [Next]_vars => TypeOK'
<1> SUFFICES ASSUME TypeOK, [Next]_vars PROVE TypeOK'
  OBVIOUS
<1> USE DEF TypeOK
<1>1. ASSUME NEW p \in Clients, NEW c \in Conns, Connect(p, c) PROVE TypeOK'
  BY <1>1 DEF Connect
<1>2. ASSUME NEW p \in Clients, NEW command \in Commands(p), Send(p, command)
      PROVE  TypeOK'
  <2>1. Request(sent', id[p], conn[p], command) \in Requests
    BY Zenon, <1>2, NewRequest DEF Send
  <2> QED BY SMTT(40), <1>2, <2>1 DEF Send
<1>3. ASSUME NEW p \in Clients, Receive(p) PROVE TypeOK'
  <2>1. conn[p] \in Conns /\ outbox[conn[p]] # <<>>
    BY <1>3 DEF Receive
  <2>2. Tail(outbox[conn[p]]) \in Seq(Requests)
    BY <2>1
  <2>3. conn' \in [Clients -> Conns \cup {None}]
    BY Zenon, <1>3 DEF Receive, Errs
  <2> QED BY Zenon, <1>3, <2>1, <2>2, <2>3 DEF Receive
<1>4. ASSUME NEW p \in Clients, GiveUp(p) \/ Hangup(p) PROVE TypeOK'
  BY Zenon, <1>4 DEF GiveUp, Hangup, Errs
<1>5. ASSUME NEW c \in Conns, Read(c) PROVE TypeOK'
  <2>1. Head(inbox[c]) \in Requests /\ Tail(inbox[c]) \in Seq(Requests)
    BY <1>5 DEF Read
  <2>2. Head(inbox[c]).n \in Nat
    BY <2>1 DEF Requests
  <2> QED BY SMTT(40), <1>5, <2>1, <2>2 DEF Read
<1>6. ASSUME NEW c \in Conns, Refuse(c) PROVE TypeOK'
  <2>1. Head(inbox[c]) \in Requests /\ Tail(inbox[c]) \in Seq(Requests)
    BY <1>6 DEF Refuse
  <2>2. /\ served' \in [Conns -> Nat] /\ outbox' \in [Conns -> Seq(Requests)]
        /\ UNCHANGED <<conn, id, waits, sent, queue, word>>
    BY <1>6, <2>1 DEF Refuse
  <2>3. SessionTypes'
    BY Zenon, <1>6, <2>1, CloseTypes DEF Refuse, SessionTypes
  <2> QED BY <2>2, <2>3 DEF SessionTypes
<1>7. CASE Run
  <2> DEFINE c == Head(queue).conn
  <2>1. CASE UNCHANGED <<outbox, session, task, closed, inbox>>
    BY Zenon, <1>7, <2>1, RunsFirst
  <2>2. CASE ~ UNCHANGED <<outbox, session, task, closed, inbox>>
    <3>1. outbox' = [outbox EXCEPT ![c] = Append(@, Head(queue))] /\ Continue(c)
      BY Zenon, <1>7, <2>2, RunsFirst
    <3>2. Head(queue) \in Requests
      BY <1>7, RunsFirst
    <3>3. outbox' \in [Conns -> Seq(Requests)]
      <4>1. CASE c \in Conns
        <5>1. Append(outbox[c], Head(queue)) \in Seq(Requests)
          BY <3>2, <4>1
        <5> QED BY Zenon, <3>1, <5>1
      <4>2. CASE c \notin Conns
        BY Zenon, <3>1, <4>2
      <4> QED BY <4>1, <4>2
    <3>4. SessionTypes'
      BY <3>1, ContinueTypes DEF SessionTypes
    <3> QED BY Zenon, <1>7, <3>3, <3>4, RunsFirst DEF SessionTypes
  <2> QED BY Zenon, <2>1, <2>2
<1>8. ASSUME NEW c \in Conns, FrameTimeout(c) \/ CommandTimeout(c) PROVE TypeOK'
  BY <1>8, CloseTypes DEF FrameTimeout, CommandTimeout, SessionTypes
<1>9. CASE UNCHANGED vars
  BY <1>9 DEF vars
<1> QED
  BY Zenon, <1>1, <1>2, <1>3, <1>4, <1>5, <1>6, <1>7, <1>8, <1>9
     DEF Next, ClientStep, SessionStep

(***************************************************************************)
(* The answer a client accepts                                             *)
(***************************************************************************)

(* The request that the session of a connection handles.                    *)
Handled(c) == {r \in Range(queue) : r.conn = c /\ r.n = task[c]}

(* The requests and answers on a connection, and the one it handles.        *)
Flight(c) == Range(inbox[c]) \cup Range(outbox[c]) \cup Handled(c)

(* The request that a client waits for.                                     *)
Asked(p) == {waits[p]} \ {None}

Everywhere ==
  Range(queue) \cup (UNION {Flight(c) : c \in Conns}) \cup (UNION {Asked(q) : q \in Clients})

(* A number tells a request for good, and a request comes by the connection *)
(* it names.                                                                *)
Numbered ==
  /\ \A r \in Everywhere : r.n \in 1..sent
  /\ \A r, s \in Everywhere : r.n = s.n => r = s
  /\ \A c \in Conns : \A r \in Range(inbox[c]) : r.conn = c

(* An operation id tells a request on its connection; what an earlier user  *)
(* of the connection left in the queue is no answer to anybody.             *)
Identified ==
  /\ \A c \in Conns : session[c] = "none" => task[c] = 0
  /\ \A p \in Clients : waits[p] # None => conn[p] # None
  /\ \A p, q \in Clients : conn[p] # None /\ conn[p] = conn[q] => p = q
  /\ \A p \in Clients : conn[p] # None =>
       /\ \A r \in Flight(conn[p]) \cup Asked(p) : r.op < id[p]
       /\ \A r, s \in Flight(conn[p]) \cup Asked(p) : r.op = s.op => r.n = s.n

(* The end of a turn, and of a session, adds nothing anywhere.              *)
LEMMA TurnEnds ==
  ASSUME TypeOK, NEW c, Close(c) \/ Continue(c), NEW d \in Conns
  PROVE  /\ inbox'[d] = inbox[d] \/ inbox'[d] = <<>>
         /\ task'[d] = task[d] \/ task'[d] = 0
         /\ d # c => session'[d] = session[d] /\ task'[d] = task[d] /\ inbox'[d] = inbox[d]
         /\ d = c => task'[d] = 0
<1>1. CASE Close(c)
  BY <1>1 DEF Close, TypeOK
<1>2. CASE Continue(c) /\ ~ Close(c)
  BY <1>2 DEF Continue, TypeOK
<1> QED BY <1>1, <1>2

(* The end of a turn of one connection leaves what another was sent.         *)
LEMMA TurnLeaves ==
  ASSUME TypeOK, NEW c, Continue(c), NEW d \in Conns, d # c
  PROVE  inbox'[d] = inbox[d]
BY SMTT(40), TurnEnds

(* A step that adds nothing to the queue handles nothing new.                *)
LEMMA HandledShrinks ==
  ASSUME TypeOK, Numbered, NEW d \in Conns, Range(queue') \subseteq Range(queue),
         task'[d] = task[d] \/ task'[d] = 0
  PROVE  Handled(d)' \subseteq Handled(d)
<1> SUFFICES ASSUME NEW r \in Range(queue'), r.conn = d, r.n = task'[d]
             PROVE  r \in Handled(d)
  BY DEF Handled
<1>1. r \in Range(queue) /\ r.n \in 1..sent
  BY DEF Numbered, Everywhere
<1> QED BY <1>1 DEF Handled, TypeOK

(* What a step leaves of the requests under way on a connection.            *)
LEMMA FlightBound ==
  ASSUME TypeOK, Numbered, NEW d \in Conns, NEW I, NEW O,
         Range(inbox'[d]) \subseteq I, Range(outbox'[d]) \subseteq O,
         Range(queue') \subseteq Range(queue),
         task'[d] = task[d] \/ task'[d] = 0
  PROVE  Flight(d)' \subseteq I \cup O \cup Handled(d)
<1>1. Handled(d)' \subseteq Handled(d)
  BY HandledShrinks
<1> QED BY <1>1 DEF Flight

(* A step that brings no request into the world.                            *)
NothingNew ==
  /\ \A d \in Conns : Flight(d)' \subseteq Flight(d) /\ Range(inbox'[d]) \subseteq Range(inbox[d])
  /\ \A q \in Clients : Asked(q)' \subseteq Asked(q)
  /\ Range(queue') \subseteq Everywhere
  /\ sent' = sent

(* Every step but Send is one.                                              *)
LEMMA OnlySendIsNew ==
  ASSUME TypeOK, Numbered, [Next]_vars
  PROVE  NothingNew \/ \E p \in Clients : \E command \in Commands(p) : Send(p, command)
<1> USE DEF TypeOK
<1>0. Range(queue) \subseteq Everywhere
  BY DEF Everywhere
<1>1. ASSUME NEW p \in Clients, NEW c \in Conns, Connect(p, c) PROVE NothingNew
  <2>1. ASSUME NEW d \in Conns
        PROVE  Range(inbox'[d]) \subseteq Range(inbox[d]) /\ Range(outbox'[d]) \subseteq Range(outbox[d])
    BY <1>1, SetOfEmpty DEF Connect
  <2>2. UNCHANGED <<queue, task, waits, sent>>
    BY <1>1 DEF Connect
  <2> QED BY <1>0, <2>1, <2>2 DEF NothingNew, Flight, Handled, Asked
<1>2. ASSUME NEW p \in Clients, Receive(p) PROVE NothingNew
  <2>1. conn[p] \in Conns /\ outbox[conn[p]] # <<>>
    BY <1>2 DEF Receive
  <2>2. Range(Tail(outbox[conn[p]])) \subseteq Range(outbox[conn[p]])
    BY <2>1, SetOfTail
  <2>3. ASSUME NEW d \in Conns PROVE Range(outbox'[d]) \subseteq Range(outbox[d])
    BY Zenon, <1>2, <2>2 DEF Receive
  <2>4. UNCHANGED <<queue, task, inbox, sent>> /\ waits' = [waits EXCEPT ![p] = None]
    BY <1>2 DEF Receive
  <2> QED BY <1>0, <2>3, <2>4 DEF NothingNew, Flight, Handled, Asked
<1>3. ASSUME NEW p \in Clients, GiveUp(p) \/ Hangup(p) PROVE NothingNew
  <2>1. /\ UNCHANGED <<queue, task, inbox, outbox, sent>>
        /\ waits' = [waits EXCEPT ![p] = None] \/ waits' = waits
    BY <1>3 DEF GiveUp, Hangup
  <2> QED BY <1>0, <2>1 DEF NothingNew, Flight, Handled, Asked
<1>4. ASSUME NEW c \in Conns, Read(c) PROVE NothingNew
  <2> DEFINE request == Head(inbox[c])
  <2>1. /\ inbox[c] \in Seq(Requests) /\ inbox[c] # <<>> /\ request \in Requests
        /\ queue' = Append(queue, request) /\ task' = [task EXCEPT ![c] = request.n]
        /\ inbox' = [inbox EXCEPT ![c] = Tail(@)] /\ UNCHANGED <<outbox, waits, sent>>
    BY <1>4 DEF Read
  <2>2. request \in Range(inbox[c]) /\ Range(Tail(inbox[c])) \subseteq Range(inbox[c])
    BY <2>1, SetOfTail
  <2>3. Range(queue') = Range(queue) \cup {request}
    BY <2>1, SetOfAppend
  <2>4. request \in Flight(c) /\ request \in Everywhere /\ request.conn = c
    <3>1. request \in Flight(c)
      BY <2>2 DEF Flight
    <3>2. request \in Everywhere
      BY <3>1 DEF Everywhere
    <3>3. request.conn = c
      BY <2>2 DEF Numbered
    <3> QED BY <3>1, <3>2, <3>3
  <2>5. ASSUME NEW d \in Conns
        PROVE  Flight(d)' \subseteq Flight(d) /\ Range(inbox'[d]) \subseteq Range(inbox[d])
    <3>1. Range(inbox'[d]) \subseteq Range(inbox[d])
      BY <2>1, <2>2
    <3>2. ASSUME NEW r \in Handled(d)' PROVE r \in Flight(d)
      <4>1. r \in Range(queue') /\ r.conn = d /\ r.n = task'[d]
        BY DEF Handled
      <4>2. CASE r = request
        BY <4>1, <4>2, <2>4
      <4>3. CASE r # request
        <5>1. r \in Range(queue) /\ r \in Everywhere
          BY <4>1, <4>3, <2>3, <1>0
        <5>2. CASE d = c
          BY <4>1, <4>3, <5>1, <5>2, <2>1, <2>4 DEF Numbered
        <5>3. CASE d # c
          BY <4>1, <5>1, <5>3, <2>1 DEF Flight, Handled
        <5> QED BY <5>2, <5>3
      <4> QED BY <4>2, <4>3
    <3> QED BY SMTT(40), <3>1, <3>2, <2>1 DEF Flight
  <2> QED BY <1>0, <2>1, <2>3, <2>4, <2>5 DEF NothingNew, Asked
<1>5. ASSUME NEW c \in Conns, Refuse(c) PROVE NothingNew
  <2> DEFINE request == Head(inbox[c])
  <2>1. /\ inbox[c] \in Seq(Requests) /\ inbox[c] # <<>> /\ request \in Requests
        /\ outbox' = [outbox EXCEPT ![c] = Append(@, request)]
        /\ UNCHANGED <<queue, waits, sent>>
        /\ Close(c) \/ (inbox' = [inbox EXCEPT ![c] = Tail(@)] /\ UNCHANGED task)
    <3>1. inbox[c] # <<>>
      BY <1>5 DEF Refuse
    <3>2. inbox[c] \in Seq(Requests) /\ request \in Requests
      BY <3>1
    <3> QED BY <1>5, <3>1, <3>2, Zenon DEF Refuse
  <2>2. request \in Range(inbox[c]) /\ Range(Tail(inbox[c])) \subseteq Range(inbox[c])
    BY <2>1, SetOfTail
  <2>3. ASSUME NEW d \in Conns
        PROVE  Flight(d)' \subseteq Flight(d) /\ Range(inbox'[d]) \subseteq Range(inbox[d])
    <3>1. Range(inbox'[d]) \subseteq Range(inbox[d]) /\ (task'[d] = task[d] \/ task'[d] = 0)
      BY Zenon, <2>1, <2>2, SetOfEmpty, TurnEnds
    <3>2. Range(outbox'[d]) \subseteq Flight(d)
      <4>1. CASE d = c
        BY <4>1, <2>1, <2>2, SetOfAppend DEF Flight
      <4>2. CASE d # c
        BY <4>2, <2>1 DEF Flight
      <4> QED BY SMTT(40), <4>1, <4>2
    <3>3. Flight(d)' \subseteq Range(inbox[d]) \cup Flight(d) \cup Handled(d)
      BY <3>1, <3>2, <2>1, FlightBound
    <3> QED BY <3>1, <3>3 DEF Flight
  <2> QED BY <1>0, <2>1, <2>3 DEF NothingNew, Asked
<1>6. CASE Run
  <2> DEFINE request == Head(queue)
             c == request.conn
  <2>1. /\ request \in Range(queue) /\ request \in Requests
        /\ Range(queue') \subseteq Range(queue) /\ UNCHANGED <<waits, sent>>
    <3>1. queue # <<>> /\ queue' = Tail(queue) /\ UNCHANGED <<waits, sent>>
      BY Zenon, <1>6, RunsFirst
    <3> QED BY <3>1, SetOfTail
  <2>2. ASSUME NEW d \in Conns
        PROVE  Flight(d)' \subseteq Flight(d) /\ Range(inbox'[d]) \subseteq Range(inbox[d])
    <3>1. Range(inbox'[d]) \subseteq Range(inbox[d]) /\ (task'[d] = task[d] \/ task'[d] = 0)
      BY Zenon, <1>6, RunsFirst, SetOfEmpty, TurnEnds
    <3>2. Range(outbox'[d]) \subseteq Flight(d)
      <4>1. CASE d = c /\ task[c] = request.n
        <5>1. outbox'[d] = Append(outbox[d], request) /\ outbox[d] \in Seq(Requests)
          BY Zenon, <4>1, <1>6, RunsFirst
        <5>2. Range(outbox'[d]) = Range(outbox[d]) \cup {request}
          BY SMTT(40), <5>1, <2>1, SetOfAppend
        <5>3. request \in Handled(d)
          BY Zenon, <4>1, <2>1 DEF Handled
        <5> QED BY Zenon, <5>2, <5>3 DEF Flight
      <4>2. CASE ~ (d = c /\ task[c] = request.n)
        BY Zenon, <4>2, <1>6, RunsFirst DEF Flight
      <4> QED BY Zenon, <4>1, <4>2
    <3>3. Flight(d)' \subseteq Range(inbox[d]) \cup Flight(d) \cup Handled(d)
      BY SMTT(40), <3>1, <3>2, <2>1, FlightBound
    <3> QED BY SMTT(40), <3>1, <3>3 DEF Flight
  <2> QED BY Zenon, <1>0, <2>1, <2>2 DEF NothingNew, Asked
<1>7. ASSUME NEW c \in Conns, FrameTimeout(c) \/ CommandTimeout(c) PROVE NothingNew
  <2>1. Close(c) /\ UNCHANGED <<outbox, queue, waits, sent>>
    BY <1>7 DEF FrameTimeout, CommandTimeout
  <2>2. ASSUME NEW d \in Conns
        PROVE  Flight(d)' \subseteq Flight(d) /\ Range(inbox'[d]) \subseteq Range(inbox[d])
    <3>1. Range(inbox'[d]) \subseteq Range(inbox[d]) /\ (task'[d] = task[d] \/ task'[d] = 0)
      BY Zenon, <2>1, SetOfEmpty, TurnEnds
    <3>2. Flight(d)' \subseteq Range(inbox[d]) \cup Range(outbox[d]) \cup Handled(d)
      BY <3>1, <2>1, FlightBound
    <3> QED BY SMTT(40), <3>1, <3>2 DEF Flight
  <2> QED BY <1>0, <2>1, <2>2 DEF NothingNew, Asked
<1>8. CASE UNCHANGED vars
  BY <1>0, <1>8 DEF vars, NothingNew, Flight, Handled, Asked
<1> QED
  BY <1>1, <1>2, <1>3, <1>4, <1>5, <1>6, <1>7, <1>8
     DEF Next, ClientStep, SessionStep

(* Send puts one request on the connection of its client.                   *)
LEMMA SendEffect ==
  ASSUME TypeOK, NEW p \in Clients, NEW command \in Commands(p), Send(p, command),
         NEW r, r = Request(sent + 1, id[p], conn[p], command)
  PROVE  /\ r \in Requests /\ r.n = sent + 1 /\ r.op = id[p] /\ r.conn = conn[p]
         /\ r.command = command /\ conn[p] \in Conns
         /\ sent' = sent + 1 /\ waits' = [waits EXCEPT ![p] = r]
         /\ id' = [id EXCEPT ![p] = @ + 1]
         /\ \A d \in Conns :
              /\ Range(inbox'[d]) \subseteq Range(inbox[d]) \cup {r}
              /\ Flight(d)' \subseteq Flight(d) \cup {r}
              /\ d # conn[p] => inbox'[d] = inbox[d] /\ Flight(d)' = Flight(d)
         /\ UNCHANGED <<queue, conn, session, task>>
<1>1. /\ conn[p] \in Conns /\ sent' = sent + 1 /\ waits' = [waits EXCEPT ![p] = r]
      /\ inbox' = [inbox EXCEPT ![conn[p]] = Append(@, r)]
      /\ UNCHANGED <<outbox, queue, conn, session, task>>
      /\ id' = [id EXCEPT ![p] = @ + 1]
  BY DEF Send, TypeOK
<1>2. /\ r \in Requests /\ r.n = sent + 1 /\ r.op = id[p] /\ r.conn = conn[p]
      /\ r.command = command
  BY SMTT(40), <1>1, NewRequest DEF Request, TypeOK
<1>3. ASSUME NEW d \in Conns
      PROVE  /\ Range(inbox'[d]) \subseteq Range(inbox[d]) \cup {r}
             /\ Flight(d)' \subseteq Flight(d) \cup {r}
             /\ d # conn[p] => inbox'[d] = inbox[d] /\ Flight(d)' = Flight(d)
  <2>1. CASE d = conn[p]
    <3>1. inbox'[d] = Append(inbox[d], r) /\ inbox[d] \in Seq(Requests)
      BY SMTT(40), <1>1, <2>1 DEF TypeOK
    <3>2. Range(inbox'[d]) = Range(inbox[d]) \cup {r}
      BY SMTT(40), <1>2, <3>1, SetOfAppend
    <3> QED BY <1>1, <2>1, <3>2 DEF Flight, Handled
  <2>2. CASE d # conn[p]
    <3>1. inbox'[d] = inbox[d]
      BY <1>1, <2>2 DEF TypeOK
    <3> QED BY <1>1, <2>2, <3>1 DEF Flight, Handled
  <2> QED BY SMTT(40), <2>1, <2>2
<1> QED BY SMTT(40), <1>1, <1>2, <1>3

(* Every step keeps the requests numbered apart.                             *)
LEMMA NumberedStep == TypeOK /\ Numbered /\ [Next]_vars => Numbered'
<1> SUFFICES ASSUME TypeOK, Numbered, [Next]_vars PROVE Numbered'
  BY SMTT(40)
<1>1. CASE NothingNew
  <2>1. Everywhere' \subseteq Everywhere
    BY <1>1 DEF NothingNew, Everywhere
  <2> QED BY SMTT(40), <1>1, <2>1 DEF Numbered, NothingNew
<1>2. ASSUME NEW p \in Clients, NEW command \in Commands(p), Send(p, command)
      PROVE  Numbered'
  <2> DEFINE r == Request(sent + 1, id[p], conn[p], command)
  <2>1. /\ r.n = sent + 1 /\ r.conn = conn[p] /\ sent' = sent + 1
        /\ waits' = [waits EXCEPT ![p] = r] /\ UNCHANGED queue
        /\ \A d \in Conns :
              /\ Range(inbox'[d]) \subseteq Range(inbox[d]) \cup {r}
              /\ Flight(d)' \subseteq Flight(d) \cup {r}
              /\ d # conn[p] => inbox'[d] = inbox[d]
    BY <1>2, SendEffect
  <2> HIDE DEF r
  <2>2. Everywhere' \subseteq Everywhere \cup {r}
    <3>1. \A q \in Clients : Asked(q)' \subseteq Asked(q) \cup {r}
      BY SMTT(40), <2>1 DEF Asked, TypeOK
    <3>2. Range(queue)' \subseteq Everywhere
      BY <2>1 DEF Everywhere
    <3>3. \A d \in Conns : Flight(d)' \subseteq Everywhere \cup {r}
      BY <2>1 DEF Everywhere
    <3>4. ASSUME NEW q \in Clients PROVE Asked(q)' \subseteq Everywhere \cup {r}
      <4>1. Asked(q) \subseteq Everywhere
        BY DEF Everywhere
      <4> QED BY <3>1, <4>1
    <3> QED BY <3>2, <3>3, <3>4, Zenon DEF Everywhere
  <2>3. sent \in Nat
    BY DEF TypeOK
  <2>4. \A e \in Everywhere' : e.n \in 1..sent'
    BY <2>1, <2>2, <2>3 DEF Numbered
  <2>5. ASSUME NEW e \in Everywhere', NEW f \in Everywhere', e.n = f.n PROVE e = f
    BY <2>1, <2>2, <2>3, <2>5 DEF Numbered
  <2>6. \A c \in Conns : \A e \in Range(inbox'[c]) : e.conn = c
    BY SMTT(40), <2>1 DEF Numbered
  <2> QED BY SMTT(40), <2>4, <2>5, <2>6 DEF Numbered
<1> QED BY <1>1, <1>2, OnlySendIsNew

(* Only Connect gives a client a connection, and only Send a request.       *)
LEMMA ClientsLetGo ==
  ASSUME TypeOK, [Next]_vars
  PROVE  \/ \E p \in Clients, c \in Conns : Connect(p, c)
         \/ \E p \in Clients : \E command \in Commands(p) : Send(p, command)
         \/ \A q \in Clients :
              /\ conn'[q] = conn[q] \/ (conn'[q] = None /\ waits'[q] = None)
              /\ waits'[q] = waits[q] \/ waits'[q] = None
              /\ id'[q] = id[q]
<1> DEFINE Kept == \A q \in Clients :
              /\ conn'[q] = conn[q] \/ (conn'[q] = None /\ waits'[q] = None)
              /\ waits'[q] = waits[q] \/ waits'[q] = None
              /\ id'[q] = id[q]
<1>1. ASSUME NEW p \in Clients, Receive(p) \/ GiveUp(p) \/ Hangup(p) PROVE Kept
  <2>1. /\ conn' = conn \/ conn' = [conn EXCEPT ![p] = None]
        /\ waits' = [waits EXCEPT ![p] = None] \/ (waits' = waits /\ waits[p] = None)
        /\ id' = id
    BY Zenon, <1>1 DEF Receive, GiveUp, Hangup, Errs
  <2> QED BY SMTT(40), <2>1 DEF TypeOK
<1>2. ASSUME NEW c \in Conns, SessionStep(c) PROVE Kept
  BY Zenon, <1>2 DEF SessionStep, Read, Refuse, FrameTimeout, CommandTimeout
<1>3. CASE Run
  BY Zenon, <1>3, RunsFirst
<1>4. CASE UNCHANGED vars
  BY SMTT(40), <1>4 DEF vars
<1> QED BY <1>1, <1>2, <1>3, <1>4 DEF Next, ClientStep

(* A session that is over handles nothing.                                  *)
LEMMA SettledStep ==
  ASSUME TypeOK, [Next]_vars, \A c \in Conns : session[c] = "none" => task[c] = 0
  PROVE  \A c \in Conns : session'[c] = "none" => task'[c] = 0
<1> DEFINE Settled == \A c \in Conns : session'[c] = "none" => task'[c] = 0
<1>1. ASSUME NEW p \in Clients, NEW c \in Conns, Connect(p, c) PROVE Settled
  BY SMTT(40), <1>1 DEF Connect, TypeOK
<1>2. ASSUME NEW p \in Clients, ClientStep(p), \A c \in Conns : ~ Connect(p, c) PROVE Settled
  BY Zenon, <1>2 DEF ClientStep, Send, Receive, GiveUp, Hangup
<1>3. ASSUME NEW c, Close(c) \/ Continue(c) PROVE Settled
  BY <1>3, TurnEnds
<1>4. ASSUME NEW c \in Conns, Read(c) PROVE Settled
  BY <1>4 DEF Read, TypeOK
<1>5. ASSUME NEW c \in Conns, Refuse(c) \/ FrameTimeout(c) \/ CommandTimeout(c) PROVE Settled
  <2>1. Close(c) \/ UNCHANGED <<session, task>>
    BY <1>5 DEF Refuse, FrameTimeout, CommandTimeout
  <2> QED BY <1>3, <2>1
<1>6. CASE Run
  <2>1. (\E c : Continue(c)) \/ UNCHANGED <<session, task>>
    BY Zenon, <1>6, RunsFirst
  <2> QED BY <1>3, <2>1
<1>7. CASE UNCHANGED vars
  BY <1>7 DEF vars
<1> QED BY <1>1, <1>2, <1>4, <1>5, <1>6, <1>7 DEF Next, SessionStep

(* The elements of a list of requests are requests.                          *)
LEMMA SetOfTyped ==
  ASSUME NEW S, NEW s \in Seq(S) PROVE Range(s) \subseteq S
  BY DEF Range

(* What is in flight on a connection is requests.                            *)
LEMMA FlightTyped ==
  ASSUME TypeOK, NEW c \in Conns PROVE Flight(c) \subseteq Requests
<1>1. inbox[c] \in Seq(Requests) /\ outbox[c] \in Seq(Requests) /\ queue \in Seq(Requests)
  BY DEF TypeOK
<1> QED BY <1>1, SetOfTyped DEF Flight, Handled

(* Every step keeps what is in flight for a client apart by its ids.         *)
LEMMA IdentifiedStep == TypeOK /\ Numbered /\ Identified /\ [Next]_vars => Identified'
<1> SUFFICES ASSUME TypeOK, Numbered, Identified, [Next]_vars PROVE Identified'
  OBVIOUS
<1>0. \A c \in Conns : session'[c] = "none" => task'[c] = 0
  BY SMTT(40), SettledStep DEF Identified
<1> DEFINE Told(p) == 
       conn[p] # None =>
         /\ \A r \in Flight(conn[p]) \cup Asked(p) : r.op < id[p]
         /\ \A r, s \in Flight(conn[p]) \cup Asked(p) : r.op = s.op => r.n = s.n
           Alone == \A p, q \in Clients : conn[p] # None /\ conn[p] = conn[q] => p = q
           Waiting == \A p \in Clients : waits[p] # None => conn[p] # None
<1>1. ASSUME NEW p \in Clients, NEW c \in Conns, Connect(p, c) PROVE Identified'
  <2>1. /\ conn[p] = None /\ session[c] = "none" /\ \A q \in Clients : conn[q] # c
        /\ conn' = [conn EXCEPT ![p] = c] /\ id' = [id EXCEPT ![p] = 1]
        /\ inbox' = [inbox EXCEPT ![c] = <<>>] /\ outbox' = [outbox EXCEPT ![c] = <<>>]
        /\ UNCHANGED <<task, queue, waits>>
    BY <1>1 DEF Connect
  <2>2. Alone' /\ Waiting'
    BY <2>1 DEF Identified, TypeOK
  <2>3. Flight(c)' = {}
    <3>1. task[c] = 0
      BY Zenon, <2>1 DEF Identified
    <3>2. Handled(c)' = {}
      BY SMTT(40), <2>1, <3>1 DEF Handled, Numbered, Everywhere
    <3> QED BY SMTT(40), <2>1, <3>2, SetOfEmpty DEF Flight, TypeOK
  <2>4. Asked(p)' = {}
    BY <2>1 DEF Asked, Identified
  <2>5. Told(p)'
    BY SMTT(40), <2>1, <2>3, <2>4 DEF TypeOK
  <2>6. ASSUME NEW q \in Clients, q # p PROVE Told(q)'
    <3>1. conn'[q] = conn[q] /\ id'[q] = id[q] /\ Asked(q)' = Asked(q) /\ conn[q] # c
      BY SMTT(40), <2>1, <2>6 DEF TypeOK, Asked
    <3>2. conn[q] # None => Flight(conn[q])' = Flight(conn[q])
      BY Zenon, <2>1, <3>1 DEF TypeOK, Flight, Handled
    <3> QED BY <3>1, <3>2 DEF Identified
  <2>7. \A q \in Clients : Told(q)'
    BY SMTT(40), <2>5, <2>6
  <2> QED BY Zenon, <1>0, <2>2, <2>7 DEF Identified
<1>2. ASSUME NEW p \in Clients, NEW command \in Commands(p), Send(p, command)
      PROVE  Identified'
  <2> DEFINE e == Request(sent + 1, id[p], conn[p], command)
  <2>1. /\ conn[p] \in Conns /\ waits' = [waits EXCEPT ![p] = e] /\ e.op = id[p]
        /\ id' = [id EXCEPT ![p] = @ + 1] /\ UNCHANGED conn
        /\ \A d \in Conns :
             /\ Flight(d)' \subseteq Flight(d) \cup {e}
             /\ d # conn[p] => Flight(d)' = Flight(d)
    BY <1>2, SendEffect
  <2> HIDE DEF e
  <2>2. Alone' /\ Waiting'
    BY SMTT(40), <2>1 DEF Identified, TypeOK
  <2>3. Told(p)'
    <3>1. Flight(conn[p])' \subseteq Flight(conn[p]) \cup {e}
      BY <2>1
    <3>2. Asked(p)' \subseteq {e} /\ id'[p] = id[p] + 1 /\ id[p] \in Nat
      BY <2>1 DEF TypeOK, Asked
    <3>3. conn[p] # None
      BY <2>1
    <3>4. ASSUME NEW r \in (Flight(conn[p]) \cup Asked(p))' 
          PROVE  /\ r.op < id'[p] /\ r.op \in Nat
                 /\ r = e \/ (r.op < id[p] /\ r \in Flight(conn[p]))
      <4>1. CASE r = e
        BY SMTT(40), <4>1, <3>2, <2>1
      <4>2. CASE r # e
        <5>1. r \in Flight(conn[p]) \cup Asked(p)
          BY <4>2, <3>1, <3>2
        <5>2. r \in Flight(conn[p]) 
          BY SMTT(40), <4>2, <3>1, <3>2
        <5>3. r.op < id[p]
          BY <5>1, <3>3 DEF Identified
        <5>4. r.op \in Nat
          BY <5>2, <2>1, FlightTyped DEF Requests
        <5> QED BY <5>2, <5>3, <5>4, <3>2
      <4> QED BY <4>1, <4>2
    <3>5. ASSUME NEW r \in (Flight(conn[p]) \cup Asked(p))', 
                 NEW s \in (Flight(conn[p]) \cup Asked(p))', r.op = s.op
          PROVE  r.n = s.n
      <4>1. CASE r = e \/ s = e
        BY SMTT(40), <4>1, <3>2, <3>4, <3>5, <2>1
      <4>2. CASE r # e /\ s # e
        BY SMTT(40), <4>2, <3>3, <3>4, <3>5 DEF Identified
      <4> QED BY <4>1, <4>2
    <3> QED BY Zenon, <3>4, <3>5
  <2>4. ASSUME NEW q \in Clients, q # p PROVE Told(q)'
    <3>1. conn'[q] = conn[q] /\ id'[q] = id[q] /\ Asked(q)' = Asked(q)
      BY <2>1, <2>4 DEF TypeOK, Asked
    <3>2. conn[q] # None => Flight(conn[q])' = Flight(conn[q])
      BY SMTT(40), <2>1, <2>4, <3>1 DEF TypeOK, Identified
    <3> QED BY <3>1, <3>2 DEF Identified
  <2>5. \A q \in Clients : Told(q)'
    BY SMTT(40), <2>3, <2>4
  <2> QED BY SMTT(40), <1>0, <2>2, <2>5 DEF Identified
<1>3. CASE /\ NothingNew
           /\ \A q \in Clients :
                /\ conn'[q] = conn[q] \/ (conn'[q] = None /\ waits'[q] = None)
                /\ waits'[q] = waits[q] \/ waits'[q] = None
                /\ id'[q] = id[q]
  <2>1. Alone' /\ Waiting'
    BY SMTT(40), <1>3 DEF Identified
  <2>2. ASSUME NEW q \in Clients PROVE Told(q)'
    <3>1. CASE conn'[q] = None
      BY SMTT(40), <3>1
    <3>2. CASE conn'[q] # None
      <4>1. conn'[q] = conn[q] /\ conn[q] \in Conns /\ id'[q] = id[q]
        BY <1>3, <3>2 DEF TypeOK
      <4>2. (Flight(conn[q]) \cup Asked(q))' \subseteq Flight(conn[q]) \cup Asked(q)
        BY <1>3, <4>1 DEF NothingNew
      <4> QED BY SMTT(40), <4>1, <4>2 DEF Identified
    <3> QED BY <3>1, <3>2
  <2> QED BY SMTT(40), <1>0, <2>1, <2>2 DEF Identified
<1> QED BY <1>1, <1>2, <1>3, OnlySendIsNew, ClientsLetGo

(* An answer with the operation id of the request a client waits for is the *)
(* answer to that request.                                                  *)
LEMMA AnswersMatchStep ==
  TypeOK /\ Identified /\ AnswersMatch /\ [Next]_vars => AnswersMatch'
<1> SUFFICES ASSUME TypeOK, Identified, AnswersMatch, [Next]_vars PROVE AnswersMatch'
  OBVIOUS
<1>1. ASSUME NEW p \in Clients, Receive(p) PROVE AnswersMatch'
  <2> DEFINE response == Head(outbox[conn[p]])
  <2>1. /\ conn[p] \in Conns /\ outbox[conn[p]] # <<>> /\ waits[p] # None
        /\ \/ UNCHANGED answer
           \/ /\ answer' = [asked |-> waits[p].n, got |-> response.n]
              /\ response.op = waits[p].op
    BY Zenon, <1>1 DEF Receive, Matches, TypeOK
  <2>2. response \in Flight(conn[p]) /\ waits[p] \in Asked(p)
    BY Zenon, <2>1, SetOfTail DEF Flight, Asked, TypeOK
  <2>3. response.op = waits[p].op => waits[p].n = response.n
    BY SMTT(40), <2>1, <2>2 DEF Identified
  <2> QED BY SMTT(40), <2>1, <2>3 DEF AnswersMatch
<1>2. ASSUME NEW p \in Clients, ClientStep(p), ~ Receive(p) PROVE AnswersMatch'
  BY Zenon, <1>2 DEF ClientStep, Connect, Send, GiveUp, Hangup, AnswersMatch
<1>3. ASSUME NEW c \in Conns, SessionStep(c) PROVE AnswersMatch'
  BY Zenon, <1>3 DEF SessionStep, Read, Refuse, FrameTimeout, CommandTimeout, AnswersMatch
<1>4. CASE Run
  BY Zenon, <1>4, RunsFirst DEF AnswersMatch
<1>5. CASE UNCHANGED vars
  BY Zenon, <1>5 DEF vars, AnswersMatch
<1> QED BY <1>1, <1>2, <1>3, <1>4, <1>5 DEF Next

(* Before any client connects the invariants hold.                           *)
LEMMA IdentifiedInit == Init => TypeOK /\ Numbered /\ Identified /\ AnswersMatch
<1> SUFFICES ASSUME Init PROVE TypeOK /\ Numbered /\ Identified /\ AnswersMatch
  BY SMTT(40)
<1>1. TypeOK
  BY DEF Init, TypeOK, Requests, Request, Steering
<1>2. /\ \A c \in Conns : Flight(c) = {}
      /\ \A p \in Clients : Asked(p) = {}
      /\ Range(queue) = {}
  BY SetOfEmpty DEF Init, Flight, Handled, Asked
<1>3. Everywhere = {}
  BY SMTT(40), <1>2 DEF Everywhere
<1>4. Numbered
  BY <1>2, <1>3 DEF Numbered, Flight
<1>5. Identified
  BY <1>2 DEF Identified, Init
<1> QED BY <1>1, <1>4, <1>5 DEF Init, AnswersMatch

(* A client of daemon_client.rs never takes the answer to one request for   *)
(* that to another, whatever it gave up on before: the operation ids of     *)
(* server.rs's responses tell the requests on a connection apart, for any   *)
(* number of clients and connections.                                       *)
THEOREM AnswersAreMatched == Spec => []AnswersMatch
<1>1. TypeOK /\ Numbered /\ Identified /\ AnswersMatch /\ [Next]_vars
        => (TypeOK /\ Numbered /\ Identified /\ AnswersMatch)'
  BY TypeStep, NumberedStep, IdentifiedStep, AnswersMatchStep
<1> QED BY <1>1, IdentifiedInit, PTL DEF Spec

(***************************************************************************)
(* The last word                                                           *)
(***************************************************************************)

(* A connection that the daemon closed takes no more requests.              *)
Drained == \A c \in Conns : closed[c] => inbox[c] = <<>>

(* Only the connection of the client that steers carries steering commands. *)
OthersAsk ==
  \A c \in Conns : c # conn[Steers] =>
    \A r \in Range(inbox[c]) : r.command \notin Steering

(* On c is one request at most, that the client waits for: it is on its     *)
(* way, or handled, or answered.                                            *)
Once(c) ==
  /\ Flight(c) \subseteq Asked(Steers)
  /\ inbox[c] # <<>> => outbox[c] = <<>> /\ Handled(c) = {} /\ Tail(inbox[c]) = <<>>
  /\ outbox[c] # <<>> => Handled(c) = {} /\ Tail(outbox[c]) = <<>>

OneAtATime == Drained /\ OthersAsk /\ \A c \in Conns : c = conn[Steers] => Once(c)

(* Steering commands queue in the order of their sending, the word is the   *)
(* last of them, and one that is still to be read comes after all.          *)
InOrder ==
  /\ word.command \in Steering
  /\ \A i, j \in 1..Len(queue) :
       i < j /\ queue[i].command \in Steering /\ queue[j].command \in Steering
         => queue[i].n < queue[j].n
  /\ \A r \in Range(queue) : r.command \in Steering =>
       r.n <= word.n /\ word \in Range(queue)
  /\ word.n <= sent
  /\ \A c \in Conns : c = conn[Steers] =>
       \A r \in Range(inbox[c]) : r.command \in Steering => word.n < r.n

(* A list without elements is the empty list.                                *)
LEMMA NoneInEmpty ==
  ASSUME NEW S, NEW s \in Seq(S), Range(s) = {} PROVE s = <<>>
  BY SMTT(40), SetOfTail

(* A step that leaves the steering client's connection alone.               *)
LEMMA OnceKept ==
  ASSUME NEW c \in Conns, Once(c), Asked(Steers)' = Asked(Steers),
         Flight(c)' \subseteq Flight(c), Handled(c)' \subseteq Handled(c),
         inbox'[c] = inbox[c] \/ inbox'[c] = <<>>, outbox'[c] = outbox[c]
  PROVE  Once(c)'
  BY DEF Once

(* Every step keeps the inbox of a closed connection empty.                  *)
LEMMA DrainedStep ==
  ASSUME TypeOK, Drained, [Next]_vars PROVE Drained'
<1> USE DEF TypeOK
<1>0. ASSUME NEW c, Close(c) \/ Continue(c) PROVE Drained'
  <2>1. CASE Close(c)
    BY <2>1 DEF Close, Drained
  <2>2. CASE ~ Close(c)
    <3>1. UNCHANGED <<closed, inbox>>
      BY <1>0, <2>2 DEF Continue
    <3> QED BY <3>1 DEF Drained
  <2> QED BY <2>1, <2>2
<1>1. ASSUME NEW p \in Clients, NEW c \in Conns, Connect(p, c) PROVE Drained'
  BY <1>1 DEF Connect, Drained
<1>2. ASSUME NEW p \in Clients, NEW command \in Commands(p), Send(p, command) PROVE Drained'
  BY SMTT(40), <1>2 DEF Send, Drained
<1>3. ASSUME NEW p \in Clients, Receive(p) \/ GiveUp(p) \/ Hangup(p) PROVE Drained'
  BY Zenon, <1>3 DEF Receive, GiveUp, Hangup, Drained
<1>4. ASSUME NEW c \in Conns, Read(c) PROVE Drained'
  BY <1>4 DEF Read, Drained
<1>5. ASSUME NEW c \in Conns, Refuse(c) \/ FrameTimeout(c) \/ CommandTimeout(c) PROVE Drained'
  <2>1. \/ Close(c)
        \/ /\ inbox' = [inbox EXCEPT ![c] = Tail(@)] /\ UNCHANGED closed /\ inbox[c] # <<>>
    BY <1>5, Zenon DEF Refuse, FrameTimeout, CommandTimeout
  <2>2. CASE UNCHANGED closed /\ inbox[c] # <<>> /\ inbox' = [inbox EXCEPT ![c] = Tail(@)]
    BY <2>2 DEF Drained
  <2> QED BY <2>1, <2>2, <1>0
<1>6. CASE Run
  <2>1. (\E c : Continue(c)) \/ UNCHANGED <<closed, inbox>>
    BY <1>6, RunsFirst
  <2>2. CASE UNCHANGED <<closed, inbox>>
    BY <2>2 DEF Drained
  <2> QED BY SMTT(40), <2>1, <2>2, <1>0
<1>7. CASE UNCHANGED vars
  BY <1>7 DEF vars, Drained
<1> QED
  BY <1>1, <1>2, <1>3, <1>4, <1>5, <1>6, <1>7 DEF Next, ClientStep, SessionStep

(* The client that steers lets go of its connection only when no request of *)
(* its own is on the way to the daemon.                                     *)
LEMMA NothingLeftBehind ==
  ASSUME TypeOK, Identified, OneAtATime, [Next]_vars,
         NEW c \in Conns, c = conn[Steers], c # conn'[Steers]
  PROVE  inbox'[c] = <<>>
<1> USE DEF TypeOK
<1>0. c # None
  OBVIOUS
<1>1. ASSUME NEW p \in Clients, NEW d \in Conns, Connect(p, d) PROVE FALSE
  BY <1>0, <1>1 DEF Connect
<1>2. ASSUME NEW p \in Clients, NEW command \in Commands(p), Send(p, command) PROVE FALSE
  BY <1>2 DEF Send
<1>3. CASE Receive(Steers)
  <2>1. outbox[c] # <<>> /\ UNCHANGED inbox
    BY <1>3 DEF Receive
  <2> QED BY <2>1 DEF OneAtATime, Once
<1>4. CASE GiveUp(Steers)
  BY <1>4 DEF GiveUp, OneAtATime, Drained
<1>5. CASE Hangup(Steers)
  <2>1. waits[Steers] = None /\ UNCHANGED inbox
    BY <1>5 DEF Hangup
  <2>2. Range(inbox[c]) = {}
    BY SMTT(40), <2>1 DEF OneAtATime, Once, Asked, Flight
  <2> QED BY <2>1, <2>2, NoneInEmpty
<1>6. ASSUME NEW p \in Clients, p # Steers, Receive(p) \/ GiveUp(p) \/ Hangup(p) PROVE FALSE
  BY SMTT(40), <1>6 DEF Receive, GiveUp, Hangup, Errs
<1>7. ASSUME NEW d \in Conns, SessionStep(d) PROVE FALSE
  BY <1>7 DEF SessionStep, Read, Refuse, FrameTimeout, CommandTimeout
<1>8. CASE Run
  BY SMTT(40), <1>8, RunsFirst
<1>9. CASE UNCHANGED vars
  BY <1>9 DEF vars
<1> QED
  BY <1>1, <1>2, <1>3, <1>4, <1>5, <1>6, <1>7, <1>8, <1>9 DEF Next, ClientStep

(* Only the steering client's connection carries steering commands.          *)
LEMMA OthersAskStep ==
  ASSUME TypeOK, Numbered, Identified, OneAtATime, [Next]_vars PROVE OthersAsk'
<1> SUFFICES ASSUME NEW c \in Conns, c # conn'[Steers], NEW r \in Range(inbox'[c])
             PROVE  r.command \notin Steering
  BY SMTT(40) DEF OthersAsk
<1>1. CASE c = conn[Steers]
  <2>1. inbox'[c] = <<>>
    BY <1>1, NothingLeftBehind
  <2> QED BY <2>1, SetOfEmpty
<1>2. CASE c # conn[Steers] /\ NothingNew
  BY <1>2 DEF NothingNew, OneAtATime, OthersAsk
<1>3. ASSUME c # conn[Steers], NEW p \in Clients, NEW command \in Commands(p), Send(p, command)
      PROVE  r.command \notin Steering
  <2> DEFINE e == Request(sent + 1, id[p], conn[p], command)
  <2>1. /\ Range(inbox'[c]) \subseteq Range(inbox[c]) \cup {e} /\ e.command = command
        /\ c # conn[p] => inbox'[c] = inbox[c]
    BY SMTT(40), <1>3, SendEffect
  <2>2. CASE c = conn[p]
    <3>1. command \notin Steering
      BY SMTT(40), <1>3, <2>2 DEF Commands, Steering
    <3> QED BY Zenon, <1>3, <2>1, <3>1 DEF OneAtATime, OthersAsk
  <2>3. CASE c # conn[p]
    BY <1>3, <2>1, <2>3 DEF OneAtATime, OthersAsk
  <2> QED BY SMTT(40), <2>2, <2>3
<1> QED BY SMTT(40), <1>1, <1>2, <1>3, OnlySendIsNew

(* The steering client has at most one command in flight.                    *)
LEMMA OnceStep ==
  ASSUME TypeOK, Numbered, Identified, OneAtATime, [Next]_vars,
         NEW c \in Conns, c = conn'[Steers]
  PROVE  Once(c)'
<1> USE DEF TypeOK
<1>0. ASSUME c = conn[Steers] PROVE Once(c)
  BY <1>0 DEF OneAtATime
<1>1. ASSUME NEW p \in Clients, NEW d \in Conns, Connect(p, d) PROVE Once(c)'
  <2>1. /\ conn[p] = None /\ session[d] = "none" /\ conn' = [conn EXCEPT ![p] = d]
        /\ inbox' = [inbox EXCEPT ![d] = <<>>] /\ outbox' = [outbox EXCEPT ![d] = <<>>]
        /\ \A q \in Clients : conn[q] # d
        /\ UNCHANGED <<task, queue, waits>>
    BY SMTT(40), <1>1 DEF Connect
  <2>2. CASE p = Steers
    <3>1. c = d /\ task[d] = 0
      BY <2>1, <2>2 DEF Identified
    <3>2. Handled(c)' = {}
      BY <2>1, <3>1 DEF Handled, Numbered, Everywhere
    <3>3. inbox'[c] = <<>> /\ outbox'[c] = <<>>
      BY SMTT(40), <2>1, <3>1
    <3> QED BY Zenon, <3>2, <3>3, SetOfEmpty DEF Once, Flight
  <2>3. CASE p # Steers
    <3>1. c = conn[Steers] /\ c # d
      BY <2>1, <2>3
    <3>2. inbox'[c] = inbox[c] /\ outbox'[c] = outbox[c]
      BY <2>1, <3>1
    <3> QED BY Zenon, <1>0, <2>1, <3>1, <3>2 DEF Once, Flight, Handled, Asked
  <2> QED BY <2>2, <2>3
<1>2. ASSUME NEW p \in Clients, NEW command \in Commands(p), Send(p, command) PROVE Once(c)'
  <2> DEFINE e == Request(sent + 1, id[p], conn[p], command)
  <2>1. /\ waits' = [waits EXCEPT ![p] = e] /\ UNCHANGED <<queue, task, conn, outbox>>
        /\ inbox' = [inbox EXCEPT ![conn[p]] = Append(@, e)]
        /\ waits[p] = None /\ conn[p] # None
    BY SMTT(40), <1>2 DEF Send
  <2>2. e \in Requests /\ Flight(c)' \subseteq Flight(c) \cup {e}
    BY SMTT(40), <1>2, SendEffect
  <2> HIDE DEF e
  <2>3. CASE p = Steers
    <3>1. Flight(c) = {}
      BY <1>0, <2>1, <2>3 DEF Once, Asked
    <3>2. inbox[c] = <<>> /\ outbox[c] = <<>> /\ Handled(c) = {}
      <4>1. Range(inbox[c]) = {} /\ Range(outbox[c]) = {} /\ Handled(c) = {}
        BY <3>1 DEF Flight
      <4>2. inbox[c] \in Seq(Requests) /\ outbox[c] \in Seq(Requests)
        OBVIOUS
      <4> QED BY Zenon, <4>1, <4>2, NoneInEmpty
    <3>3. inbox'[c] = Append(<<>>, e)
      BY <2>1, <2>3, <3>2
    <3>4. Tail(inbox'[c]) = <<>>
      BY <3>3, <2>2
    <3>5. Handled(c)' = {} /\ outbox'[c] = <<>>
      BY <2>1, <3>2 DEF Handled
    <3>6. e # None => Asked(Steers)' = {e}
      BY <2>1, <2>3 DEF Asked
    <3>7. e # None
      BY SMTT(40), <2>2
    <3> QED BY Zenon, <3>1, <3>4, <3>5, <3>6, <3>7, <2>2 DEF Once
  <2>4. CASE p # Steers
    <3>1. c = conn[Steers] /\ c # conn[p]
      BY <2>1, <2>4 DEF Identified
    <3>2. inbox'[c] = inbox[c]
      BY <2>1, <3>1
    <3>3. waits'[Steers] = waits[Steers]
      BY <2>1, <2>4
    <3> QED BY Zenon, <1>0, <2>1, <3>1, <3>2, <3>3 DEF Once, Flight, Handled, Asked
  <2> QED BY <2>3, <2>4
<1>3. ASSUME NEW p \in Clients, Receive(p) PROVE Once(c)'
  <2>1. /\ outbox' = [outbox EXCEPT ![conn[p]] = Tail(@)] /\ UNCHANGED <<queue, task, inbox>>
        /\ waits' = [waits EXCEPT ![p] = None] /\ outbox[conn[p]] # <<>> /\ conn[p] # None
        /\ conn' = conn \/ conn' = [conn EXCEPT ![p] = None]
    BY <1>3 DEF Receive, Errs
  <2>2. c = conn[Steers]
    BY <2>1
  <2>3. CASE p = Steers
    <3>1. Handled(c) = {} /\ Tail(outbox[c]) = <<>> /\ inbox[c] = <<>>
      BY <1>0, <2>1, <2>2, <2>3 DEF Once
    <3>2. Handled(c)' = {} /\ outbox'[c] = <<>> /\ inbox'[c] = <<>>
      BY SMTT(40), <2>1, <2>2, <2>3, <3>1 DEF Handled
    <3> QED BY <3>2, SetOfEmpty DEF Once, Flight
  <2>4. CASE p # Steers
    <3>1. c # conn[p]
      BY <2>1, <2>2, <2>4 DEF Identified
    <3>2. outbox'[c] = outbox[c] /\ waits'[Steers] = waits[Steers]
      BY <2>1, <2>4, <3>1
    <3> QED BY Zenon, <1>0, <2>1, <2>2, <3>2 DEF Once, Flight, Handled, Asked
  <2> QED BY <2>3, <2>4
<1>4. ASSUME NEW p \in Clients, GiveUp(p) \/ Hangup(p) PROVE Once(c)'
  <2>1. /\ UNCHANGED <<queue, task, inbox, outbox>>
        /\ conn' = conn \/ conn' = [conn EXCEPT ![p] = None]
        /\ waits' = [waits EXCEPT ![p] = None] \/ waits' = waits
    BY <1>4 DEF GiveUp, Hangup, Errs
  <2>2. CASE p = Steers
    BY <1>4, <2>2 DEF GiveUp, Hangup, Errs
  <2>3. CASE p # Steers
    <3>1. c = conn[Steers] /\ waits'[Steers] = waits[Steers]
      BY <2>1, <2>3
    <3> QED BY <1>0, <2>1, <3>1 DEF Once, Flight, Handled, Asked
  <2> QED BY <2>2, <2>3
<1>5. ASSUME NEW d \in Conns, Read(d) PROVE Once(c)'
  <2> DEFINE e == Head(inbox[d])
  <2>1. /\ inbox[d] # <<>> /\ queue' = Append(queue, e) /\ task' = [task EXCEPT ![d] = e.n]
        /\ inbox' = [inbox EXCEPT ![d] = Tail(@)] /\ UNCHANGED <<outbox, conn, waits>>
    BY <1>5 DEF Read
  <2>2. c = conn[Steers] /\ Asked(Steers)' = Asked(Steers)
    BY SMTT(40), <2>1 DEF Asked
  <2>3. CASE c = d
    <3>1. Tail(inbox[c]) = <<>> /\ outbox[c] = <<>>
      BY SMTT(40), <1>0, <2>1, <2>2, <2>3 DEF Once
    <3>2. inbox'[c] = <<>> /\ outbox'[c] = <<>>
      BY <2>1, <2>3, <3>1
    <3>3. e \in Range(inbox[c]) /\ e \in Requests
      BY <2>1, <2>3, SetOfTail
    <3>4. e \in Flight(c)
      BY <3>3 DEF Flight
    <3>5. e \in Everywhere
      BY SMTT(40), <3>4 DEF Everywhere
    <3>6. Handled(c)' \subseteq {e}
      <4>1. Range(queue') = Range(queue) \cup {e}
        BY SMTT(40), <2>1, <3>3, SetOfAppend
      <4>2. Range(queue) \subseteq Everywhere
        BY DEF Everywhere
      <4>3. task'[c] = e.n
        BY <2>1, <2>3
      <4> QED BY <4>1, <4>2, <4>3, <3>5 DEF Handled, Numbered
    <3>7. e \in Asked(Steers)
      BY SMTT(40), <1>0, <2>2, <3>4 DEF Once
    <3> QED BY <2>2, <3>2, <3>6, <3>7, SetOfEmpty DEF Once, Flight
  <2>4. CASE c # d
    <3>1. inbox'[c] = inbox[c] /\ task'[c] = task[c] /\ outbox'[c] = outbox[c]
      BY <2>1, <2>4
    <3>2. e \in Range(inbox[d]) /\ e \in Requests
      BY <2>1, SetOfTail
    <3>3. Range(queue') = Range(queue) \cup {e}
      BY SMTT(40), <2>1, <3>2, SetOfAppend
    <3>4. e.conn = d
      BY SMTT(40), <3>2 DEF Numbered
    <3>5. Handled(c)' \subseteq Handled(c)
      BY SMTT(40), <2>4, <3>1, <3>3, <3>4 DEF Handled
    <3>6. Flight(c)' \subseteq Flight(c)
      BY <3>1, <3>5 DEF Flight
    <3> QED BY Zenon, <1>0, <2>2, <3>1, <3>5, <3>6, OnceKept
  <2> QED BY <2>3, <2>4
<1>6. ASSUME NEW d \in Conns, Refuse(d) PROVE Once(c)'
  <2> DEFINE e == Head(inbox[d])
  <2>1. /\ inbox[d] # <<>> /\ outbox' = [outbox EXCEPT ![d] = Append(@, e)]
        /\ UNCHANGED <<queue, conn, waits>>
        /\ Close(d) \/ (inbox' = [inbox EXCEPT ![d] = Tail(@)] /\ UNCHANGED task)
    BY <1>6, Zenon DEF Refuse
  <2>2. c = conn[Steers] /\ Asked(Steers)' = Asked(Steers)
    BY <2>1 DEF Asked
  <2>3. e \in Range(inbox[d]) /\ e \in Requests
    BY <2>1, SetOfTail
  <2>4. task'[c] = task[c] \/ task'[c] = 0
    BY Zenon, <2>1, TurnEnds
  <2>5. Handled(c)' \subseteq Handled(c)
    BY SMTT(40), <2>1, <2>4, HandledShrinks
  <2>6. CASE c = d
    <3>1. Tail(inbox[c]) = <<>> /\ outbox[c] = <<>> /\ Handled(c) = {}
      BY <1>0, <2>1, <2>2, <2>6 DEF Once
    <3>2. inbox'[c] = <<>>
      BY Zenon, <2>1, <2>6, <3>1 DEF Close
    <3>3. outbox'[c] = Append(<<>>, e)
      BY <2>1, <2>6, <3>1
    <3>4. Range(outbox'[c]) = {e} /\ Tail(outbox'[c]) = <<>>
      BY <3>3, <2>3, SetOfOne
    <3>5. e \in Asked(Steers)
      BY <1>0, <2>2, <2>3, <2>6 DEF Once, Flight
    <3> QED BY <2>2, <2>5, <3>1, <3>2, <3>4, <3>5, SetOfEmpty DEF Once, Flight
  <2>7. CASE c # d
    <3>1. inbox'[c] = inbox[c] /\ outbox'[c] = outbox[c]
      BY Zenon, <2>1, <2>7, TurnEnds
    <3>2. Flight(c)' \subseteq Flight(c)
      BY <2>5, <3>1 DEF Flight
    <3> QED BY Zenon, <1>0, <2>2, <2>5, <3>1, <3>2, OnceKept
  <2> QED BY <2>6, <2>7
<1>7. CASE Run
  <2> DEFINE e == Head(queue)
             d == e.conn
  <2>1. /\ queue # <<>> /\ queue' = Tail(queue) /\ UNCHANGED <<conn, waits>> /\ e \in Requests
        /\ \/ /\ task[d] = e.n /\ Continue(d)
              /\ outbox' = [outbox EXCEPT ![d] = Append(@, e)]
           \/ task[d] # e.n /\ UNCHANGED <<outbox, session, task, closed, inbox>>
    BY Zenon, <1>7, RunsFirst
  <2>2. c = conn[Steers] /\ Asked(Steers)' = Asked(Steers)
    BY Zenon, <2>1 DEF Asked
  <2>3. e \in Range(queue) /\ Range(queue') \subseteq Range(queue)
    BY SMTT(40), <2>1, SetOfTail
  <2>4. task'[c] = task[c] \/ task'[c] = 0
    BY Zenon, <2>1, TurnEnds
  <2>5. Handled(c)' \subseteq Handled(c)
    BY Zenon, <2>3, <2>4, HandledShrinks
  <2>6. CASE c = d /\ task[d] = e.n
    <3>1. e \in Handled(c)
      BY Zenon, <2>3, <2>6 DEF Handled
    <3>2. inbox[c] = <<>> /\ outbox[c] = <<>> /\ e \in Asked(Steers)
      BY SMTT(40), <1>0, <2>2, <3>1 DEF Once, Flight
    <3>3. inbox'[c] = <<>> /\ task'[c] = 0
      BY SMTT(40), <2>1, <2>6, <3>2, TurnEnds
    <3>4. outbox'[c] = Append(<<>>, e)
      BY SMTT(40), <2>1, <2>6, <3>2
    <3>5. Range(outbox'[c]) = {e} /\ Tail(outbox'[c]) = <<>>
      BY Zenon, <3>4, <2>1, SetOfOne
    <3>6. Handled(c)' = {}
      BY <2>3, <3>3 DEF Handled, Numbered, Everywhere
    <3> QED BY <2>2, <3>2, <3>3, <3>5, <3>6, SetOfEmpty DEF Once, Flight
  <2>7. CASE ~ (c = d /\ task[d] = e.n)
    <3>1. inbox'[c] = inbox[c] /\ outbox'[c] = outbox[c]
      <4>1. CASE task[d] # e.n
        BY Zenon, <2>1, <4>1
      <4>2. CASE task[d] = e.n
        <5>1. c # d /\ Continue(d) /\ outbox' = [outbox EXCEPT ![d] = Append(@, e)]
          BY Zenon, <2>1, <2>7, <4>2
        <5>2. inbox'[c] = inbox[c]
          BY Zenon, <5>1, TurnLeaves
        <5> QED BY SMTT(40), <5>1, <5>2
      <4> QED BY Zenon, <4>1, <4>2
    <3>2. Flight(c)' \subseteq Flight(c)
      BY Zenon, <2>5, <3>1 DEF Flight
    <3> QED BY Zenon, <1>0, <2>2, <2>5, <3>1, <3>2, OnceKept
  <2> QED BY <2>6, <2>7
<1>8. ASSUME NEW d \in Conns, FrameTimeout(d) \/ CommandTimeout(d) PROVE Once(c)'
  <2>1. Close(d) /\ UNCHANGED <<outbox, queue, conn, waits>>
    BY <1>8 DEF FrameTimeout, CommandTimeout
  <2>2. c = conn[Steers] /\ Asked(Steers)' = Asked(Steers)
    BY <2>1 DEF Asked
  <2>3. /\ inbox'[c] = inbox[c] \/ inbox'[c] = <<>>
        /\ task'[c] = task[c] \/ task'[c] = 0
    BY SMTT(40), <2>1, TurnEnds
  <2>4. Handled(c)' \subseteq Handled(c)
    BY Zenon, <2>1, <2>3, HandledShrinks
  <2>5. Flight(c)' \subseteq Flight(c)
    BY <2>1, <2>3, <2>4, SetOfEmpty DEF Flight
  <2> QED BY Zenon, <1>0, <2>1, <2>2, <2>3, <2>4, <2>5, OnceKept
<1>9. CASE UNCHANGED vars
  BY <1>0, <1>9 DEF vars, Once, Flight, Handled, Asked
<1> QED
  BY <1>1, <1>2, <1>3, <1>4, <1>5, <1>6, <1>7, <1>8, <1>9 DEF Next, ClientStep, SessionStep

(* Every step preserves OneAtATime.                                          *)
LEMMA OneAtATimeStep ==
  TypeOK /\ Numbered /\ Identified /\ OneAtATime /\ [Next]_vars => OneAtATime'
  BY Zenon, DrainedStep, OthersAskStep, OnceStep DEF OneAtATime

(* The numbers of the requests are natural numbers.                          *)
LEMMA NumbersAreNat ==
  ASSUME TypeOK PROVE word.n \in Nat /\ \A r \in Range(queue) : r.n \in Nat
<1>1. Range(queue) \subseteq Requests
  BY SetOfTyped DEF TypeOK
<1> QED BY Zenon, <1>1 DEF TypeOK, Requests

(* A steering command is read: it is the new word, and the last in order.   *)
LEMMA ReadInOrder ==
  ASSUME TypeOK, Numbered, OneAtATime, InOrder, LastWordWins, NEW c \in Conns, Read(c)
  PROVE  InOrder' /\ LastWordWins'
<1> USE DEF TypeOK
<1> DEFINE e == Head(inbox[c])
           m == Len(queue)
<1>1. /\ inbox[c] # <<>> /\ queue' = Append(queue, e)
      /\ inbox' = [inbox EXCEPT ![c] = Tail(@)] /\ UNCHANGED <<conn, sent, phase>>
      /\ word' = IF e.command \in Steering /\ e.n > word.n THEN e ELSE word
  BY DEF Read
<1>2. e \in Range(inbox[c]) /\ e \in Requests /\ Range(Tail(inbox[c])) \subseteq Range(inbox[c])
  BY <1>1, SetOfTail
<1>3. Range(queue') = Range(queue) \cup {e}
  BY SMTT(40), <1>1, <1>2, SetOfAppend
<1>4. /\ m \in Nat /\ Len(queue') = m + 1 /\ queue'[m + 1] = e
      /\ \A i \in 1..m : queue'[i] = queue[i] /\ queue[i] \in Range(queue) /\ queue[i] \in Requests
  <2>1. queue \in Seq(Requests) /\ e \in Requests /\ queue' = Append(queue, e)
    BY Zenon, <1>1, <1>2
  <2> HIDE DEF TypeOK, e
  <2> QED BY SMTT(40), <2>1 DEF Range
<1>5. e.n \in Nat /\ word.n \in Nat /\ \A r \in Range(queue) : r.n \in Nat
  BY Zenon, <1>2, NumbersAreNat DEF Requests
<1> HIDE DEF e, m
<1>6. CASE e.command \in Steering
  <2>1. c = conn[Steers] /\ word.n < e.n
    BY Zenon, <1>2, <1>6 DEF OneAtATime, OthersAsk, InOrder
  <2>2. word' = e
    BY SMTT(40), <1>1, <1>5, <1>6, <2>1
  <2>3. Tail(inbox[c]) = <<>>
    BY SMTT(40), <1>1, <2>1 DEF OneAtATime, Once
  <2>4. \A d \in Conns : d = conn'[Steers] => Range(inbox'[d]) = {}
    BY Zenon, <1>1, <2>1, <2>3, SetOfEmpty
  <2>5. e.n <= sent
    <3>1. e \in Everywhere
      BY <1>2 DEF Everywhere, Flight
    <3> QED BY SMTT(40), <3>1 DEF Numbered
  <2>6. ASSUME NEW r \in Range(queue), r.command \in Steering PROVE r.n < e.n
    BY SMTT(40), <1>5, <2>1, <2>6 DEF InOrder
  <2>7. ASSUME NEW i \in 1..Len(queue'), NEW j \in 1..Len(queue'), i < j,
               queue'[i].command \in Steering, queue'[j].command \in Steering
        PROVE  queue'[i].n < queue'[j].n
    <3>1. i \in 1..m
      BY SMTT(40), <1>4, <2>7
    <3>2. CASE j = m + 1
      BY Zenon, <1>4, <2>6, <2>7, <3>1, <3>2
    <3>3. CASE j # m + 1
      <4>1. j \in 1..m
        BY SMTT(40), <1>4, <3>3
      <4>2. queue[i].command \in Steering /\ queue[j].command \in Steering
        BY SMTT(40), <1>4, <2>7, <3>1, <4>1
      <4>3. queue[i].n < queue[j].n
        BY <2>7, <3>1, <4>1, <4>2 DEF InOrder, m
      <4> QED BY <1>4, <3>1, <4>1, <4>3
    <3> QED BY SMTT(40), <3>2, <3>3
  <2>8. \A r \in Range(queue') : r.command \in Steering => r.n <= word'.n /\ word' \in Range(queue')
    BY SMTT(40), <1>3, <1>5, <2>2, <2>6
  <2> QED BY Zenon, <1>1, <1>3, <1>6, <2>2, <2>4, <2>5, <2>7, <2>8 DEF InOrder, LastWordWins
<1>7. CASE e.command \notin Steering
  <2>1. word' = word
    BY <1>1, <1>7
  <2>2. ASSUME NEW i \in 1..Len(queue'), NEW j \in 1..Len(queue'), i < j,
               queue'[i].command \in Steering, queue'[j].command \in Steering
        PROVE  queue'[i].n < queue'[j].n
    <3>1. i # m + 1 /\ j # m + 1
      BY Zenon, <1>4, <1>7, <2>2
    <3>2. i \in 1..m /\ j \in 1..m
      BY SMTT(40), <1>4, <3>1
    <3>3. queue[i].command \in Steering /\ queue[j].command \in Steering
      BY SMTT(40), <1>4, <2>2, <3>2
    <3>4. queue[i].n < queue[j].n
      BY SMTT(40), <2>2, <3>2, <3>3 DEF InOrder, m
    <3> QED BY SMTT(40), <1>4, <3>2, <3>4
  <2>3. \A r \in Range(queue') : r.command \in Steering => r.n <= word.n /\ word \in Range(queue')
    BY SMTT(40), <1>3, <1>7 DEF InOrder
  <2>4. \A d \in Conns : Range(inbox'[d]) \subseteq Range(inbox[d])
    BY SMTT(40), <1>1, <1>2
  <2>5. LastWordWins'
    BY <1>1, <1>3, <2>1 DEF LastWordWins, Effect
  <2> QED BY SMTT(40), <1>1, <2>1, <2>2, <2>3, <2>4, <2>5 DEF InOrder
<1> QED BY SMTT(40), <1>6, <1>7

(* The first in the queue runs; the steering commands behind it came later. *)
LEMMA RunInOrder ==
  ASSUME TypeOK, InOrder, LastWordWins, Run
  PROVE  InOrder' /\ LastWordWins'
<1> DEFINE e == Head(queue)
<1>1. /\ queue # <<>> /\ queue' = Tail(queue) /\ queue \in Seq(Requests)
      /\ phase' = Effect(e.command) /\ UNCHANGED <<conn, sent, word>>
  BY RunsFirst DEF TypeOK
<1>2. /\ Len(queue) \in Nat /\ Len(queue') = Len(queue) - 1 /\ e = queue[1] /\ Len(queue) > 0
      /\ \A i \in 1..Len(queue') : queue'[i] = queue[i + 1]
  BY <1>1
<1>3. Range(queue) = Range(queue') \cup {e} /\ e \in Requests
  BY SMTT(40), <1>1, SetOfTail
<1>4. \A d \in Conns : Range(inbox'[d]) \subseteq Range(inbox[d])
  BY Zenon, RunsFirst, TurnEnds, SetOfEmpty
<1>5. word.n \in Nat /\ \A r \in Range(queue) : r.n \in Nat
  BY NumbersAreNat
<1> HIDE DEF e
<1>6. ASSUME NEW r \in Range(queue'), r.command \in Steering
      PROVE  r.n <= word.n /\ word \in Range(queue')
  <2>1. r \in Range(queue)
    BY SMTT(40), <1>3
  <2>2. r.n <= word.n /\ word \in Range(queue)
    BY <2>1, <1>6 DEF InOrder
  <2>3. PICK i \in 1..Len(queue') : r = queue'[i]
    BY <1>1, <1>2 DEF Range
  <2>4. r = queue[i + 1] /\ i + 1 \in 1..Len(queue) /\ 1 \in 1..Len(queue) /\ 1 < i + 1
    BY SMTT(40), <1>2, <2>3
  <2>5. e.command \in Steering => e.n < r.n
    BY SMTT(40), <1>2, <1>6, <2>4 DEF InOrder
  <2>6. word # e
    BY SMTT(40), <1>3, <1>5, <2>1, <2>2, <2>5 DEF InOrder
  <2> QED BY <1>3, <2>2, <2>6
<1>7. ASSUME NEW i \in 1..Len(queue'), NEW j \in 1..Len(queue'), i < j,
             queue'[i].command \in Steering, queue'[j].command \in Steering
      PROVE  queue'[i].n < queue'[j].n
  <2>1. /\ i + 1 \in 1..Len(queue) /\ j + 1 \in 1..Len(queue) /\ i + 1 < j + 1
        /\ queue'[i] = queue[i + 1] /\ queue'[j] = queue[j + 1]
    BY <1>2, <1>7
  <2> QED BY SMTT(40), <1>7, <2>1 DEF InOrder
<1>8. LastWordWins'
  <2> SUFFICES ASSUME \A r \in Range(queue') : r.command \notin Steering
               PROVE  phase' = Effect(word.command)'
    BY <1>1 DEF LastWordWins
  <2>1. CASE e.command \in Steering
    <3>1. word \in Range(queue) /\ word.command \in Steering
      BY <1>3, <2>1 DEF InOrder
    <3>2. word = e
      BY <1>3, <3>1
    <3> QED BY SMTT(40), <1>1, <2>1, <3>2 DEF Effect, Steering
  <2>2. CASE e.command \notin Steering
    <3>1. phase' = phase
      BY <1>1, <2>2 DEF Effect, Steering
    <3>2. phase = Effect(word.command)
      BY SMTT(40), <1>3, <2>2 DEF LastWordWins
    <3> QED BY <1>1, <3>1, <3>2 DEF Effect
  <2> QED BY SMTT(40), <2>1, <2>2
<1> QED BY SMTT(40), <1>1, <1>4, <1>6, <1>7, <1>8 DEF InOrder

(* Every step keeps the queue in the order the commands were given.          *)
LEMMA InOrderStep ==
  TypeOK /\ Numbered /\ Identified /\ OneAtATime /\ InOrder /\ LastWordWins /\ [Next]_vars
    => InOrder' /\ LastWordWins'
<1> SUFFICES ASSUME TypeOK, Numbered, Identified, OneAtATime, InOrder, LastWordWins, [Next]_vars
             PROVE  InOrder' /\ LastWordWins'
  OBVIOUS
<1>0. ASSUME UNCHANGED <<queue, word, phase, sent>>,
             \A d \in Conns : d = conn'[Steers] =>
               \/ Range(inbox'[d]) = {}
               \/ d = conn[Steers] /\ Range(inbox'[d]) \subseteq Range(inbox[d])
      PROVE  InOrder' /\ LastWordWins'
  BY SMTT(40), <1>0 DEF InOrder, LastWordWins, Effect
<1>1. ASSUME NEW p \in Clients, NEW c \in Conns, Connect(p, c) PROVE InOrder' /\ LastWordWins'
  <2>1. /\ UNCHANGED <<queue, word, phase, sent>> /\ conn' = [conn EXCEPT ![p] = c]
        /\ inbox' = [inbox EXCEPT ![c] = <<>>]
    BY SMTT(40), <1>1 DEF Connect
  <2> QED BY SMTT(40), <1>0, <2>1, SetOfEmpty DEF TypeOK
<1>2. ASSUME NEW p \in Clients, NEW command \in Commands(p), Send(p, command)
      PROVE  InOrder' /\ LastWordWins'
  <2> DEFINE e == Request(sent + 1, id[p], conn[p], command)
  <2>1. /\ e.n = sent + 1 /\ sent' = sent + 1 /\ UNCHANGED <<queue, conn>>
        /\ \A d \in Conns : Range(inbox'[d]) \subseteq Range(inbox[d]) \cup {e}
    BY SMTT(40), <1>2, SendEffect
  <2>2. UNCHANGED <<word, phase>>
    BY SMTT(40), <1>2 DEF Send
  <2>3. sent \in Nat /\ word.n \in Nat /\ word.n <= sent
    BY Zenon DEF TypeOK, InOrder, Requests
  <2> HIDE DEF e
  <2>4. LastWordWins'
    BY SMTT(40), <2>1, <2>2 DEF LastWordWins, Effect
  <2>5. word.n <= sent' /\ word.n < e.n
    BY SMTT(40), <2>1, <2>3
  <2>6. \A d \in Conns : d = conn'[Steers] =>
          \A r \in Range(inbox'[d]) : r.command \in Steering => word.n < r.n
    <3>1. \A d \in Conns : d = conn[Steers] =>
            \A r \in Range(inbox[d]) : r.command \in Steering => word.n < r.n
      BY Zenon DEF InOrder
    <3> QED BY Zenon, <2>1, <2>5, <3>1
  <2> QED BY Zenon, <2>1, <2>2, <2>4, <2>5, <2>6 DEF InOrder
<1>3. ASSUME NEW p \in Clients, Receive(p) \/ GiveUp(p) \/ Hangup(p) PROVE InOrder' /\ LastWordWins'
  <2>1. /\ UNCHANGED <<queue, word, phase, sent, inbox>>
        /\ conn' = conn \/ conn' = [conn EXCEPT ![p] = None]
    BY Zenon, <1>3 DEF Receive, GiveUp, Hangup, Errs
  <2> QED BY SMTT(40), <1>0, <2>1 DEF TypeOK
<1>4. ASSUME NEW c \in Conns, Read(c) PROVE InOrder' /\ LastWordWins'
  BY <1>4, ReadInOrder
<1>5. ASSUME NEW c \in Conns, Refuse(c) \/ FrameTimeout(c) \/ CommandTimeout(c)
      PROVE  InOrder' /\ LastWordWins'
  <2>1. UNCHANGED <<queue, word, phase, sent, conn>>
    BY SMTT(40), <1>5 DEF Refuse, FrameTimeout, CommandTimeout
  <2>2. inbox' = [inbox EXCEPT ![c] = <<>>] \/ (inbox' = [inbox EXCEPT ![c] = Tail(@)] /\ inbox[c] # <<>>)
    BY SMTT(40), <1>5 DEF Refuse, FrameTimeout, CommandTimeout, Close
  <2>3. ASSUME NEW d \in Conns PROVE Range(inbox'[d]) \subseteq Range(inbox[d])
    <3>1. CASE d = c /\ inbox[c] # <<>>
      <4>1. inbox[c] \in Seq(Requests) /\ (inbox'[c] = <<>> \/ inbox'[c] = Tail(inbox[c]))
        BY <2>2, <3>1 DEF TypeOK
      <4>2. Range(Tail(inbox[c])) \subseteq Range(inbox[c])
        BY <3>1, <4>1, SetOfTail
      <4> QED BY <3>1, <4>1, <4>2, SetOfEmpty
    <3>2. CASE ~ (d = c /\ inbox[c] # <<>>)
      BY <2>2, <3>2 DEF TypeOK
    <3> QED BY <3>1, <3>2
  <2> QED BY Zenon, <1>0, <2>1, <2>3
<1>6. CASE Run
  BY SMTT(40), <1>6, RunInOrder
<1>7. CASE UNCHANGED vars
  BY <1>0, <1>7 DEF vars
<1> QED
  BY <1>1, <1>2, <1>3, <1>4, <1>5, <1>6, <1>7 DEF Next, ClientStep, SessionStep

(* Before any command the order holds.                                       *)
LEMMA InOrderInit == Init => OneAtATime /\ InOrder /\ LastWordWins
  BY SetOfEmpty
     DEF Init, OneAtATime, Drained, OthersAsk, InOrder, LastWordWins, Effect, Request, Steering

(* What the user last asked for is what holds once the queue for the        *)
(* manager's lock has drained: a command that outlived its connection in    *)
(* server.rs keeps its place, so it never undoes a later one.               *)
THEOREM LastWordHolds == Spec => []LastWordWins
<1> DEFINE Inv == TypeOK /\ Numbered /\ Identified /\ OneAtATime /\ InOrder /\ LastWordWins
<1>1. Init => Inv
  BY IdentifiedInit, InOrderInit
<1>2. Inv /\ [Next]_vars => Inv'
  BY TypeStep, NumberedStep, IdentifiedStep, OneAtATimeStep, InOrderStep
<1> QED BY <1>1, <1>2, PTL DEF Spec

=============================================================================
