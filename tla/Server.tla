------------------------------- MODULE Server -------------------------------
(***************************************************************************)
(* The daemon's socket and its clients: main.rs accepts a connection into  *)
(* one of a few slots, server.rs serves requests on it one at a time, the  *)
(* controller runs each command under the manager's lock, and              *)
(* core/daemon_client.rs sends a request and waits for the answer.         *)
(*                                                                         *)
(* A command runs in a task of its own. When it takes too long the         *)
(* connection is dropped and the command is not: it keeps its place in the *)
(* queue for the lock and takes effect later. Timeouts are steps that may  *)
(* happen whenever the code waits under one.                               *)
(***************************************************************************)
EXTENDS Naturals, Sequences, FiniteSets, Functions

CONSTANTS
  Clients,
  Steers,        \* the client whose commands change the connection
  Conns,         \* connections that can exist at one time
  None,
  Slots,         \* MAX_CONCURRENT_CLIENTS
  MaxRequests,   \* MAX_REQUESTS_PER_CONNECTION
  Reuses,        \* the clients that go on with their connection after an error
  MaxSent        \* bound: requests sent in all

Steering == {"connect", "disconnect"}

(* A request, with its number, operation id and connection.                 *)
Requests == [n: Nat, op: Nat, conn: Conns \cup {None},
             command: {"status", "bad"} \cup Steering]

ASSUME ServerAssumption ==
  /\ Slots \in Nat /\ MaxRequests \in Nat \ {0}
  /\ Steers \in Clients /\ Reuses \subseteq Clients \ {Steers}
  /\ None \notin Conns /\ None \notin Requests

VARIABLES
  session,   \* the daemon's end of each connection: none, reading, handling
  task,      \* the number of the request it handles, or 0
  served,    \* requests read on it
  inbox,     \* requests on their way to the daemon
  outbox,    \* answers on their way to the client
  closed,    \* the daemon's end is gone and the client can see it
  conn,      \* each client's connection
  id,        \* its next operation id on that connection
  waits,     \* the request it waits for the answer to
  sent,      \* history: requests sent in all; each has a number
  queue,     \* commands waiting for the manager's lock, in order
  phase,     \* the connection is "on" or "off"
  word,      \* history: the latest sent of the connects and disconnects read
  answer     \* history: request and answer of the last accepted result

vars == <<session, task, served, inbox, outbox, closed, conn, id, waits, sent,
          queue, phase, word, answer>>

Commands(p) == {"status", "bad"} \cup IF p = Steers THEN Steering ELSE {}

Request(n, op, c, command) == [n |-> n, op |-> op, conn |-> c, command |-> command]

Live == {c \in Conns : session[c] # "none"}

Init ==
  /\ session = [c \in Conns |-> "none"] /\ task = [c \in Conns |-> 0]
  /\ served = [c \in Conns |-> 0]
  /\ inbox = [c \in Conns |-> <<>>] /\ outbox = [c \in Conns |-> <<>>]
  /\ closed = [c \in Conns |-> FALSE]
  /\ conn = [p \in Clients |-> None]
  /\ id = [p \in Clients |-> 1]
  /\ waits = [p \in Clients |-> None]
  /\ sent = 0 /\ queue = <<>> /\ phase = "off" /\ answer = None
  /\ word = Request(0, 0, None, "disconnect")

(***************************************************************************)
(* The client                                                              *)
(***************************************************************************)

(* A slot is free: try_acquire_owned.                                       *)
Admitted == Cardinality(Live) < Slots

(* connect, accept and SO_PEERCRED: a connection without a slot is dropped  *)
(* at once and the client tries again.                                      *)
Connect(p, c) ==
  /\ conn[p] = None
  /\ session[c] = "none" /\ \A q \in Clients : conn[q] # c
  /\ Admitted
  /\ session' = [session EXCEPT ![c] = "reading"]
  /\ served' = [served EXCEPT ![c] = 0]
  /\ inbox' = [inbox EXCEPT ![c] = <<>>]
  /\ outbox' = [outbox EXCEPT ![c] = <<>>]
  /\ closed' = [closed EXCEPT ![c] = FALSE]
  /\ conn' = [conn EXCEPT ![p] = c]
  /\ id' = [id EXCEPT ![p] = 1]
  /\ UNCHANGED <<task, waits, sent, queue, phase, word, answer>>

(* request: the frame is written, whether or not the daemon still reads.    *)
Send(p, command) ==
  LET c == conn[p] IN
  /\ c # None /\ waits[p] = None /\ sent < MaxSent /\ ~closed[c]
  /\ sent' = sent + 1
  /\ LET request == Request(sent', id[p], c, command)
     IN /\ waits' = [waits EXCEPT ![p] = request]
        /\ inbox' = [inbox EXCEPT ![c] = Append(@, request)]
  /\ id' = [id EXCEPT ![p] = @ + 1]
  /\ UNCHANGED <<session, task, served, outbox, closed, conn, queue, phase, word, answer>>

(* Mutated: the operation id is not compared.                               *)
Matches_Any(response, request) == TRUE

(* An answer is taken for the request with its operation id.                *)
Matches(response, request) == response.op = request.op

(* After an error the commands of the client drop the DaemonClient; its     *)
(* interface would let a caller go on.                                      *)
Errs(p) == conn' = IF p \in Reuses THEN conn ELSE [conn EXCEPT ![p] = None]

(* The end of request: Ok, the daemon's error, or OperationMismatch.        *)
Receive(p) ==
  LET c == conn[p] IN
  /\ c # None /\ waits[p] # None /\ outbox[c] # <<>>
  /\ LET response == Head(outbox[c])
     IN IF Matches(response, waits[p]) /\ response.command # "bad"
        THEN answer' = [asked |-> waits[p].n, got |-> response.n] /\ UNCHANGED conn
        ELSE Errs(p) /\ UNCHANGED answer
  /\ outbox' = [outbox EXCEPT ![c] = Tail(@)]
  /\ waits' = [waits EXCEPT ![p] = None]
  /\ UNCHANGED <<session, task, served, inbox, closed, id, sent, queue, phase, word>>

(* No answer in time, by when the daemon has read the request, or the       *)
(* connection is gone.                                                      *)
GiveUp(p) ==
  /\ waits[p] # None
  /\ inbox[conn[p]] = <<>> \/ closed[conn[p]]
  /\ waits' = [waits EXCEPT ![p] = None]
  /\ Errs(p)
  /\ UNCHANGED <<session, task, served, inbox, outbox, closed, id, sent, queue,
                 phase, word, answer>>

Hangup(p) ==
  /\ conn[p] # None /\ waits[p] = None
  /\ conn' = [conn EXCEPT ![p] = None]
  /\ UNCHANGED <<session, task, served, inbox, outbox, closed, id, waits, sent, queue, phase, word, answer>>

(***************************************************************************)
(* The daemon                                                              *)
(***************************************************************************)
Close(c) ==
  /\ session' = [session EXCEPT ![c] = "none"]
  /\ task' = [task EXCEPT ![c] = 0]
  /\ closed' = [closed EXCEPT ![c] = TRUE]
  /\ inbox' = [inbox EXCEPT ![c] = <<>>]

(* The next turn of the loop, or its end.                                   *)
Continue(c) ==
  IF served[c] = MaxRequests THEN Close(c)
  ELSE /\ session' = [session EXCEPT ![c] = "reading"]
       /\ task' = [task EXCEPT ![c] = 0]
       /\ UNCHANGED <<closed, inbox>>

(* A frame arrives and its command becomes a task that queues for the lock. *)
Read(c) ==
  /\ session[c] = "reading" /\ inbox[c] # <<>>
  /\ LET request == Head(inbox[c])
     IN /\ request.command # "bad"
        /\ queue' = Append(queue, request)
        /\ task' = [task EXCEPT ![c] = request.n]
        /\ word' = IF request.command \in Steering /\ request.n > word.n
                   THEN request ELSE word
  /\ session' = [session EXCEPT ![c] = "handling"]
  /\ served' = [served EXCEPT ![c] = @ + 1]
  /\ inbox' = [inbox EXCEPT ![c] = Tail(@)]
  /\ UNCHANGED <<outbox, closed, conn, id, waits, sent, phase, answer>>

(* A request that does not decode is answered with the id it had, and       *)
(* counts as one.                                                           *)
Refuse(c) ==
  /\ session[c] = "reading" /\ inbox[c] # <<>>
  /\ Head(inbox[c]).command = "bad"
  /\ served' = [served EXCEPT ![c] = @ + 1]
  /\ outbox' = [outbox EXCEPT ![c] = Append(@, Head(inbox[c]))]
  /\ IF served'[c] = MaxRequests THEN Close(c)
     ELSE inbox' = [inbox EXCEPT ![c] = Tail(@)] /\ UNCHANGED <<session, task, closed>>
  /\ UNCHANGED <<conn, id, waits, sent, queue, phase, word, answer>>

(* Mutated: the last to ask for the lock gets it first.                     *)
NextToRun_Last == Len(queue)

(* tokio's Mutex is fair: the first to ask gets it. The place in the queue. *)
NextToRun == 1

Without(s, k) == SubSeq(s, 1, k - 1) \o SubSeq(s, k + 1, Len(s))

Effect(command) ==
  CASE command = "connect" -> "on" [] command = "disconnect" -> "off" [] OTHER -> phase

(* The command has the lock and runs to its end. Its result is written to   *)
(* the connection if that still waits for it.                               *)
Run ==
  /\ queue # <<>>
  /\ LET request == queue[NextToRun]
         c == request.conn
     IN /\ phase' = Effect(request.command)
        /\ queue' = Without(queue, NextToRun)
        /\ IF task[c] = request.n
           THEN outbox' = [outbox EXCEPT ![c] = Append(@, request)] /\ Continue(c)
           ELSE UNCHANGED <<outbox, session, task, closed, inbox>>
  /\ UNCHANGED <<served, conn, id, waits, sent, word, answer>>

(* No frame within FRAME_IO_TIMEOUT, or the client hung up.                 *)
FrameTimeout(c) ==
  /\ session[c] = "reading" /\ inbox[c] = <<>>
  /\ Close(c)
  /\ UNCHANGED <<served, outbox, conn, id, waits, sent, queue, phase, word, answer>>

(* Mutated: the connection waits for as long as the command takes.          *)
CommandTimeout_Never(c) == FALSE /\ UNCHANGED vars

(* COMMAND_TIMEOUT: the connection goes, the command stays.                 *)
CommandTimeout(c) ==
  /\ session[c] = "handling"
  /\ Close(c)
  /\ UNCHANGED <<served, outbox, conn, id, waits, sent, queue, phase, word, answer>>

ClientStep(p) ==
  \/ \E c \in Conns : Connect(p, c)
  \/ \E command \in Commands(p) : Send(p, command)
  \/ Receive(p) \/ GiveUp(p) \/ Hangup(p)

SessionStep(c) == Read(c) \/ Refuse(c) \/ FrameTimeout(c) \/ CommandTimeout(c)

Next ==
  \/ \E p \in Clients : ClientStep(p)
  \/ \E c \in Conns : SessionStep(c)
  \/ Run

Spec == Init /\ [][Next]_vars

(* Timers fire. Nothing is assumed of the commands: one may hang.           *)
FairSpec == Spec /\ \A c \in Conns : WF_vars(SessionStep(c))

(***************************************************************************)
(* Properties                                                              *)
(***************************************************************************)

(* A result that the client accepts is that of the request it waits for,    *)
(* also when answers to requests it gave up on arrive first.                *)
AnswersMatch == answer # None => answer.asked = answer.got

(* What the user last asked for is what holds once the queue has drained:   *)
(* a command that outlived its connection never undoes a later one.         *)
LastWordWins ==
  (\A r \in Range(queue) : r.command \notin Steering) => phase = Effect(word.command)

(* Every connection gives its slot back, however long its commands take.    *)
SessionsEnd == \A c \in Conns : session[c] # "none" ~> session[c] = "none"
=============================================================================
