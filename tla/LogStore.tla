------------------------------ MODULE LogStore ------------------------------
(***************************************************************************)
(* The daemon's log of Xray (daemon/src/log_store.rs): a current file and  *)
(* three rotated ones. A file is the sequence of the bytes in it, and a    *)
(* byte is its place in all that was ever logged. Appends and clears run   *)
(* one at a time, under the store's lock; the daemon may end, or a file    *)
(* operation fail, between any two of their steps, and the next append     *)
(* starts over on what is there.                                           *)
(***************************************************************************)
EXTENDS Naturals, Sequences

CONSTANTS
  MaxBytes,   \* MAX_LOG_BYTES
  MaxChunk,   \* the largest read of pump_xray_log
  Rotated,    \* ROTATED_LOGS
  MaxTotal    \* bound: bytes logged in all

ASSUME LogAssumption ==
  MaxBytes \in Nat /\ MaxChunk \in 1..MaxBytes /\ Rotated \in Nat \ {0}

VARIABLES
  file,       \* 0: current; i: rotated i times; empty when it does not exist
  step,       \* what runs: an append at a step of its rotation, a clear, nothing
  chunk,      \* bytes to append
  total,      \* history: bytes logged so far
  wiped       \* history: bytes logged before the last clear began

vars == <<file, step, chunk, total, wiped>>

Files == 0..Rotated

Idle == [doing |-> "nothing", at |-> 0]
Removing == [doing |-> "remove", at |-> 0]
Rotating(i) == [doing |-> "rotate", at |-> i]
Writing == [doing |-> "write", at |-> 0]
Clearing(i) == [doing |-> "clear", at |-> i]

Init ==
  /\ file = [i \in Files |-> <<>>]
  /\ step = Idle /\ chunk = 0 /\ total = 0 /\ wiped = 0

Overflows(n) == Len(file[0]) + n > MaxBytes

(* append: rotate first when the bytes do not fit.                          *)
AppendBytes(n) ==
  /\ step = Idle /\ total + n <= MaxTotal
  /\ step' = IF Overflows(n) THEN Removing ELSE Writing
  /\ chunk' = n
  /\ UNCHANGED <<file, total, wiped>>

(* Mutated: the newest is renamed first, over the next.                     *)
Rename_Ascending ==
  /\ step.doing = "rotate"
  /\ LET from == Rotated - step.at IN
     /\ file' = [file EXCEPT ![from + 1] = file[from], ![from] = <<>>]
     /\ step' = IF step.at = 1 THEN Writing ELSE Rotating(step.at - 1)
  /\ UNCHANGED <<chunk, total, wiped>>

(* The end of rotate, from the oldest down: a file takes the name of the    *)
(* one that is older by one; a file that is not there is no error.          *)
Rename ==
  /\ step.doing = "rotate"
  /\ LET to == step.at IN
     /\ file' = IF file[to - 1] = <<>> THEN file
                ELSE [file EXCEPT ![to] = file[to - 1], ![to - 1] = <<>>]
     /\ step' = IF to = 1 THEN Writing ELSE Rotating(to - 1)
  /\ UNCHANGED <<chunk, total, wiped>>

(* The start of rotate.                                                     *)
RemoveOldest ==
  /\ step.doing = "remove"
  /\ file' = [file EXCEPT ![Rotated] = <<>>]
  /\ step' = Rotating(Rotated)
  /\ UNCHANGED <<chunk, total, wiped>>

Write ==
  /\ step = Writing
  /\ file' = [file EXCEPT ![0] = @ \o [k \in 1..chunk |-> total + k]]
  /\ total' = total + chunk
  /\ step' = Idle /\ chunk' = 0
  /\ UNCHANGED wiped

StartClear ==
  /\ step = Idle
  /\ step' = Clearing(0) /\ wiped' = total
  /\ UNCHANGED <<file, chunk, total>>

(* clear: the current file first, then the rotated ones.                    *)
Clear ==
  /\ step.doing = "clear"
  /\ file' = [file EXCEPT ![step.at] = <<>>]
  /\ step' = IF step.at = Rotated THEN Idle ELSE Clearing(step.at + 1)
  /\ UNCHANGED <<chunk, total, wiped>>

(* The daemon ends, or an operation fails and the error is returned.        *)
Cut ==
  /\ step # Idle
  /\ step' = Idle /\ chunk' = 0
  /\ UNCHANGED <<file, total, wiped>>

Next ==
  \/ \E n \in 1..MaxChunk : AppendBytes(n)
  \/ RemoveOldest \/ Rename \/ Write \/ StartClear \/ Clear \/ Cut

Spec == Init /\ [][Next]_vars

(***************************************************************************)
(* Properties                                                              *)
(***************************************************************************)

(* The places of the bytes in the files.                                    *)
Kept == {p \in Files \X (1..MaxBytes) : p[2] <= Len(file[p[1]])}

Byte(p) == file[p[1]][p[2]]

(* p comes before q when the files are read from the oldest to the current. *)
Older(p, q) == p[1] > q[1] \/ (p[1] = q[1] /\ p[2] < q[2])

(* The files, read from the oldest to the current one, are in the order of  *)
(* logging, and hold every byte that was logged after the oldest they hold, *)
(* wherever a rotation was cut; only a clear that was cut leaves a gap. No  *)
(* file outgrows MAX_LOG_BYTES (log_store.rs:24-38, 76-100).                *)
LogIsASuffix ==
  /\ \A i \in Files : Len(file[i]) <= MaxBytes
  /\ \A p, q \in Kept : Older(p, q) => Byte(p) < Byte(q)
  /\ \A p \in Kept : Byte(p) > wiped => Byte(p)..total \subseteq {Byte(q) : q \in Kept}
=============================================================================
