--------------------------- MODULE LogStoreProofs ---------------------------
(***************************************************************************)
(* Why the log files always hold the latest bytes in order, for any size   *)
(* and number of files, wherever a rotation or a clear is cut short.       *)
(***************************************************************************)
EXTENDS LogStore, TLAPS

USE LogAssumption

Steps ==
  {Idle, Removing, Writing} \cup {Rotating(i) : i \in 1..Rotated}
    \cup {Clearing(i) : i \in Files}

TypeOK ==
  /\ file \in [Files -> Seq(Nat)] /\ step \in Steps
  /\ chunk \in 0..MaxChunk /\ total \in Nat /\ wiped \in Nat

Places(i) == 1..Len(file[i])

(* No file is too large, and none will be: the current one has room for the *)
(* bytes that are about to be written.                                      *)
Bounded ==
  /\ \A i \in Files : Len(file[i]) <= MaxBytes
  /\ step = Writing => Len(file[0]) + chunk <= MaxBytes

Ordered ==
  /\ \A i \in Files : \A k \in Places(i) : file[i][k] <= total
  /\ \A i, j \in Files : \A k \in Places(i), m \in Places(j) :
       i > j \/ (i = j /\ k < m) => file[i][k] < file[j][m]

(* Nothing is missing after a byte that was logged since the last clear.    *)
Whole ==
  \A i \in Files : \A k \in Places(i) : file[i][k] > wiped =>
    \A b \in file[i][k]..total : \E j \in Files : \E m \in Places(j) : file[j][m] = b

(* A rename has nothing to overwrite, and a clear goes with bytes that were *)
(* logged before it.                                                        *)
Safe ==
  /\ \A i \in 1..Rotated : step = Rotating(i) => file[i] = <<>>
  /\ step.doing = "clear" => wiped = total

IInv == TypeOK /\ Bounded /\ Ordered /\ Whole /\ Safe

(* What the position of a step says about the step the writer is at.         *)
LEMMA StepForms ==
  ASSUME step \in Steps
  PROVE  /\ step.doing = "rotate" => step.at \in 1..Rotated /\ step = Rotating(step.at)
         /\ step.doing = "clear" => step.at \in Files /\ step = Clearing(step.at)
         /\ step.doing = "remove" => step = Removing
  BY DEF Steps, Idle, Removing, Writing, Rotating, Clearing

(* The empty log satisfies the inductive invariant.                          *)
LEMMA Initially == Init => IInv
<1> SUFFICES ASSUME Init PROVE IInv
  OBVIOUS
<1>1. TypeOK
  BY DEF Init, TypeOK, Steps
<1>2. \A i \in Files : file[i] = <<>> /\ Len(file[i]) = 0 /\ Places(i) = {}
  BY DEF Init, Places
<1>3. 0 \in Files
  BY DEF Files
<1>4. step = Idle /\ step.doing = "nothing"
  BY DEF Init, Idle
<1> QED BY <1>1, <1>2, <1>3, <1>4 DEF IInv, Bounded, Ordered, Whole, Safe, Idle, Writing, Rotating

(* A file that goes leaves the others in order.                             *)
LEMMA GoneInOrder ==
  ASSUME TypeOK, Bounded, Ordered, NEW f \in Files, file' = [file EXCEPT ![f] = <<>>],
         UNCHANGED total
  PROVE  /\ file' \in [Files -> Seq(Nat)] /\ Ordered'
         /\ \A i \in Files : Len(file'[i]) <= MaxBytes
<1>1. file'[f] = <<>> /\ \A i \in Files : i # f => file'[i] = file[i]
  BY DEF TypeOK
<1>2. Places(f)' = {} /\ \A i \in Files : i # f => Places(i)' = Places(i)
  BY <1>1 DEF Places
<1>3. Ordered'
  BY <1>1, <1>2 DEF Ordered
<1> QED BY <1>1, <1>3 DEF Bounded, TypeOK

(* Removing the oldest file keeps the log a suffix of what was written.      *)
LEMMA RemoveStep == IInv /\ RemoveOldest => IInv'
<1> SUFFICES ASSUME IInv, RemoveOldest PROVE IInv'
  OBVIOUS
<1> USE DEF IInv
<1>1. /\ Rotated \in Files /\ file' = [file EXCEPT ![Rotated] = <<>>]
      /\ step' = Rotating(Rotated) /\ UNCHANGED <<chunk, total, wiped>>
  BY DEF RemoveOldest, Files
<1>2. /\ file' \in [Files -> Seq(Nat)] /\ Ordered'
      /\ \A i \in Files : Len(file'[i]) <= MaxBytes
  BY Zenon, <1>1, GoneInOrder
<1>3. TypeOK'
  BY <1>1, <1>2 DEF TypeOK, Steps
<1>4. Bounded' /\ Safe'
  BY <1>1, <1>2 DEF Bounded, Safe, TypeOK, Writing, Rotating
<1>5. Whole'
  <2>1. \A i \in Files : i # Rotated => file'[i] = file[i] /\ Places(i)' = Places(i) /\ i < Rotated
    BY <1>1 DEF TypeOK, Places, Files
  <2>2. Places(Rotated)' = {}
    BY <1>1 DEF Places, TypeOK
  <2> SUFFICES ASSUME NEW i \in Files, NEW k \in Places(i)', file'[i][k] > wiped,
                      NEW b \in file'[i][k]..total
               PROVE  \E j \in Files : \E m \in Places(j)' : file'[j][m] = b
    BY <1>1 DEF Whole
  <2>3. i # Rotated /\ k \in Places(i) /\ file'[i][k] = file[i][k]
    BY <2>1, <2>2
  <2>4. PICK j \in Files : \E m \in Places(j) : file[j][m] = b
    BY <2>3 DEF Whole
  <2>5. PICK m \in Places(j) : file[j][m] = b
    BY <2>4
  <2>6. j # Rotated
    <3> SUFFICES ASSUME j = Rotated PROVE FALSE
      OBVIOUS
    <3>1. file[j][m] < file[i][k]
      BY <1>1, <2>1, <2>3, <2>5 DEF Ordered
    <3>2. file[i][k] \in Nat
      BY <2>3 DEF TypeOK, Places
    <3> QED BY <2>3, <2>5, <3>1, <3>2
  <2> QED BY <2>1, <2>5, <2>6
<1> QED BY <1>2, <1>3, <1>4, <1>5

(* Each rename of a rotation keeps the files in their order.                 *)
LEMMA RenameStep == IInv /\ Rename => IInv'
<1> SUFFICES ASSUME IInv, Rename PROVE IInv'
  OBVIOUS
<1> USE DEF IInv
<1>1. PICK to \in 1..Rotated : to = step.at /\ step = Rotating(to) /\ file[to] = <<>>
  BY StepForms DEF Rename, TypeOK, Safe
<1> DEFINE from == to - 1
<1>2. to \in Files /\ from \in Files /\ to # from /\ to = from + 1
  BY <1>1 DEF Files
<1>3. /\ step' = IF to = 1 THEN Writing ELSE Rotating(to - 1)
      /\ UNCHANGED <<chunk, total, wiped>>
      /\ \/ file' = file /\ file[from] = <<>>
         \/ file' = [file EXCEPT ![to] = file[from], ![from] = <<>>]
  BY <1>1 DEF Rename
<1>4. /\ file' \in [Files -> Seq(Nat)] /\ file'[to] = file[from] /\ file'[from] = <<>>
      /\ \A i \in Files : i # to /\ i # from => file'[i] = file[i]
  <2> HIDE DEF from
  <2>1. file \in [Files -> Seq(Nat)] /\ file[from] \in Seq(Nat) /\ <<>> \in Seq(Nat)
    BY <1>2 DEF TypeOK
  <2>2. CASE file' = file /\ file[from] = <<>>
    BY <1>1, <2>1, <2>2
  <2>3. CASE file' = [file EXCEPT ![to] = file[from], ![from] = <<>>]
    BY <1>2, <2>1, <2>3
  <2> QED BY <1>3, <2>2, <2>3
<1>5. step' \in Steps
  <2>1. to # 1 => to - 1 \in 1..Rotated
    OBVIOUS
  <2> QED BY <1>3, <2>1 DEF Steps
<1> HIDE DEF from
<1>6. TypeOK'
  BY <1>3, <1>4, <1>5 DEF TypeOK
<1>7. /\ Places(to)' = Places(from) /\ Places(from)' = {} /\ Places(to) = {}
      /\ \A i \in Files : i # to /\ i # from => Places(i)' = Places(i)
  BY <1>1, <1>4 DEF Places
<1>8. Bounded'
  <2>1. \A i \in Files : Len(file'[i]) <= MaxBytes
    <3>1. Len(file'[from]) = 0
      BY <1>4
    <3>2. ASSUME NEW i \in Files PROVE Len(file'[i]) <= MaxBytes
      <4>1. CASE i = from
        BY <3>1, <4>1
      <4>2. CASE i = to
        BY <1>2, <1>4, <4>2 DEF Bounded
      <4>3. CASE i # from /\ i # to
        BY <1>4, <4>3 DEF Bounded
      <4> QED BY <4>1, <4>2, <4>3
    <3> QED BY <3>2
  <2>2. step' = Writing => Len(file'[0]) + chunk' <= MaxBytes
    <3>1. step' = Writing => to = 1
      BY <1>3 DEF Writing, Rotating
    <3>2. to = 1 => file'[0] = <<>> /\ Len(file'[0]) = 0
      BY <1>2, <1>4 DEF from
    <3> QED BY <1>3, <3>1, <3>2 DEF TypeOK
  <2> QED BY <2>1, <2>2 DEF Bounded
<1>9. Ordered'
  <2>1. ASSUME NEW i \in Files, NEW k \in Places(i)' PROVE file'[i][k] <= total
    BY <1>2, <1>4, <1>7 DEF Ordered
  <2>2. ASSUME NEW i \in Files, NEW j \in Files, NEW k \in Places(i)', NEW m \in Places(j)',
               i > j \/ (i = j /\ k < m)
        PROVE  file'[i][k] < file'[j][m]
    <3> DEFINE Old(f) == IF f = to THEN from ELSE f
    <3>1. \A f \in Files : Places(f)' # {} =>
            Old(f) \in Files /\ Places(f)' = Places(Old(f)) /\ file'[f] = file[Old(f)] /\ f # from
      BY <1>2, <1>4, <1>7
    <3>2. Old(i) > Old(j) \/ (Old(i) = Old(j) /\ k < m)
      BY <1>2, <2>2, <3>1 DEF Files
    <3> HIDE DEF Old
    <3> QED BY <3>1, <3>2 DEF Ordered
  <2> QED BY <1>3, <2>1, <2>2 DEF Ordered
<1>10. Whole'
  <2> SUFFICES ASSUME NEW i \in Files, NEW k \in Places(i)', file'[i][k] > wiped,
                      NEW b \in file'[i][k]..total
               PROVE  \E j \in Files : \E m \in Places(j)' : file'[j][m] = b
    BY <1>3 DEF Whole
  <2>1. \E f \in Files : k \in Places(f) /\ file[f][k] = file'[i][k]
    BY Zenon, <1>2, <1>4, <1>7
  <2>2. PICK j \in Files : \E m \in Places(j) : file[j][m] = b
    BY <2>1 DEF Whole
  <2>3. PICK m \in Places(j) : file[j][m] = b
    BY <2>2
  <2>4. CASE j = from
    BY <1>2, <1>4, <1>7, <2>3, <2>4
  <2>5. CASE j # from
    BY <1>4, <1>7, <2>3, <2>5
  <2> QED BY <2>4, <2>5
<1>11. Safe'
  <2>1. step'.doing # "clear"
    BY <1>3 DEF Writing, Rotating
  <2>2. ASSUME NEW i \in 1..Rotated, step' = Rotating(i) PROVE file'[i] = <<>>
    <3>1. i = to - 1
      BY <1>3, <2>2 DEF Writing, Rotating
    <3> QED BY <1>4, <3>1 DEF from
  <2> QED BY <2>1, <2>2 DEF Safe
<1> QED BY <1>6, <1>8, <1>9, <1>10, <1>11

(* Elements of a concatenation, by their position.                           *)
LEMMA Joined ==
  ASSUME NEW s \in Seq(Nat), NEW t \in Seq(Nat)
  PROVE  /\ s \o t \in Seq(Nat) /\ Len(s \o t) = Len(s) + Len(t)
         /\ \A k \in 1..Len(s) : (s \o t)[k] = s[k]
         /\ \A k \in 1..(Len(s) + Len(t)) : k > Len(s) => (s \o t)[k] = t[k - Len(s)]
  OBVIOUS

(* A write appends the next chunk to the newest file.                        *)
LEMMA WriteStep == IInv /\ Write => IInv'
<1> SUFFICES ASSUME IInv, Write PROVE IInv'
  OBVIOUS
<1> USE DEF IInv
<1> DEFINE new == [k \in 1..chunk |-> total + k]
           n == Len(file[0])
<1>1. /\ step = Writing /\ file' = [file EXCEPT ![0] = file[0] \o new]
      /\ total' = total + chunk /\ step' = Idle /\ chunk' = 0 /\ UNCHANGED wiped
  BY DEF Write
<1>2. 0 \in Files /\ file[0] \in Seq(Nat) /\ n \in Nat /\ chunk \in Nat /\ total \in Nat /\ wiped \in Nat
  BY DEF TypeOK, Files
<1>3. new \in Seq(Nat) /\ Len(new) = chunk
  BY <1>2
<1>4. /\ file[0] \o new \in Seq(Nat) /\ Len(file[0] \o new) = n + chunk
      /\ \A k \in 1..n : (file[0] \o new)[k] = file[0][k]
      /\ \A k \in 1..(n + chunk) : k > n => (file[0] \o new)[k] = total + (k - n)
  <2>1. \A j \in 1..chunk : new[j] = total + j
    OBVIOUS
  <2> HIDE DEF new
  <2>2. /\ file[0] \o new \in Seq(Nat) /\ Len(file[0] \o new) = n + chunk
        /\ \A k \in 1..n : (file[0] \o new)[k] = file[0][k]
    BY Zenon, <1>2, <1>3, Joined
  <2>3. ASSUME NEW k \in 1..(n + chunk), k > n
        PROVE  (file[0] \o new)[k] = total + (k - n)
    <3>1. k - n \in 1..chunk
      BY <1>2, <2>3
    <3>2. (file[0] \o new)[k] = new[k - n]
      BY <1>2, <1>3, <2>3, Joined
    <3> QED BY <2>1, <3>1, <3>2
  <2> QED BY <2>2, <2>3
<1>5. /\ file' \in [Files -> Seq(Nat)] /\ Len(file'[0]) = n + chunk
      /\ \A k \in 1..n : file'[0][k] = file[0][k]
      /\ \A k \in 1..(n + chunk) : k > n => file'[0][k] = total + (k - n)
      /\ \A i \in Files : i # 0 => file'[i] = file[i]
  BY <1>1, <1>2, <1>4 DEF TypeOK
<1>6. TypeOK'
  BY <1>1, <1>2, <1>5 DEF TypeOK, Steps
<1>7. Bounded'
  BY <1>1, <1>2, <1>5 DEF Bounded, Idle, Writing
<1>8. PICK m \in Nat : m = n
  BY <1>2
<1> HIDE DEF new, n
<1>9. /\ Places(0) = 1..m /\ Places(0)' = 1..(m + chunk)
      /\ \A i \in Files : i # 0 => Places(i)' = Places(i)
  BY <1>5, <1>8 DEF Places, n
<1>10. \A i \in Files : \A k \in Places(i)' :
         /\ file'[i][k] \in Nat
         /\ \/ k \in Places(i) /\ file'[i][k] = file[i][k]
            \/ i = 0 /\ k > m /\ k <= m + chunk /\ file'[i][k] = total + (k - m)
  <2> TAKE i \in Files
  <2> TAKE k \in Places(i)'
  <2>1. k \in Nat /\ file'[i] \in Seq(Nat) /\ file'[i][k] \in Nat
    BY <1>5 DEF Places
  <2>2. CASE i # 0
    BY <1>5, <1>9, <2>1, <2>2
  <2>3. CASE i = 0
    BY <1>2, <1>5, <1>8, <1>9, <2>1, <2>3
  <2> QED BY <2>2, <2>3
<1>11. \A i \in Files : \A k \in Places(i) :
         file[i][k] \in Nat /\ file[i][k] <= total /\ k \in Places(i)' /\ file'[i][k] = file[i][k]
  <2> TAKE i \in Files
  <2> TAKE k \in Places(i)
  <2>1. file[i][k] \in Nat /\ file[i][k] <= total
    BY DEF Places, TypeOK, Ordered
  <2>2. CASE i # 0
    BY <1>5, <1>9, <2>1, <2>2
  <2>3. CASE i = 0
    BY <1>2, <1>5, <1>8, <1>9, <2>1, <2>3
  <2> QED BY <2>2, <2>3
<1>12. Ordered'
  <2>1. ASSUME NEW i \in Files, NEW k \in Places(i)' PROVE file'[i][k] <= total'
    BY SMTT(40), <1>1, <1>2, <1>10, <1>11 DEF Places
  <2>2. ASSUME NEW i \in Files, NEW j \in Files, NEW k \in Places(i)', NEW l \in Places(j)',
               i > j \/ (i = j /\ k < l)
        PROVE  file'[i][k] < file'[j][l]
    <3>1. k \in Nat /\ l \in Nat /\ i \in Nat /\ j \in Nat
      BY DEF Places, Files
    <3>2. CASE l \in Places(j)
      <4>1. k \in Places(i)
        BY <1>8, <1>9, <1>10, <2>2, <3>1, <3>2 DEF Files
      <4>2. file[i][k] < file[j][l]
        BY <2>2, <3>2, <4>1 DEF Ordered
      <4> QED BY <1>11, <3>2, <4>1, <4>2
    <3>3. CASE l \notin Places(j)
      <4>1. j = 0 /\ l > m /\ file'[j][l] = total + (l - m)
        BY <1>10, <3>3
      <4>2. CASE k \in Places(i)
        BY <1>2, <1>8, <1>11, <3>1, <4>1, <4>2
      <4>3. CASE k \notin Places(i)
        <5>1. i = 0 /\ file'[i][k] = total + (k - m)
          BY <1>10, <4>3
        <5> QED BY <1>2, <1>8, <2>2, <3>1, <4>1, <5>1
      <4> QED BY <4>2, <4>3
    <3> QED BY <3>2, <3>3
  <2> QED BY <2>1, <2>2 DEF Ordered
<1>13. Whole'
  <2> SUFFICES ASSUME NEW i \in Files, NEW k \in Places(i)', file'[i][k] > wiped,
                      NEW b \in file'[i][k]..total'
               PROVE  \E j \in Files : \E l \in Places(j)' : file'[j][l] = b
    BY Zenon, <1>1 DEF Whole
  <2>0. file'[i][k] \in Nat /\ b \in Nat
    BY <1>10
  <2>1. CASE b > total
    <3> DEFINE l == m + (b - total)
    <3>1. l \in Places(0)' /\ l > m /\ b = total + (l - m)
      BY <1>1, <1>2, <1>8, <1>9, <2>0, <2>1
    <3>2. file'[0][l] = b
      BY Zenon, <1>5, <1>8, <1>9, <3>1 DEF n
    <3> HIDE DEF l
    <3> QED BY <1>2, <3>1, <3>2
  <2>2. CASE b <= total
    <3>1. k \in Places(i) /\ file'[i][k] = file[i][k]
      BY <1>2, <1>8, <1>10, <2>0, <2>2 DEF Places
    <3>2. b \in file[i][k]..total
      BY <2>2, <3>1, <1>2, <2>0
    <3>3. PICK j \in Files : \E l \in Places(j) : file[j][l] = b
      BY <3>1, <3>2 DEF Whole
    <3>4. PICK l \in Places(j) : file[j][l] = b
      BY <3>3
    <3> QED BY <1>11, <3>4
  <2> QED BY <1>2, <2>0, <2>1, <2>2
<1>14. Safe'
  BY <1>1 DEF Safe, Idle, Rotating
<1> QED BY <1>6, <1>7, <1>12, <1>13, <1>14

(* Each file that clear empties is one that ends before what is kept.        *)
LEMMA ClearStep == IInv /\ Clear => IInv'
<1> SUFFICES ASSUME IInv, Clear PROVE IInv'
  OBVIOUS
<1> USE DEF IInv
<1>1. PICK f \in Files : f = step.at
  BY StepForms DEF Clear, TypeOK
<1>2. /\ file' = [file EXCEPT ![f] = <<>>] /\ UNCHANGED <<chunk, total, wiped>>
      /\ step' = IF f = Rotated THEN Idle ELSE Clearing(f + 1)
      /\ wiped = total
  BY <1>1 DEF Clear, Safe
<1>3. /\ file' \in [Files -> Seq(Nat)] /\ Ordered'
      /\ \A i \in Files : Len(file'[i]) <= MaxBytes
  BY Zenon, <1>2, GoneInOrder
<1>4. step' \in Steps
  <2>1. f # Rotated => f + 1 \in Files
    BY DEF Files
  <2> QED BY <1>2, <2>1 DEF Steps
<1>5. TypeOK' /\ Bounded' /\ Safe'
  BY <1>2, <1>3, <1>4 DEF TypeOK, Bounded, Safe, Idle, Clearing, Writing, Rotating
<1>6. Whole'
  <2>1. \A i \in Files : \A k \in Places(i)' : file'[i][k] <= wiped /\ file'[i][k] \in Nat
    BY <1>2, <1>3 DEF Ordered, Places
  <2>2. wiped \in Nat
    BY DEF TypeOK
  <2> QED BY <1>2, <2>1, <2>2 DEF Whole
<1> QED BY <1>3, <1>5, <1>6

(* The steps that touch no file.                                            *)
LEMMA OtherSteps ==
  ASSUME IInv, \/ \E n \in 1..MaxChunk : AppendBytes(n)
               \/ StartClear \/ Cut \/ UNCHANGED vars
  PROVE  IInv'
<1> USE DEF IInv
<1>1. file' = file /\ total' = total /\ (wiped' = wiped \/ (wiped' = total /\ step' = Clearing(0)))
  BY DEF AppendBytes, StartClear, Cut, vars
<1>2. Ordered'
  BY <1>1 DEF Ordered, Places
<1>3. Whole'
  <2>1. CASE wiped' = wiped
    BY <1>1, <2>1 DEF Whole, Places
  <2>2. CASE wiped' = total
    <3>1. \A i \in Files : \A k \in Places(i)' : file'[i][k] <= wiped' /\ file'[i][k] \in Nat
      BY <1>1, <2>2 DEF Ordered, Places, TypeOK
    <3> QED BY <1>1, <2>2, <3>1 DEF Whole, TypeOK
  <2> QED BY <1>1, <2>1, <2>2
<1>4. step' \in Steps /\ chunk' \in 0..MaxChunk
  BY DEF AppendBytes, StartClear, Cut, vars, TypeOK, Steps, Files
<1>5. TypeOK'
  BY <1>1, <1>4 DEF TypeOK
<1>6. Bounded'
  <2>1. step' = Writing => Len(file[0]) + chunk' <= MaxBytes
    <3>1. ASSUME NEW n \in 1..MaxChunk, AppendBytes(n)
          PROVE  step' = Writing => Len(file[0]) + chunk' <= MaxBytes
      <4>1. Len(file[0]) \in Nat
        BY DEF TypeOK, Files
      <4> QED BY <3>1, <4>1 DEF AppendBytes, Overflows, Writing, Removing
    <3>2. CASE StartClear \/ Cut
      BY <3>2 DEF StartClear, Cut, Writing, Clearing, Idle
    <3>3. CASE UNCHANGED vars
      BY <3>3 DEF vars, Bounded
    <3> QED BY <3>1, <3>2, <3>3
  <2> QED BY <1>1, <2>1 DEF Bounded
<1>7. Safe'
  BY <1>1 DEF AppendBytes, StartClear, Cut, vars, Safe, Idle, Removing, Writing, Rotating, Clearing
<1> QED BY <1>2, <1>3, <1>5, <1>6, <1>7

(* The inductive invariant gives the property.                               *)
LEMMA IInvGivesSuffix == IInv => LogIsASuffix
<1> SUFFICES ASSUME IInv PROVE LogIsASuffix
  OBVIOUS
<1>1. ASSUME NEW p \in Kept PROVE p[1] \in Files /\ p[2] \in Places(p[1])
  BY DEF Kept, Places, IInv, TypeOK
<1>2. ASSUME NEW i \in Files, NEW k \in Places(i)
      PROVE  <<i, k>> \in Kept /\ Byte(<<i, k>>) = file[i][k]
  BY DEF Kept, Places, IInv, TypeOK, Bounded, Byte
<1>3. ASSUME NEW p \in Kept, NEW q \in Kept, Older(p, q) PROVE Byte(p) < Byte(q)
  BY <1>1, <1>3 DEF Older, Byte, IInv, Ordered
<1>4. ASSUME NEW p \in Kept, Byte(p) > wiped, NEW b \in Byte(p)..total
      PROVE  \E q \in Kept : Byte(q) = b
  <2>1. PICK j \in Files : \E m \in Places(j) : file[j][m] = b
    BY <1>1, <1>4 DEF Byte, IInv, Whole
  <2>2. PICK m \in Places(j) : file[j][m] = b
    BY <2>1
  <2> QED BY Zenon, <1>2, <2>2
<1> QED BY <1>3, <1>4 DEF LogIsASuffix, IInv, Bounded

(* Wherever an append, a rotation or a clear of log_store.rs is cut short,  *)
(* the files hold the latest bytes, in order and without a gap, and none    *)
(* outgrows MAX_LOG_BYTES, for any size and number of files: rotate renames *)
(* from the oldest down, so a rename never finds anything to overwrite.     *)
THEOREM LogStaysASuffix == Spec => []LogIsASuffix
<1>1. IInv /\ [Next]_vars => IInv'
  BY RemoveStep, RenameStep, WriteStep, ClearStep, OtherSteps DEF Next
<1> QED BY <1>1, Initially, IInvGivesSuffix, PTL DEF Spec

=============================================================================
