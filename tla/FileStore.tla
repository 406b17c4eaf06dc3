------------------------------ MODULE FileStore ------------------------------
(***************************************************************************)
(* A file that is replaced through a temporary one, in the two forms the   *)
(* program has:                                                            *)
(*  - StateStore::write of the daemon (daemon/src/state.rs) creates a      *)
(*    temporary file of its own, flushes it, renames it over the state     *)
(*    file and flushes the directory: ~Shared and Synced;                  *)
(*  - Config::save of the client (cli/src/config.rs) truncates the one     *)
(*    cli.json.tmp and renames it, flushing nothing: Shared and ~Synced.   *)
(*                                                                         *)
(* A file's contents are two halves, so that a write can be cut between    *)
(* them. The kernel keeps what is in files (data) and names (link, tmp)    *)
(* apart from what is on the disk (disk, dlink).                           *)
(***************************************************************************)
EXTENDS Naturals

CONSTANTS
  Writers, Values,
  Inodes, NoInode,
  Nil,            \* a half that was not written
  Idle, Done,     \* as in Register
  Shared,         \* the temporary name is the same for every writer
  Synced,         \* the file and the directory are flushed
  PowerCuts       \* the machine may lose power

ASSUME StoreAssumption ==
  /\ Nil \notin Values /\ Idle \notin Values /\ Done \notin Values /\ Idle # Done
  /\ NoInode \notin Inodes
  /\ Shared \in BOOLEAN /\ Synced \in BOOLEAN /\ PowerCuts \in BOOLEAN

VARIABLES
  link, dlink,    \* the inode under the store's name, in the kernel and on disk
  tmp,            \* the inode under each writer's temporary name
  data, disk,     \* the halves of each inode, in the kernel and on disk
  pc, val, fd     \* each writer: its step, its value, its open file

storeVars == <<link, dlink, tmp, data, disk, pc, val, fd>>

Half == Values \cup {Nil}
Halves == [1..2 -> Half]
Blank == [k \in 1..2 |-> Nil]
Whole(v) == [k \in 1..2 |-> v]

Steps == {"idle", "first", "second", "sync", "rename", "last"}

(* Every variable has its type, and a file is open exactly between its       *)
(* creation and its close (state.rs:97-115).                                 *)
StoreTypeOK ==
  /\ link \in Inodes /\ dlink \in Inodes
  /\ tmp \in [Writers -> Inodes \cup {NoInode}]
  /\ data \in [Inodes -> Halves] /\ disk \in [Inodes -> Halves]
  /\ pc \in [Writers -> Steps]
  /\ val \in [Writers -> Values]
  /\ fd \in [Writers -> Inodes \cup {NoInode}]
  /\ \A w \in Writers : fd[w] \in Inodes <=> pc[w] \in {"first", "second", "sync"}

StoreInit ==
  /\ link \in Inodes /\ dlink = link
  /\ \E v \in Values : /\ data = [i \in Inodes |-> Whole(v)]
                       /\ val = [w \in Writers |-> v]
  /\ disk = data
  /\ tmp = [w \in Writers |-> NoInode]
  /\ fd = [w \in Writers |-> NoInode]
  /\ pc = [w \in Writers |-> "idle"]

(* The writers whose temporary name is w's.                                 *)
Namesakes(w) == IF Shared THEN Writers ELSE {w}

Named(w, i) == tmp' = [u \in Writers |-> IF u \in Namesakes(w) THEN i ELSE tmp[u]]

Free ==
  {i \in Inodes : /\ i # link /\ i # dlink
                  /\ \A w \in Writers : tmp[w] # i /\ fd[w] # i}

(* create_new makes a file; fs::write opens what is there and truncates it. *)
Create(w, i) ==
  IF Shared /\ tmp[w] \in Inodes THEN i = tmp[w] ELSE i \in Free

(* The write begins. A name left by a process that was killed is not        *)
(* reused when names are not shared.                                        *)
Open(w) ==
  /\ pc[w] = "idle"
  /\ \E i \in Inodes, v \in Values :
       /\ Create(w, i)
       /\ Named(w, i)
       /\ data' = [data EXCEPT ![i] = Blank]
       /\ disk' = [disk EXCEPT ![i] = Blank]
       /\ fd' = [fd EXCEPT ![w] = i]
       /\ val' = [val EXCEPT ![w] = v]
  /\ pc' = [pc EXCEPT ![w] = "first"]
  /\ UNCHANGED <<link, dlink>>

(* Mutated: the second half is forgotten.                                   *)
Write_Short(w) ==
  /\ pc[w] = "first"
  /\ data' = [data EXCEPT ![fd[w]][1] = val[w]]
  /\ pc' = [pc EXCEPT ![w] = "sync"]
  /\ UNCHANGED <<link, dlink, tmp, disk, val, fd>>

Write(w) ==
  /\ \/ /\ pc[w] = "first"
        /\ data' = [data EXCEPT ![fd[w]][1] = val[w]]
        /\ pc' = [pc EXCEPT ![w] = "second"]
     \/ /\ pc[w] = "second"
        /\ data' = [data EXCEPT ![fd[w]][2] = val[w]]
        /\ pc' = [pc EXCEPT ![w] = "sync"]
  /\ UNCHANGED <<link, dlink, tmp, disk, val, fd>>

(* Mutated: the rename does not wait for the disk.                          *)
Sync_Skipped(w) ==
  /\ pc[w] = "sync"
  /\ pc' = [pc EXCEPT ![w] = "rename"]
  /\ fd' = [fd EXCEPT ![w] = NoInode]
  /\ UNCHANGED <<link, dlink, tmp, data, disk, val>>

(* sync_all of the file, and its close.                                     *)
Sync(w) ==
  /\ pc[w] = "sync"
  /\ disk' = IF Synced THEN [disk EXCEPT ![fd[w]] = data[fd[w]]] ELSE disk
  /\ pc' = [pc EXCEPT ![w] = "rename"]
  /\ fd' = [fd EXCEPT ![w] = NoInode]
  /\ UNCHANGED <<link, dlink, tmp, data, val>>

Rename(w) ==
  /\ pc[w] = "rename" /\ tmp[w] \in Inodes
  /\ link' = tmp[w]
  /\ Named(w, NoInode)
  /\ pc' = [pc EXCEPT ![w] = "last"]
  /\ UNCHANGED <<dlink, data, disk, val, fd>>

(* sync_all of the directory, and the return.                               *)
Return(w) ==
  /\ pc[w] = "last"
  /\ dlink' = IF Synced THEN link ELSE dlink
  /\ pc' = [pc EXCEPT ![w] = "idle"]
  /\ UNCHANGED <<link, tmp, data, disk, val, fd>>

(* A step fails, and the error is returned: a file of its own is removed.   *)
Fails(w) ==
  /\ pc[w] # "idle"
  /\ IF Shared THEN UNCHANGED tmp ELSE Named(w, NoInode)
  /\ pc' = [pc EXCEPT ![w] = "idle"]
  /\ fd' = [fd EXCEPT ![w] = NoInode]
  /\ UNCHANGED <<link, dlink, data, disk, val>>

Killed(w) ==
  /\ pc[w] # "idle"
  /\ pc' = [pc EXCEPT ![w] = "idle"]
  /\ fd' = [fd EXCEPT ![w] = NoInode]
  /\ UNCHANGED <<link, dlink, tmp, data, disk, val>>

(* The kernel may write the directory back at any time.                     *)
WriteBack ==
  /\ dlink' = link
  /\ UNCHANGED <<link, tmp, data, disk, pc, val, fd>>

(* No writer reads a temporary file that a power cut left; of the store, all,  *)
(* none or a part of what was not flushed is on the disk.                   *)
Surviving(i, part) ==
  CASE part = "all"  -> data[i]
    [] part = "none" -> disk[i]
    [] part = "half" -> [data[i] EXCEPT ![2] = disk[i][2]]

PowerLoss ==
  /\ PowerCuts
  /\ link' \in {link, dlink} /\ dlink' = link'
  /\ \E part \in [{link, dlink} -> {"all", "none", "half"}] :
       data' = [i \in Inodes |-> IF i \in {link, dlink} THEN Surviving(i, part[i])
                                 ELSE Blank]
  /\ disk' = data'
  /\ pc' = [w \in Writers |-> "idle"]
  /\ fd' = [w \in Writers |-> NoInode]
  /\ UNCHANGED <<tmp, val>>

WriterStep(w) == Open(w) \/ Write(w) \/ Sync(w) \/ Rename(w) \/ Return(w)

StoreNext ==
  \/ \E w \in Writers : WriterStep(w) \/ Fails(w) \/ Killed(w)
  \/ WriteBack
  \/ PowerLoss

StoreSpec == StoreInit /\ [][StoreNext]_storeVars

(***************************************************************************)
(* Properties                                                              *)
(***************************************************************************)

(* What a reader makes of an inode: a value, or Nil when it does not parse. *)
Contents(f, i) == IF f[i] \in {Whole(v) : v \in Values} THEN f[i][1] ELSE Nil

Pending(w) == CASE pc[w] = "idle" -> Idle [] pc[w] = "last" -> Done [] OTHER -> val[w]

R == INSTANCE Register WITH
       value   <- Contents(data, link),
       stable  <- IF Synced THEN Contents(disk, dlink) ELSE Contents(data, link),
       pending <- [w \in Writers |-> Pending(w)]

(* StateStore::write and Config::save are an atomic register: a reader finds *)
(* the old state or the new, whatever step a failure, a kill or (where the   *)
(* file is flushed) a power cut hits, and an acknowledged state stays.       *)
Implements == R!RegSpec

(* "a crash mid-write must not leave a truncated store" (config.rs:306):     *)
(* with no writer running, the store parses.                                 *)
NeverTruncated ==
  (\A w \in Writers : pc[w] = "idle") => Contents(data, link) # Nil
=============================================================================
