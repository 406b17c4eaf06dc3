--------------------------- MODULE FileStoreProofs ---------------------------
(***************************************************************************)
(* The daemon's StateStore::write is an atomic register for every number   *)
(* of writers, of values and of files.                                     *)
(***************************************************************************)
EXTENDS FileStore, TLAPS

(* A file that holds one value, in the kernel and on the disk.              *)
Flushed(i) == \E v \in Values : data[i] = Whole(v) /\ disk[i] = Whole(v)

(* The store is whole and flushed, under both of its names.                 *)
NamesWhole == Flushed(link) /\ Flushed(dlink)

(* A temporary file has one name, which is not the store's, and it is the   *)
(* file its writer has open.                                                *)
Private ==
  \A w \in Writers :
    /\ fd[w] \in Inodes => tmp[w] = fd[w]
    /\ tmp[w] \in Inodes =>
         /\ tmp[w] # link /\ tmp[w] # dlink
         /\ \A u \in Writers : tmp[u] = tmp[w] => u = w

(* What each step has written so far.                                       *)
Progress ==
  \A w \in Writers :
    /\ pc[w] = "second" => data[fd[w]][1] = val[w]
    /\ pc[w] = "sync" => data[fd[w]] = Whole(val[w])
    /\ pc[w] = "rename" => /\ tmp[w] \in Inodes
                           /\ data[tmp[w]] = Whole(val[w])
                           /\ disk[tmp[w]] = Whole(val[w])

StoreInv == StoreTypeOK /\ NamesWhole /\ Private /\ Progress

(* How halves make a value.                                                 *)
LEMMA HalvesFacts ==
  /\ Blank \in Halves
  /\ \A v \in Values : Whole(v) \in Halves /\ Whole(v)[1] = v
  BY DEF Halves, Half, Blank, Whole

(* The first half of a write.                                               *)
LEMMA FirstHalf ==
  ASSUME NEW h \in Halves, NEW v \in Values
  PROVE  [h EXCEPT ![1] = v] \in Halves /\ [h EXCEPT ![1] = v][1] = v
  <1>1. 1 \in 1..2
    OBVIOUS
  <1>2. h \in [1..2 -> Half] /\ v \in Half
    BY DEF Halves, Half
  <1> QED BY <1>1, <1>2 DEF Halves

(* The second half completes it.                                            *)
LEMMA SecondHalf ==
  ASSUME NEW h \in Halves, NEW v \in Values, h[1] = v
  PROVE  [h EXCEPT ![2] = v] \in Halves /\ [h EXCEPT ![2] = v] = Whole(v)
  <1>1. 1..2 = {1, 2}
    OBVIOUS
  <1>2. h \in [{1, 2} -> Half] /\ v \in Half
    BY <1>1 DEF Halves, Half
  <1>3. [h EXCEPT ![2] = v] = [k \in {1, 2} |-> v]
    BY <1>2
  <1>4. [h EXCEPT ![2] = v] = Whole(v)
    BY <1>1, <1>3 DEF Whole
  <1> QED BY <1>4, HalvesFacts

(* StateStore starts on a whole file.                                       *)
LEMMA InitInv == StoreInit => StoreInv
  <1> SUFFICES ASSUME StoreInit PROVE StoreInv
    OBVIOUS
  <1> USE DEF StoreInit
  <1>1. PICK v \in Values : data = [i \in Inodes |-> Whole(v)] /\ val = [w \in Writers |-> v]
    OBVIOUS
  <1>2. StoreTypeOK
    BY <1>1, HalvesFacts, StoreAssumption DEF StoreTypeOK, Steps
  <1>3. NamesWhole
    BY <1>1 DEF NamesWhole, Flushed
  <1>4. Private /\ Progress
    BY StoreAssumption DEF Private, Progress
  <1> QED BY <1>2, <1>3, <1>4 DEF StoreInv

(* Creating the temporary file touches no file that has a name.             *)
LEMMA OpenInv ==
  ASSUME ~Shared, StoreInv, NEW w \in Writers, Open(w)
  PROVE  StoreInv'
  <1> USE DEF StoreInv
  <1>0. PICK i \in Inodes, v \in Values :
          /\ Create(w, i) /\ Named(w, i)
          /\ data' = [data EXCEPT ![i] = Blank]
          /\ disk' = [disk EXCEPT ![i] = Blank]
          /\ fd' = [fd EXCEPT ![w] = i]
          /\ val' = [val EXCEPT ![w] = v]
    BY Zenon DEF Open
  <1>1. /\ i \in Free
        /\ tmp' = [u \in Writers |-> IF u = w THEN i ELSE tmp[u]]
        /\ data' = [data EXCEPT ![i] = Blank]
        /\ disk' = [disk EXCEPT ![i] = Blank]
        /\ fd' = [fd EXCEPT ![w] = i]
        /\ val' = [val EXCEPT ![w] = v]
    <2>1. i \in Free
      BY <1>0 DEF Create
    <2>2. \A u \in Writers : u \in Namesakes(w) <=> u = w
      BY DEF Namesakes
    <2>3. tmp' = [u \in Writers |-> IF u = w THEN i ELSE tmp[u]]
      BY <1>0, <2>2 DEF Named
    <2> QED BY <1>0, <2>1, <2>3
  <1>2. pc[w] = "idle" /\ pc' = [pc EXCEPT ![w] = "first"] /\ UNCHANGED <<link, dlink>>
    BY DEF Open
  <1>3. /\ i # link /\ i # dlink
        /\ \A u \in Writers : tmp[u] # i /\ fd[u] # i
    BY <1>1 DEF Free
  <1>4. StoreTypeOK'
    BY <1>1, <1>2, HalvesFacts, StoreAssumption DEF StoreTypeOK, Steps
  <1>5. NamesWhole'
    BY <1>1, <1>2, <1>3 DEF NamesWhole, Flushed, StoreTypeOK
  <1>6. Private'
    BY <1>1, <1>2, <1>3, StoreAssumption DEF Private, StoreTypeOK
  <1>7. Progress'
    BY <1>1, <1>2, <1>3 DEF Progress, StoreTypeOK
  <1> QED BY <1>4, <1>5, <1>6, <1>7

(* Writing touches the writer's own file.                                   *)
LEMMA WriteInv ==
  ASSUME StoreInv, NEW w \in Writers, Write(w)
  PROVE  StoreInv'
  <1> USE DEF StoreInv
  <1>0. fd[w] \in Inodes /\ tmp[w] = fd[w] /\ fd[w] # link /\ fd[w] # dlink
    BY DEF Write, StoreTypeOK, Private
  <1>a. \A u \in Writers : u # w => tmp[u] # fd[w] /\ fd[u] # fd[w]
    BY <1>0 DEF Private, StoreTypeOK
  <1>b. UNCHANGED <<link, dlink, tmp, disk, val, fd>>
    BY DEF Write
  <1>c. val[w] \in Values /\ data[fd[w]] \in Halves
    BY <1>0 DEF StoreTypeOK
  <1>1. CASE /\ pc[w] = "first"
             /\ data' = [data EXCEPT ![fd[w]][1] = val[w]]
             /\ pc' = [pc EXCEPT ![w] = "second"]
    <2> DEFINE h == [data[fd[w]] EXCEPT ![1] = val[w]]
    <2>1. data' = [data EXCEPT ![fd[w]] = h]
      BY <1>1
    <2>a. h \in Halves /\ h[1] = val[w]
      BY <1>1, <1>c, FirstHalf
    <2> HIDE DEF h
    <2>b. data' \in [Inodes -> Halves]
      BY <1>0, <2>1, <2>a DEF StoreTypeOK
    <2>2. StoreTypeOK'
      BY <1>1, <1>0, <1>b, <2>b DEF StoreTypeOK, Steps
    <2>3. NamesWhole'
      BY <1>0, <1>b, <2>1 DEF NamesWhole, Flushed, StoreTypeOK
    <2>4. Private'
      BY <1>b DEF Private
    <2>5. data'[fd[w]][1] = val[w]
      BY <1>0, <2>1, <2>a DEF StoreTypeOK
    <2>6. Progress'
      BY <1>1, <1>0, <1>a, <1>b, <2>1, <2>5 DEF Progress, StoreTypeOK
    <2> QED BY <2>2, <2>3, <2>4, <2>6
  <1>2. CASE /\ pc[w] = "second"
             /\ data' = [data EXCEPT ![fd[w]][2] = val[w]]
             /\ pc' = [pc EXCEPT ![w] = "sync"]
    <2> DEFINE h == [data[fd[w]] EXCEPT ![2] = val[w]]
    <2>1. data' = [data EXCEPT ![fd[w]] = h]
      BY <1>2
    <2>a. h \in Halves /\ h = Whole(val[w])
      BY <1>2, <1>c, SecondHalf DEF Progress
    <2> HIDE DEF h
    <2>b. data' \in [Inodes -> Halves]
      BY <1>0, <2>1, <2>a DEF StoreTypeOK
    <2>2. StoreTypeOK'
      BY <1>2, <1>0, <1>b, <2>b DEF StoreTypeOK, Steps
    <2>3. NamesWhole'
      BY <1>0, <1>b, <2>1 DEF NamesWhole, Flushed, StoreTypeOK
    <2>4. Private'
      BY <1>b DEF Private
    <2>5. data'[fd[w]] = Whole(val[w])
      BY <1>0, <2>1, <2>a DEF StoreTypeOK
    <2>6. Progress'
      BY <1>2, <1>0, <1>a, <1>b, <2>1, <2>5 DEF Progress, StoreTypeOK
    <2> QED BY <2>2, <2>3, <2>4, <2>6
  <1> QED BY <1>1, <1>2 DEF Write

(* Flushing the writer's own file puts its value on the disk.               *)
LEMMA SyncInv ==
  ASSUME Synced, StoreInv, NEW w \in Writers, Sync(w)
  PROVE  StoreInv'
  <1> USE DEF StoreInv
  <1>0. fd[w] \in Inodes /\ tmp[w] = fd[w] /\ fd[w] # link /\ fd[w] # dlink
    BY DEF Sync, StoreTypeOK, Private
  <1>a. \A u \in Writers : u # w => tmp[u] # fd[w] /\ fd[u] # fd[w]
    BY <1>0 DEF Private, StoreTypeOK
  <1>b. /\ pc[w] = "sync"
        /\ disk' = [disk EXCEPT ![fd[w]] = data[fd[w]]]
        /\ pc' = [pc EXCEPT ![w] = "rename"]
        /\ fd' = [fd EXCEPT ![w] = NoInode]
        /\ UNCHANGED <<link, dlink, tmp, data, val>>
    BY DEF Sync
  <1>2. StoreTypeOK'
    BY <1>0, <1>b, StoreAssumption DEF StoreTypeOK, Steps
  <1>3. NamesWhole'
    BY <1>0, <1>b DEF NamesWhole, Flushed, StoreTypeOK
  <1>4. Private'
    BY <1>b, StoreAssumption DEF Private, StoreTypeOK
  <1>5. Progress'
    BY <1>0, <1>a, <1>b DEF Progress, StoreTypeOK
  <1> QED BY <1>2, <1>3, <1>4, <1>5

(* The rename gives the store's name to a whole, flushed file.              *)
LEMMA RenameInv ==
  ASSUME ~Shared, StoreInv, NEW w \in Writers, Rename(w)
  PROVE  StoreInv' /\ data[tmp[w]] = Whole(val[w])
  <1> USE DEF StoreInv
  <1>0. /\ pc[w] = "rename" /\ tmp[w] \in Inodes /\ link' = tmp[w]
        /\ tmp' = [u \in Writers |-> IF u = w THEN NoInode ELSE tmp[u]]
        /\ pc' = [pc EXCEPT ![w] = "last"]
        /\ UNCHANGED <<dlink, data, disk, val, fd>>
    BY DEF Rename, Named, Namesakes
  <1>1. data[tmp[w]] = Whole(val[w]) /\ disk[tmp[w]] = Whole(val[w]) /\ val[w] \in Values
    BY <1>0 DEF Progress, StoreTypeOK
  <1>2. StoreTypeOK'
    BY <1>0 DEF StoreTypeOK, Steps
  <1>3. NamesWhole'
    BY <1>0, <1>1 DEF NamesWhole, Flushed
  <1>4. Private'
    BY <1>0, StoreAssumption DEF Private, StoreTypeOK
  <1>5. Progress'
    BY <1>0 DEF Progress, StoreTypeOK, Private
  <1> QED BY <1>1, <1>2, <1>3, <1>4, <1>5

(* A return, a failure and a kill write nothing.                            *)
LEMMA EndInv ==
  ASSUME ~Shared, StoreInv, NEW w \in Writers, Return(w) \/ Fails(w) \/ Killed(w)
  PROVE  StoreInv'
  <1> USE DEF StoreInv
  <1>0. /\ pc' = [pc EXCEPT ![w] = "idle"]
        /\ dlink' \in {link, dlink}
        /\ UNCHANGED <<link, data, disk, val>>
    BY DEF Return, Fails, Killed
  <1>1. fd' = [fd EXCEPT ![w] = NoInode]
    <2>1. CASE Return(w)
      <3>1. fd[w] \notin Inodes /\ fd' = fd
        BY <2>1 DEF Return, StoreTypeOK
      <3> QED BY <3>1, StoreAssumption DEF StoreTypeOK
    <2> QED BY <2>1 DEF Fails, Killed
  <1>2. \A u \in Writers : /\ tmp'[u] \in {tmp[u], NoInode}
                           /\ u # w => tmp'[u] = tmp[u]
    BY DEF Return, Fails, Killed, Named, Namesakes, StoreTypeOK
  <1>3. tmp' \in [Writers -> Inodes \cup {NoInode}]
    BY DEF Return, Fails, Killed, Named, Namesakes, StoreTypeOK
  <1>4. StoreTypeOK'
    BY <1>0, <1>1, <1>3, StoreAssumption DEF StoreTypeOK, Steps
  <1>5. NamesWhole'
    BY <1>0 DEF NamesWhole, Flushed
  <1>6. Private'
    BY <1>0, <1>1, <1>2, <1>3, StoreAssumption DEF Private, StoreTypeOK
  <1>7. Progress'
    BY <1>0, <1>1, <1>2, StoreAssumption DEF Progress, StoreTypeOK
  <1> QED BY <1>4, <1>5, <1>6, <1>7

(* What is flushed survives a power cut.                                    *)
LEMMA PowerInv ==
  ASSUME StoreInv, PowerLoss
  PROVE  /\ StoreInv'
         /\ data'[link'] = data[link'] /\ disk'[link'] = disk[link']
         /\ link' \in {link, dlink}
  <1> USE DEF StoreInv
  <1>1. PICK part \in [{link, dlink} -> {"all", "none", "half"}] :
          data' = [i \in Inodes |-> IF i \in {link, dlink} THEN Surviving(i, part[i])
                                    ELSE Blank]
    BY DEF PowerLoss
  <1>2. /\ link' \in {link, dlink} /\ dlink' = link' /\ disk' = data'
        /\ pc' = [w \in Writers |-> "idle"]
        /\ fd' = [w \in Writers |-> NoInode]
        /\ UNCHANGED <<tmp, val>>
    BY DEF PowerLoss
  <1>3. ASSUME NEW i \in {link, dlink} PROVE data'[i] = data[i] /\ data[i] = disk[i]
    <2>1. i \in Inodes /\ data[i] = disk[i] /\ data[i] \in Halves
      BY DEF NamesWhole, Flushed, StoreTypeOK
    <2>2. part[i] \in {"all", "none", "half"} /\ data'[i] = Surviving(i, part[i])
      BY <1>1, <2>1
    <2>3. Surviving(i, part[i]) = data[i]
      BY <2>1, <2>2 DEF Surviving, Halves
    <2> QED BY <2>1, <2>2, <2>3
  <1>4. data' \in [Inodes -> Halves]
    <2>1. \A i \in Inodes : data'[i] \in Halves
      BY <1>1, <1>3, HalvesFacts DEF StoreTypeOK
    <2> QED BY <1>1, <2>1
  <1>5. StoreTypeOK'
    BY <1>2, <1>4, StoreAssumption DEF StoreTypeOK, Steps
  <1>6. NamesWhole'
    BY <1>2, <1>3 DEF NamesWhole, Flushed
  <1>7. Private' /\ Progress'
    BY <1>2, StoreAssumption DEF Private, Progress, StoreTypeOK
  <1> QED BY <1>2, <1>3, <1>5, <1>6, <1>7

(* A directory that is written back early does no harm.                     *)
LEMMA WriteBackInv ==
  ASSUME StoreInv, WriteBack
  PROVE  StoreInv'
  <1> USE DEF StoreInv, WriteBack
  <1>1. StoreTypeOK'
    BY DEF StoreTypeOK
  <1>2. NamesWhole' /\ Private' /\ Progress'
    BY DEF NamesWhole, Flushed, Private, Progress
  <1> QED BY <1>1, <1>2

(* The invariant is inductive for a store like the daemon's.                *)
LEMMA StepInv ==
  ASSUME ~Shared, Synced, StoreInv, [StoreNext]_storeVars
  PROVE  StoreInv'
  <1>1. CASE UNCHANGED storeVars
    BY <1>1 DEF storeVars, StoreInv, StoreTypeOK, NamesWhole, Flushed, Private, Progress
  <1>2. CASE \E w \in Writers : WriterStep(w) \/ Fails(w) \/ Killed(w)
    BY <1>2, OpenInv, WriteInv, SyncInv, RenameInv, EndInv DEF WriterStep
  <1> QED BY <1>1, <1>2, WriteBackInv, PowerInv DEF StoreNext

(* What a reader makes of a whole file.                                     *)
LEMMA WholeContents ==
  ASSUME NEW f, NEW i, NEW v \in Values, f[i] = Whole(v)
  PROVE  Contents(f, i) = v
  BY HalvesFacts DEF Contents

(* Only the writer's own entry of `pending` changes.                        *)
LEMMA PendingStep ==
  ASSUME NEW w \in Writers, pc \in [Writers -> Steps], val \in [Writers -> Values],
         NEW s \in Steps, pc' = [pc EXCEPT ![w] = s],
         \A u \in Writers : u # w => val'[u] = val[u],
         NEW p, p = Pending(w)'
  PROVE  [u \in Writers |-> Pending(u)]' = [[u \in Writers |-> Pending(u)] EXCEPT ![w] = p]
  <1>1. \A u \in Writers : u # w => Pending(u)' = Pending(u)
    BY DEF Pending
  <1> QED BY <1>1

(* Creating the temporary file begins a write.                              *)
LEMMA OpenBegins ==
  ASSUME ~Shared, Synced, StoreInv, NEW w \in Writers, Open(w)
  PROVE  R!Begin(w)
  <1>1. PICK i \in Inodes, v \in Values :
          /\ i \in Free
          /\ data' = [data EXCEPT ![i] = Blank]
          /\ disk' = [disk EXCEPT ![i] = Blank]
          /\ val' = [val EXCEPT ![w] = v]
    BY DEF Open, Create
  <1>2. pc[w] = "idle" /\ pc' = [pc EXCEPT ![w] = "first"] /\ UNCHANGED <<link, dlink>>
    BY DEF Open
  <1>3. data'[link'] = data[link] /\ disk'[dlink'] = disk[dlink]
    BY <1>1, <1>2 DEF Free, StoreInv, StoreTypeOK
  <1>4. Contents(data, link)' = Contents(data, link) /\ Contents(disk, dlink)' = Contents(disk, dlink)
    BY <1>3 DEF Contents
  <1>5. Pending(w) = Idle /\ Pending(w)' = v
    BY <1>1, <1>2 DEF Pending, StoreInv, StoreTypeOK
  <1>6. [u \in Writers |-> Pending(u)]' = [[u \in Writers |-> Pending(u)] EXCEPT ![w] = v]
    BY <1>1, <1>2, <1>5, PendingStep DEF StoreInv, StoreTypeOK, Steps
  <1> QED BY <1>4, <1>5, <1>6 DEF R!Begin

(* Writing and flushing are invisible.                                      *)
LEMMA WriteStutters ==
  ASSUME Synced, StoreInv, NEW w \in Writers, Write(w) \/ Sync(w)
  PROVE  UNCHANGED R!regVars
  <1>0. fd[w] \in Inodes /\ fd[w] # link /\ fd[w] # dlink
    BY DEF Write, Sync, StoreInv, StoreTypeOK, Private
  <1>1. data'[link'] = data[link] /\ disk'[dlink'] = disk[dlink]
    BY <1>0 DEF Write, Sync, StoreInv, StoreTypeOK
  <1>2. Contents(data, link)' = Contents(data, link) /\ Contents(disk, dlink)' = Contents(disk, dlink)
    BY <1>1 DEF Contents
  <1>3. \A u \in Writers : Pending(u)' = Pending(u)
    BY DEF Write, Sync, Pending, StoreInv, StoreTypeOK
  <1>4. [u \in Writers |-> Pending(u)]' = [u \in Writers |-> Pending(u)]
    BY <1>3
  <1> QED BY <1>2, <1>4 DEF R!regVars

(* The rename is the moment the new state takes the place of the old.       *)
LEMMA RenameCommits ==
  ASSUME ~Shared, Synced, StoreInv, NEW w \in Writers, Rename(w)
  PROVE  R!Commit(w)
  <1>1. /\ pc[w] = "rename" /\ tmp[w] \in Inodes /\ link' = tmp[w]
        /\ pc' = [pc EXCEPT ![w] = "last"]
        /\ UNCHANGED <<dlink, data, disk, val>>
    BY DEF Rename
  <1>2. val[w] \in Values /\ data'[link'] = Whole(val[w])
    BY <1>1, RenameInv DEF StoreInv, StoreTypeOK
  <1>3. Contents(data, link)' = val[w]
    BY <1>2, WholeContents
  <1>4. Contents(disk, dlink)' = Contents(disk, dlink)
    BY <1>1 DEF Contents
  <1>5. Pending(w) = val[w] /\ Pending(w)' = Done
    BY <1>1 DEF Pending, StoreInv, StoreTypeOK
  <1>6. [u \in Writers |-> Pending(u)]' = [[u \in Writers |-> Pending(u)] EXCEPT ![w] = Done]
    BY <1>1, <1>5, PendingStep DEF StoreInv, StoreTypeOK, Steps
  <1> QED BY <1>2, <1>3, <1>4, <1>5, <1>6 DEF R!Commit

(* Flushing the directory makes the new state last.                         *)
LEMMA ReturnAcknowledges ==
  ASSUME Synced, StoreInv, NEW w \in Writers, Return(w)
  PROVE  R!Acknowledge(w)
  <1>1. /\ pc[w] = "last" /\ pc' = [pc EXCEPT ![w] = "idle"] /\ dlink' = link
        /\ UNCHANGED <<link, data, disk, val>>
    BY DEF Return
  <1>2. disk'[dlink'] = data[link]
    BY <1>1 DEF StoreInv, NamesWhole, Flushed
  <1>3. Contents(disk, dlink)' = Contents(data, link) /\ Contents(data, link)' = Contents(data, link)
    BY <1>1, <1>2 DEF Contents
  <1>5. Pending(w) = Done /\ Pending(w)' = Idle
    BY <1>1 DEF Pending, StoreInv, StoreTypeOK
  <1>6. [u \in Writers |-> Pending(u)]' = [[u \in Writers |-> Pending(u)] EXCEPT ![w] = Idle]
    BY <1>1, <1>5, PendingStep DEF StoreInv, StoreTypeOK, Steps
  <1> QED BY <1>3, <1>5, <1>6 DEF R!Acknowledge

(* A failure or a kill abandons the write.                                  *)
LEMMA EndAbandons ==
  ASSUME Synced, StoreInv, NEW w \in Writers, Fails(w) \/ Killed(w)
  PROVE  R!Abandon(w)
  <1>1. pc' = [pc EXCEPT ![w] = "idle"] /\ UNCHANGED <<link, dlink, data, disk, val>>
    BY DEF Fails, Killed
  <1>3. Contents(disk, dlink)' = Contents(disk, dlink) /\ Contents(data, link)' = Contents(data, link)
    BY <1>1 DEF Contents
  <1>5. Pending(w)' = Idle
    BY <1>1 DEF Pending, StoreInv, StoreTypeOK
  <1>6. [u \in Writers |-> Pending(u)]' = [[u \in Writers |-> Pending(u)] EXCEPT ![w] = Idle]
    BY <1>1, <1>5, PendingStep DEF StoreInv, StoreTypeOK, Steps
  <1> QED BY <1>3, <1>6 DEF R!Abandon

(* Write-back settles what the kernel already shows.                        *)
LEMMA WriteBackSettles ==
  ASSUME Synced, StoreInv, WriteBack
  PROVE  R!Settle
  <1>1. disk'[dlink'] = data[link] /\ UNCHANGED <<link, data, pc, val>>
    BY DEF WriteBack, StoreInv, NamesWhole, Flushed
  <1>2. Contents(disk, dlink)' = Contents(data, link) /\ Contents(data, link)' = Contents(data, link)
    BY <1>1 DEF Contents
  <1>3. [u \in Writers |-> Pending(u)]' = [u \in Writers |-> Pending(u)]
    BY <1>1 DEF Pending
  <1> QED BY <1>2, <1>3 DEF R!Settle

(* A power cut leaves the state a reader found or the last acknowledged.    *)
LEMMA PowerLossCuts ==
  ASSUME Synced, StoreInv, PowerLoss
  PROVE  R!PowerCut
  <1>1. link' \in {link, dlink} /\ data'[link'] = data[link']
    BY PowerInv
  <1>2. disk[dlink] = data[dlink]
    BY DEF StoreInv, NamesWhole, Flushed
  <1>3. disk' = data' /\ dlink' = link' /\ pc' = [u \in Writers |-> "idle"]
    BY DEF PowerLoss
  <1>4. Contents(data, link)' \in {Contents(data, link), Contents(disk, dlink)}
    BY <1>1, <1>2 DEF Contents
  <1>5. Contents(disk, dlink)' = Contents(data, link)'
    BY <1>3 DEF Contents
  <1>6. [u \in Writers |-> Pending(u)]' = [u \in Writers |-> Idle]
    BY <1>3 DEF Pending
  <1> QED BY <1>4, <1>5, <1>6 DEF R!PowerCut

(* StateStore::write, by any number of writers that fail, are killed or     *)
(* lose power at any step, is an atomic register: readers find whole states *)
(* only, and an acknowledged state is not lost.                             *)
THEOREM StateStoreImplements ==
  ASSUME ~Shared, Synced
  PROVE  StoreSpec => Implements
  <1>1. StoreInit => R!RegInit
    <2> SUFFICES ASSUME StoreInit PROVE R!RegInit
      OBVIOUS
    <2>1. PICK v \in Values : data = [i \in Inodes |-> Whole(v)]
      BY DEF StoreInit
    <2>2. data[link] = Whole(v) /\ disk[dlink] = Whole(v)
      BY <2>1 DEF StoreInit
    <2>3. Contents(data, link) = v /\ Contents(disk, dlink) = v
      BY <2>2, WholeContents
    <2>4. [u \in Writers |-> Pending(u)] = [u \in Writers |-> Idle]
      BY DEF StoreInit, Pending
    <2> QED BY <2>3, <2>4 DEF R!RegInit
  <1>2. StoreInv /\ [StoreNext]_storeVars => [R!RegNext]_R!regVars
    <2> SUFFICES ASSUME StoreInv, [StoreNext]_storeVars PROVE [R!RegNext]_R!regVars
      OBVIOUS
    <2>1. CASE UNCHANGED storeVars
      <3>1. Contents(data, link)' = Contents(data, link) /\ Contents(disk, dlink)' = Contents(disk, dlink)
        BY <2>1 DEF storeVars, Contents
      <3>2. [u \in Writers |-> Pending(u)]' = [u \in Writers |-> Pending(u)]
        BY <2>1 DEF storeVars, Pending
      <3> QED BY <3>1, <3>2 DEF R!regVars
    <2>2. ASSUME NEW w \in Writers, WriterStep(w) \/ Fails(w) \/ Killed(w)
          PROVE  [R!RegNext]_R!regVars
      <3>1. CASE Open(w)
        BY <3>1, OpenBegins DEF R!RegNext
      <3>2. CASE Write(w) \/ Sync(w)
        BY <3>2, WriteStutters
      <3>3. CASE Rename(w)
        BY <3>3, RenameCommits DEF R!RegNext
      <3>4. CASE Return(w)
        BY <3>4, ReturnAcknowledges DEF R!RegNext
      <3>5. CASE Fails(w) \/ Killed(w)
        BY <3>5, EndAbandons DEF R!RegNext
      <3> QED BY <2>2, <3>1, <3>2, <3>3, <3>4, <3>5 DEF WriterStep
    <2>3. CASE WriteBack
      BY <2>3, WriteBackSettles DEF R!RegNext
    <2>4. CASE PowerLoss
      BY <2>4, PowerLossCuts DEF R!RegNext
    <2> QED BY <2>1, <2>2, <2>3, <2>4 DEF StoreNext
  <1>3. StoreInv /\ [StoreNext]_storeVars => StoreInv'
    BY StepInv
  <1> QED BY <1>1, <1>2, <1>3, InitInv, PTL DEF StoreSpec, Implements, R!RegSpec
=============================================================================
