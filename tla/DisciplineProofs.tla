-------------------------- MODULE DisciplineProofs --------------------------
(***************************************************************************)
(* Proofs about KernelFilesDiscipline: under the discipline the files keep *)
(* apart, no descriptor passes the end of its file, and every system call  *)
(* is one of FileStore or a stutter, for every directory size, descriptor  *)
(* count, boot layout, gap and memory.                                     *)
(***************************************************************************)
EXTENDS KernelFilesDiscipline, KernelFilesProofs

USE DEF FileNo, FdNo

\* ExtentsDisjoint relates all pairs of files; what a step keeps is that each
\* file ends before its neighbour begins.
Neighbours ==
  \A i \in FileNo : i + 1 \in FileNo /\ dir[i + 1].used =>
    dir[i].start + dir[i].size <= dir[i + 1].start

\* The discipline's effect: a close or a write moves the size of a file under
\* no other descriptor.
OneDescriptor ==
  \A k, h \in FdNo :
    fds[k].type = "FILE" /\ fds[h].type = "FILE" /\ fds[k].entry = fds[h].entry => k = h

Apart == Neighbours /\ OneDescriptor /\ PositionWithinSize

DInv == IInv /\ Apart

LEMMA ApartSame ==
  ASSUME Apart, UNCHANGED <<dir, fds>>
  PROVE  Apart'
BY DEF Apart, Neighbours, OneDescriptor, PositionWithinSize

LEMMA ApartInit ==
  ASSUME Init
  PROVE  Apart
<1>1. ASSUME NEW i \in FileNo, i + 1 \in FileNo, dir[i + 1].used
      PROVE  dir[i].start + dir[i].size <= dir[i + 1].start
  <2>1. i + 1 < Len(BootFiles)
    BY <1>1 DEF Init, BootEntry
  <2>2. i + 1 \in DOMAIN BootFiles /\ i + 2 \in DOMAIN BootFiles
    BY <2>1, BootDomain, CapacityAssumption
  <2>3. BootFiles[i + 1].start + BootFiles[i + 1].size <= BootFiles[i + 2].start
    <3>1. i + 1 < i + 2
      BY DEF FileNo
    <3> QED
      BY <2>2, <3>1, BootAssumption
  <2>4. dir[i] = BootEntry(i) /\ dir[i + 1] = BootEntry(i + 1)
    BY <1>1 DEF Init
  <2>5. /\ dir[i].start = BootFiles[i + 1].start
        /\ dir[i].size = BootFiles[i + 1].size
        /\ dir[i + 1].start = BootFiles[i + 2].start
    BY <2>1, <2>4, BootDomain DEF BootEntry
  <2> QED
    BY <2>3, <2>5
<1>2. \A k \in FdNo : fds[k].type # "FILE"
  BY DEF Init, BootFile
<1> QED
  BY <1>1, <1>2 DEF Apart, Neighbours, OneDescriptor, PositionWithinSize

\* A descriptor is given out for a file that has none, at its end or start.
LEMMA ApartAlloc ==
  ASSUME IInv, OneDescriptor, PositionWithinSize,
         NEW i \in FileNo, NEW size \in Nat, NEW append \in BOOLEAN,
         AllocFd(i, size, append), ~IsOpen(i),
         dir'[i].size = size, \A j \in FileNo \ {i} : dir'[j] = dir[j]
  PROVE  OneDescriptor' /\ PositionWithinSize'
<1>1. CASE UNCHANGED fds
  <2>1. \A k \in FdNo : fds[k].type = "FILE" => fds[k].entry \in FileNo \ {i}
    BY DEF IInv, FdTableWellFormed, IsOpen
  <2> QED
    BY <1>1, <2>1 DEF OneDescriptor, PositionWithinSize
<1>2. ASSUME NEW k \in FdNo,
             fds' = [fds EXCEPT ![k] = [type |-> "FILE", entry |-> i,
                                        position |-> IF append THEN size ELSE 0]]
      PROVE  OneDescriptor' /\ PositionWithinSize'
  <2>1. fds'[k] = [type |-> "FILE", entry |-> i, position |-> IF append THEN size ELSE 0]
    BY <1>2 DEF IInv, TypeOK
  <2>2. \A h \in FdNo \ {k} : fds'[h] = fds[h]
    BY <1>2 DEF IInv, TypeOK
  <2>3. \A h \in FdNo : fds[h].type = "FILE" => fds[h].entry \in FileNo \ {i}
    BY DEF IInv, FdTableWellFormed, IsOpen
  <2>4. OneDescriptor'
    BY <2>1, <2>2, <2>3 DEF OneDescriptor
  <2>5. fds'[k].position <= dir'[fds'[k].entry].size
    BY <2>1
  <2>6. PositionWithinSize'
    BY <2>1, <2>2, <2>3, <2>5 DEF PositionWithinSize
  <2> QED
    BY <2>4, <2>6
<1> QED
  BY <1>1, <1>2 DEF AllocFd

LEMMA ApartOpen ==
  ASSUME DInv, NEW name \in Names, NEW append \in BOOLEAN, NEW create \in BOOLEAN,
         \A i \in FileNo : Named(i, name) => ~IsOpen(i),
         SysOpen(name, append, create)
  PROVE  Apart'
<1> USE DEF DInv
<1>1. CASE OpenExisting(name, append)
  <2>1. PICK i \in FileNo : /\ Found(i, name)
                            /\ AllocFd(i, dir[i].size, append)
                            /\ UNCHANGED <<dir, mem, running>>
    BY <1>1 DEF OpenExisting
  <2>2. ~IsOpen(i) /\ dir[i].size \in Nat
    BY <2>1 DEF Found, IInv, TypeOK, DirEntry
  <2>3. OneDescriptor' /\ PositionWithinSize'
    BY <2>1, <2>2, ApartAlloc DEF Apart
  <2> QED
    BY <2>1, <2>3 DEF Apart, Neighbours
<1>2. CASE OpenNew(name, append)
  <2>1. PICK j \in FileNo : /\ NextEntry(j)
                            /\ dir' = [dir EXCEPT ![j] = NewEntry(name, j)]
                            /\ AllocFd(j, 0, append)
    BY <1>2 DEF OpenNew
  <2>2. /\ dir'[j] = NewEntry(name, j) /\ dir'[j].size = 0
        /\ \A i \in FileNo \ {j} : dir'[i] = dir[i]
    BY <2>1 DEF IInv, TypeOK, NewEntry
  <2>3. ~IsOpen(j)
    BY <2>1 DEF NextEntry, IsOpen, IInv, FdTableWellFormed
  <2>4. OneDescriptor' /\ PositionWithinSize'
    BY <2>1, <2>2, <2>3, ApartAlloc DEF Apart
  <2>5. Neighbours'
    <3> SUFFICES ASSUME NEW i \in FileNo, i + 1 \in FileNo, dir'[i + 1].used
                 PROVE  dir'[i].start + dir'[i].size <= dir'[i + 1].start
      BY DEF Neighbours
    <3>1. CASE i = j
      <4>1. ~dir[i + 1].used
        BY <2>1, <3>1, NewEntryFacts, CapacityAssumption
      <4> QED
        BY <2>2, <3>1, <4>1, CapacityAssumption
    <3>2. CASE i + 1 = j
      <4>1. dir'[j].start = dir[i].start + dir[i].size + Gap
        BY <2>2, <3>2, CapacityAssumption DEF NewEntry
      <4>2. dir'[i] = dir[i] /\ dir[i].start \in Nat /\ dir[i].size \in Nat
        BY <2>2, <3>2, CapacityAssumption DEF IInv, TypeOK, DirEntry
      <4> QED
        BY <3>2, <4>1, <4>2, CapacityAssumption
    <3>3. CASE i # j /\ i + 1 # j
      BY <2>2, <3>3 DEF Apart, Neighbours
    <3> QED
      BY <3>1, <3>2, <3>3
  <2> QED
    BY <2>4, <2>5 DEF Apart
<1>3. CASE OpenFails(name, create)
  BY <1>3, ApartSame DEF OpenFails
<1> QED
  BY <1>1, <1>2, <1>3 DEF SysOpen

LEMMA ApartClose ==
  ASSUME DInv, NEW fd \in FdNo, SysClose(fd)
  PROVE  Apart'
<1> USE DEF DInv
<1>1. CASE fds[fd].type # "FILE"
  BY <1>1, ApartSame DEF SysClose
<1>2. CASE fds[fd].type = "FILE"
  <2> DEFINE e == fds[fd].entry
  <2>1. /\ dir' = [dir EXCEPT ![e].size = fds[fd].position]
        /\ fds' = [fds EXCEPT ![fd].type = "NONE"]
    BY <1>2 DEF SysClose
  <2>2. /\ e \in FileNo /\ fds[fd].position \in Nat
        /\ fds[fd].position <= dir[e].size
        /\ \A i \in FileNo : dir[i].start \in Nat /\ dir[i].size \in Nat
    BY <1>2 DEF IInv, TypeOK, FdTableWellFormed, File, DirEntry, Apart, PositionWithinSize
  <2>3. \A i \in FileNo : /\ dir'[i].start = dir[i].start
                          /\ dir'[i].used = dir[i].used
                          /\ dir'[i].size = IF i = e THEN fds[fd].position ELSE dir[i].size
    BY <2>1, <2>2 DEF IInv, TypeOK, DirEntry
  <2>4. Neighbours'
    BY <2>2, <2>3 DEF Apart, Neighbours
  <2>5. \A k \in FdNo : fds'[k].type = "FILE" => k # fd /\ fds'[k] = fds[k]
    BY <2>1 DEF IInv, TypeOK, File
  <2>6. OneDescriptor'
    BY <2>5 DEF Apart, OneDescriptor
  <2>7. \A k \in FdNo : fds'[k].type = "FILE" => fds[k].entry \in FileNo \ {e}
    BY <1>2, <2>5 DEF Apart, OneDescriptor, IInv, FdTableWellFormed
  <2>8. PositionWithinSize'
    BY <2>3, <2>5, <2>7 DEF Apart, PositionWithinSize
  <2> QED
    BY <2>4, <2>6, <2>8 DEF Apart
<1> QED
  BY <1>1, <1>2

LEMMA ApartRead ==
  ASSUME DInv, NEW fd, NEW count \in 0 .. MaxCount, SysRead(fd, count)
  PROVE  Apart'
<1> USE DEF DInv
<1>1. CASE fd \in FdNo /\ FileRead(fd, count)
  <2> DEFINE e == dir[fds[fd].entry]
             n == ReadCount(fds[fd].position, e.size, count)
  <2>1. /\ fds[fd].type = "FILE" /\ dir' = dir
        /\ fds' = [fds EXCEPT ![fd].position = @ + n]
    BY <1>1 DEF FileRead
  <2>2. /\ fds[fd].position \in Nat /\ e.size \in Nat /\ fds[fd].position <= e.size
        /\ count \in Nat
    BY <1>1, <2>1, CapacityAssumption
    DEF IInv, TypeOK, FdTableWellFormed, File, DirEntry, Apart, PositionWithinSize
  <2>3. fds[fd].position + n <= e.size
    BY <2>2 DEF ReadCount
  <2>4. \A k \in FdNo : /\ fds'[k].type = fds[k].type
                        /\ fds'[k].entry = fds[k].entry
                        /\ fds'[k].position = IF k = fd THEN fds[k].position + n
                                              ELSE fds[k].position
    BY <1>1, <2>1 DEF IInv, TypeOK, File
  <2> QED
    BY <1>1, <2>1, <2>3, <2>4
    DEF Apart, Neighbours, OneDescriptor, PositionWithinSize
<1>2. CASE (fd \in FdNo /\ TtyRead(fd, count)) \/ BadFd(fd)
  BY <1>2, ApartSame DEF TtyRead, BadFd
<1> QED
  BY <1>1, <1>2 DEF SysRead

LEMMA ApartWrite ==
  ASSUME DInv, NEW fd, NEW buf \in Buffers, StaysInRoom(fd, buf), SysWrite(fd, buf)
  PROVE  Apart'
<1> USE DEF DInv
<1>1. CASE fd \in FdNo /\ FileWrite(fd, buf)
  <2> DEFINE i == fds[fd].entry
             end == fds[fd].position + Len(buf)
  <2>1. /\ fds[fd].type = "FILE"
        /\ fds' = [fds EXCEPT ![fd].position = end]
        /\ dir' = [dir EXCEPT ![i].size = IF end > @ THEN end ELSE @]
    BY <1>1 DEF FileWrite
  <2>2. /\ i \in FileNo /\ fds[fd].position \in Nat /\ end \in Nat
        /\ \A h \in FileNo : dir[h].start \in Nat /\ dir[h].size \in Nat
    BY <1>1, <2>1, BuffersAreSequences
    DEF IInv, TypeOK, FdTableWellFormed, File, DirEntry
  <2>3. i + 1 \in FileNo /\ dir[i + 1].used => dir[i].start + end <= dir[i + 1].start
    BY <1>1, <2>1, <2>2, BuffersAreSequences DEF StaysInRoom, RoomEnd
  <2>4. \A h \in FileNo :
          /\ dir'[h].start = dir[h].start
          /\ dir'[h].used = dir[h].used
          /\ dir'[h].size = IF h = i /\ end > dir[i].size THEN end ELSE dir[h].size
    BY <2>1, <2>2 DEF IInv, TypeOK, DirEntry
  <2>5. Neighbours'
    BY <2>2, <2>3, <2>4 DEF Apart, Neighbours
  <2>6. \A k \in FdNo : /\ fds'[k].type = fds[k].type
                        /\ fds'[k].entry = fds[k].entry
                        /\ fds'[k].position = IF k = fd THEN end ELSE fds[k].position
    BY <1>1, <2>1 DEF IInv, TypeOK, File
  <2>7. OneDescriptor'
    BY <2>6 DEF Apart, OneDescriptor
  <2>8. PositionWithinSize'
    <3> SUFFICES ASSUME NEW k \in FdNo, fds'[k].type = "FILE"
                 PROVE  fds'[k].position <= dir'[fds'[k].entry].size
      BY DEF PositionWithinSize
    <3>1. CASE k = fd
      BY <2>2, <2>4, <2>6, <3>1
    <3>2. CASE k # fd
      <4>1. fds[k].entry \in FileNo \ {i}
        BY <1>1, <2>1, <2>6, <3>2 DEF Apart, OneDescriptor, IInv, FdTableWellFormed
      <4> QED
        BY <2>4, <2>6, <3>2, <4>1 DEF Apart, PositionWithinSize
    <3> QED
      BY <3>1, <3>2
  <2> QED
    BY <2>5, <2>7, <2>8 DEF Apart
<1>2. CASE (fd \in FdNo /\ TtyWrite(fd, Len(buf))) \/ BadFd(fd)
  BY <1>2, ApartSame DEF TtyWrite, BadFd
<1> QED
  BY <1>1, <1>2 DEF SysWrite

LEMMA DisciplinedStep ==
  ASSUME DInv, [DisciplinedNext]_vars
  PROVE  DInv'
<1> USE DEF DInv
<1>1. CASE UNCHANGED vars
  <2>1. IInv'
    BY <1>1 DEF vars, IInv, TypeOK, DirectoryWellFormed, UsedPrefix, UniqueNames,
         OrderedStarts, FdTableWellFormed
  <2> QED
    BY <1>1, <2>1, ApartSame DEF vars
<1>2. CASE DisciplinedNext
  <2>1. Next
    BY <1>2 DEF DisciplinedNext, Next
  <2>2. IInv'
    BY <2>1, NextStep
  <2>3. Apart'
    <3>1. ASSUME NEW name \in Names, NEW append \in BOOLEAN, NEW create \in BOOLEAN,
                 \A i \in FileNo : Named(i, name) => ~IsOpen(i),
                 SysOpen(name, append, create)
          PROVE  Apart'
      BY <3>1, ApartOpen
    <3>2. ASSUME NEW fd \in FdNo, SysClose(fd)
          PROVE  Apart'
      BY <3>2, ApartClose
    <3>3. ASSUME NEW fd, NEW count \in 0 .. MaxCount, SysRead(fd, count)
          PROVE  Apart'
      BY <3>3, ApartRead
    <3>4. ASSUME NEW fd, NEW buf \in Buffers, StaysInRoom(fd, buf), SysWrite(fd, buf)
          PROVE  Apart'
      BY <3>4, ApartWrite
    <3>5. ASSUME NEW name \in Names, SysExecve(name)
          PROVE  Apart'
      BY <3>5, ApartSame DEF SysExecve
    <3>6. CASE SysExit
      BY <3>6, ApartSame DEF SysExit
    <3> QED
      BY <1>2, <3>1, <3>2, <3>3, <3>4, <3>5, <3>6 DEF DisciplinedNext
  <2> QED
    BY <2>2, <2>3
<1> QED
  BY <1>1, <1>2

\* From neighbour to neighbour: the starts are in order.
LEMMA NeighboursSuffice ==
  ASSUME DInv
  PROVE  ExtentsDisjoint
<1> SUFFICES ASSUME NEW i \in FileNo, NEW j \in FileNo, i < j, dir[i].used, dir[j].used
             PROVE  dir[i].start + dir[i].size <= dir[j].start
  BY DEF ExtentsDisjoint
<1>1. i + 1 \in FileNo /\ i + 1 <= j
  BY CapacityAssumption
<1>2. dir[i + 1].used /\ (i + 1 < j => dir[i + 1].start < dir[j].start)
  BY <1>1 DEF DInv, IInv, DirectoryWellFormed, UsedPrefix, OrderedStarts
<1>3. dir[i].start + dir[i].size <= dir[i + 1].start
  BY <1>1, <1>2 DEF DInv, Apart, Neighbours
<1>4. /\ dir[i].start \in Nat /\ dir[i].size \in Nat
      /\ dir[i + 1].start \in Nat /\ dir[j].start \in Nat
  BY <1>1 DEF DInv, IInv, TypeOK, DirEntry
<1> QED
  BY <1>1, <1>2, <1>3, <1>4, CapacityAssumption

\* In every state that programs keeping to the discipline can reach, its invariant
\* holds (sysopen.c, sysclose.c, sysread.c, syswrite.c).
THEOREM DisciplineInvariance == DisciplinedSpec => []DInv
<1>1. Init => DInv
  BY InitTypeOK, InitTables, ApartInit DEF DInv, IInv
<1>2. DInv /\ [DisciplinedNext]_vars => DInv'
  BY DisciplinedStep
<1> QED
  BY <1>1, <1>2, PTL DEF DisciplinedSpec

\* Programs that open a file once at a time and write within the room before
\* the next one never let two files share a byte, whatever they create, close
\* and write in whatever order (sysopen.c:16, sysclose.c:11, syswrite.c:9).
THEOREM FilesStayApart == DisciplinedSpec => []ExtentsDisjoint
<1>1. DInv => ExtentsDisjoint
  BY NeighboursSuffice
<1> QED
  BY <1>1, DisciplineInvariance, PTL

\* Under the same discipline no descriptor stands past the end of its file, so
\* file_read's test for equality does find every end (sysread.c:19).
THEOREM EveryEndIsFound == DisciplinedSpec => []PositionWithinSize
<1>1. DInv => PositionWithinSize
  BY DEF DInv, Apart
<1> QED
  BY <1>1, DisciplineInvariance, PTL

-----------------------------------------------------------------------------
(* The refinement: every disciplined call is a step of FileStore.          *)

\* Files in use have a name a program can ask for, and their bytes are in RAM.
Legible ==
  \A i \in FileNo : dir[i].used =>
    /\ dir[i].name \in Names
    /\ dir[i].size > 0 => dir[i].start + dir[i].size <= MemTop

SInv == DInv /\ Legible

LEMMA LegibleSame ==
  ASSUME Legible, UNCHANGED dir
  PROVE  Legible'
BY DEF Legible

LEMMA LegibleInit ==
  ASSUME Init
  PROVE  Legible
<1> SUFFICES ASSUME NEW i \in FileNo, dir[i].used
             PROVE  dir[i].name \in Names /\ dir[i].start + dir[i].size <= MemTop
  BY DEF Legible
<1>1. i < Len(BootFiles) /\ dir[i] = BootEntry(i)
  BY DEF Init, BootEntry
<1>2. i + 1 \in DOMAIN BootFiles
  BY <1>1, BootDomain, CapacityAssumption
<1>3. /\ dir[i].name = BootFiles[i + 1].name
      /\ dir[i].start = BootFiles[i + 1].start
      /\ dir[i].size = BootFiles[i + 1].size
  BY <1>1 DEF BootEntry
<1> QED
  BY <1>2, <1>3, BootTypes, BootAssumption

LEMMA LegibleOpen ==
  ASSUME SInv, NEW name \in Names, NEW append \in BOOLEAN, NEW create \in BOOLEAN,
         SysOpen(name, append, create)
  PROVE  Legible'
<1>1. CASE OpenNew(name, append)
  <2>1. PICK j \in FileNo : dir' = [dir EXCEPT ![j] = NewEntry(name, j)]
    BY <1>1 DEF OpenNew
  <2>2. /\ dir'[j].name = name /\ dir'[j].size = 0
        /\ \A i \in FileNo \ {j} : dir'[i] = dir[i]
    BY <2>1 DEF SInv, DInv, IInv, TypeOK, NewEntry
  <2> QED
    BY <2>2 DEF SInv, Legible
<1>2. CASE UNCHANGED dir
  BY <1>2, LegibleSame DEF SInv
<1> QED
  BY <1>1, <1>2 DEF SysOpen, OpenExisting, OpenFails

LEMMA LegibleClose ==
  ASSUME SInv, NEW fd \in FdNo, SysClose(fd)
  PROVE  Legible'
<1>1. CASE fds[fd].type # "FILE"
  BY <1>1, LegibleSame DEF SysClose, SInv
<1>2. CASE fds[fd].type = "FILE"
  <2> DEFINE e == fds[fd].entry
  <2>1. dir' = [dir EXCEPT ![e].size = fds[fd].position]
    BY <1>2 DEF SysClose
  <2>2. /\ e \in FileNo /\ fds[fd].position \in Nat
        /\ fds[fd].position <= dir[e].size
        /\ \A i \in FileNo : dir[i].start \in Nat /\ dir[i].size \in Nat
    BY <1>2 DEF SInv, DInv, IInv, TypeOK, FdTableWellFormed, File, DirEntry, Apart,
         PositionWithinSize
  <2>3. \A i \in FileNo : /\ dir'[i].start = dir[i].start
                          /\ dir'[i].used = dir[i].used
                          /\ dir'[i].name = dir[i].name
                          /\ dir'[i].size = IF i = e THEN fds[fd].position ELSE dir[i].size
    BY <2>1, <2>2 DEF SInv, DInv, IInv, TypeOK, DirEntry
  <2> QED
    BY <2>2, <2>3, CapacityAssumption DEF SInv, Legible
<1> QED
  BY <1>1, <1>2

LEMMA LegibleWrite ==
  ASSUME SInv, NEW fd, NEW buf \in Buffers, StaysInRoom(fd, buf), SysWrite(fd, buf)
  PROVE  Legible'
<1>1. CASE fd \in FdNo /\ FileWrite(fd, buf)
  <2> DEFINE i == fds[fd].entry
             end == fds[fd].position + Len(buf)
  <2>1. /\ fds[fd].type = "FILE"
        /\ dir' = [dir EXCEPT ![i].size = IF end > @ THEN end ELSE @]
    BY <1>1 DEF FileWrite
  <2>2. i \in FileNo
    BY <1>1, <2>1 DEF SInv, DInv, IInv, FdTableWellFormed
  <2>4. dir[i].start + end <= MemTop
    <3>1. dir[i].start + fds[fd].position + Len(buf) <= MemTop
      BY <1>1, <2>1 DEF StaysInRoom
    <3>2. dir[i].start \in Nat /\ fds[fd].position \in Nat /\ Len(buf) \in Nat
      BY <1>1, <2>1, <2>2, BuffersAreSequences DEF SInv, DInv, IInv, TypeOK, File, DirEntry
    <3> QED
      BY <3>1, <3>2
  <2>3. \A h \in FileNo :
          /\ dir'[h].start = dir[h].start
          /\ dir'[h].used = dir[h].used
          /\ dir'[h].name = dir[h].name
          /\ dir'[h].size = IF h = i /\ end > dir[i].size THEN end ELSE dir[h].size
    BY <2>1, <2>2 DEF SInv, DInv, IInv, TypeOK, DirEntry
  <2> QED
    BY <2>3, <2>4 DEF SInv, Legible
<1>2. CASE (fd \in FdNo /\ TtyWrite(fd, Len(buf))) \/ BadFd(fd)
  BY <1>2, LegibleSame DEF TtyWrite, BadFd, SInv
<1> QED
  BY <1>1, <1>2 DEF SysWrite

LEMMA StoreStep ==
  ASSUME SInv, [DisciplinedNext]_vars
  PROVE  SInv'
<1>1. DInv'
  BY DisciplinedStep DEF SInv
<1>2. Legible'
  <2>1. CASE UNCHANGED vars
    BY <2>1, LegibleSame DEF vars, SInv
  <2>2. ASSUME NEW name \in Names, NEW append \in BOOLEAN, NEW create \in BOOLEAN,
               SysOpen(name, append, create)
        PROVE  Legible'
    BY <2>2, LegibleOpen
  <2>3. ASSUME NEW fd \in FdNo, SysClose(fd)
        PROVE  Legible'
    BY <2>3, LegibleClose
  <2>4. ASSUME NEW fd, NEW count \in 0 .. MaxCount, SysRead(fd, count)
        PROVE  Legible'
    BY <2>4, LegibleSame DEF SysRead, FileRead, TtyRead, BadFd, SInv
  <2>5. ASSUME NEW fd, NEW buf \in Buffers, StaysInRoom(fd, buf), SysWrite(fd, buf)
        PROVE  Legible'
    BY <2>5, LegibleWrite
  <2>6. ASSUME NEW name \in Names, SysExecve(name)
        PROVE  Legible'
    BY <2>6, LegibleSame DEF SysExecve, SInv
  <2>7. CASE SysExit
    BY <2>7, LegibleSame DEF SysExit, SInv
  <2> QED
    BY <2>1, <2>2, <2>3, <2>4, <2>5, <2>6, <2>7 DEF DisciplinedNext
<1> QED
  BY <1>1, <1>2 DEF SInv

-----------------------------------------------------------------------------
(* What the mapping makes of directory and descriptors.                    *)

Mapping ==
  /\ \A i \in FileNo : dir[i].used =>
       /\ dir[i].name \in Names
       /\ StoreContent[dir[i].name] = Contents(i)
       /\ Contents(i) \in Seq(Byte)
       /\ Len(Contents(i)) = dir[i].size
       /\ Contents(i) # Absent
  /\ \A name \in Names : Missing(name) => StoreContent[name] = Absent

\* A disciplined file lies in RAM, each byte in the cell of its own address.
LEMMA InRam ==
  ASSUME SInv, NEW i \in FileNo, dir[i].used, NEW b \in 1 .. dir[i].size
  PROVE  dir[i].start + b - 1 \in Addr /\ Cell(dir[i].start + b - 1) = dir[i].start + b - 1
<1>1. dir[i].start \in Nat /\ dir[i].size \in Nat
  BY DEF SInv, DInv, IInv, TypeOK, DirEntry
<1>2. dir[i].start + dir[i].size <= MemTop
  BY <1>1 DEF SInv, Legible
<1>3. dir[i].start + b - 1 \in Addr
  BY <1>1, <1>2, CapacityAssumption DEF Addr
<1> QED
  BY <1>3, CellFacts

\* A write that ends within RAM reaches the bytes from its address on, no other.
LEMMA StoredInRam ==
  ASSUME NEW at \in Nat, NEW buf \in Buffers, at + Len(buf) <= MemTop, NEW x \in Addr
  PROVE  Stored(at, buf)[x] =
           IF x \in at .. at + Len(buf) - 1 THEN buf[x - at + 1] ELSE mem[x]
<1> DEFINE L == Len(buf)
           c == Cell(x - at)
<1>1. L \in Nat /\ MemTop \in Nat \ {0} /\ x \in 0 .. MemTop - 1
  BY BuffersAreSequences, CapacityAssumption DEF Addr
<1>2. Stored(at, buf)[x] = IF c + 1 <= L THEN buf[c + 1] ELSE mem[x]
  BY DEF Stored
<1>3. x >= at => c = x - at
  BY <1>1, CellFacts DEF Addr
<1>4. x < at => c \in Nat /\ c >= x - at + MemTop
  BY <1>1, CellFacts DEF Addr
<1> HIDE DEF L, c
<1>5. Stored(at, buf)[x] = IF x \in at .. at + L - 1 THEN buf[x - at + 1] ELSE mem[x]
  <2>1. CASE x >= at
    BY <1>1, <1>2, <1>3, <2>1
  <2>2. CASE x < at
    <3>1. ~(c + 1 <= L)
      BY <1>1, <1>4, <2>2 DEF L
    <3> QED
      BY <1>1, <1>2, <2>2, <3>1
  <2> QED
    BY <1>1, <2>1, <2>2
<1> QED
  BY <1>5 DEF L

LEMMA MappingHolds == SInv => Mapping
<1> SUFFICES ASSUME SInv PROVE Mapping
  OBVIOUS
<1>1. ASSUME NEW i \in FileNo, dir[i].used
      PROVE  /\ dir[i].name \in Names
             /\ StoreContent[dir[i].name] = Contents(i)
             /\ Contents(i) \in Seq(Byte)
             /\ Len(Contents(i)) = dir[i].size
             /\ Contents(i) # Absent
  <2>1. dir[i].name \in Names
    BY <1>1 DEF SInv, Legible
  <2>2. ~Missing(dir[i].name)
    BY <1>1 DEF Missing, Named
  <2>3. \A j \in FileNo : Named(j, dir[i].name) => j = i
    BY <1>1 DEF SInv, DInv, IInv, DirectoryWellFormed, UniqueNames, Named
  <2>4. (CHOOSE j \in FileNo : Named(j, dir[i].name)) = i
    BY <1>1, <2>3 DEF Named
  <2>5. StoreContent[dir[i].name] = Contents(i)
    BY <2>1, <2>2, <2>4 DEF StoreContent
  <2>6. dir[i].start \in Nat /\ dir[i].size \in Nat
    BY DEF SInv, DInv, IInv, TypeOK, DirEntry
  <2>7. \A b \in 1 .. dir[i].size : mem[Cell(dir[i].start + b - 1)] \in Byte
    <3>1. \A b \in 1 .. dir[i].size : Cell(dir[i].start + b - 1) \in Addr
      BY <2>6, CellFacts
    <3>2. mem \in [Addr -> Byte]
      BY DEF SInv, DInv, IInv, TypeOK
    <3> HIDE DEF Addr
    <3> QED
      BY <3>1, <3>2
  <2>8. Contents(i) \in [1 .. dir[i].size -> Byte]
    BY <2>7 DEF Contents
  <2>9. Contents(i) \in Seq(Byte) /\ Len(Contents(i)) = dir[i].size
    <3>1. Contents(i) \in Seq(Byte)
      BY <2>6, <2>8, SeqDef
    <3>2. DOMAIN Contents(i) = 1 .. dir[i].size
      BY <2>8
    <3>3. /\ Len(Contents(i)) \in Nat
          /\ DOMAIN Contents(i) = 1 .. Len(Contents(i))
      BY <3>1, LenProperties
    <3> QED
      BY <2>6, <3>1, <3>2, <3>3
  <2> QED
    BY <2>1, <2>5, <2>9, AbsentAssumption
<1>2. ASSUME NEW name \in Names, Missing(name)
      PROVE  StoreContent[name] = Absent
  BY <1>2 DEF StoreContent
<1> QED
  BY <1>1, <1>2 DEF Mapping

LEMMA MappingNext == SInv' => Mapping'
BY MappingHolds, PTL

\* A step that changes what file i holds, and perhaps puts it in the directory.
LEMMA ContentChange ==
  ASSUME SInv, SInv', NEW i \in FileNo, dir'[i].used,
         dir[i].used => dir'[i].name = dir[i].name,
         ~dir[i].used => Missing(dir'[i].name),
         \A j \in FileNo \ {i} : /\ dir'[j].used = dir[j].used
                                 /\ dir'[j].name = dir[j].name
                                 /\ dir[j].used => Contents(j)' = Contents(j)
  PROVE  StoreContent' = [StoreContent EXCEPT ![dir'[i].name] = Contents(i)']
<1>1. Mapping /\ Mapping'
  BY MappingHolds, MappingNext
<1>2. /\ StoreContent = [name \in Names |-> StoreContent[name]]
      /\ StoreContent' = [name \in Names |-> StoreContent'[name]]
  BY DEF StoreContent
<1>3. StoreContent'[dir'[i].name] = Contents(i)'
  BY <1>1 DEF Mapping
<1>4. ASSUME NEW name \in Names, name # dir'[i].name
      PROVE  StoreContent'[name] = StoreContent[name]
  <2>1. CASE Missing(name)
    <3>1. Missing(name)'
      BY <1>4, <2>1 DEF Missing, Named
    <3> QED
      BY <1>1, <2>1, <3>1 DEF Mapping
  <2>2. CASE ~Missing(name)
    <3>1. PICK j \in FileNo : dir[j].used /\ dir[j].name = name
      BY <2>2 DEF Missing, Named
    <3>2. j # i
      BY <1>4, <3>1
    <3> QED
      BY <1>1, <3>1, <3>2 DEF Mapping
  <2> QED
    BY <2>1, <2>2
<1> QED
  BY <1>2, <1>3, <1>4

LEMMA ContentSame ==
  ASSUME UNCHANGED <<dir, mem>>
  PROVE  StoreContent' = StoreContent
BY DEF StoreContent, Missing, Named, Contents

\* What the mapping makes of a descriptor, by its type.
Handles ==
  \A k \in FdNo :
    /\ fds[k].type = "NONE" => StoreHandle[k] = Store!Closed
    /\ fds[k].type = "TTY" => StoreHandle[k] = Store!Tty
    /\ fds[k].type = "FILE" =>
         StoreHandle[k] = Store!OpenAt(dir[fds[k].entry].name, fds[k].position)
    /\ fds[k].type \in {"NONE", "TTY", "FILE"}
    /\ Store!IsFile(k) <=> fds[k].type = "FILE"

LEMMA HandlesHold == SInv => Handles
<1> SUFFICES ASSUME SInv, NEW k \in FdNo
             PROVE  /\ fds[k].type = "NONE" => StoreHandle[k] = Store!Closed
                    /\ fds[k].type = "TTY" => StoreHandle[k] = Store!Tty
                    /\ fds[k].type = "FILE" =>
                         StoreHandle[k] = Store!OpenAt(dir[fds[k].entry].name, fds[k].position)
                    /\ fds[k].type \in {"NONE", "TTY", "FILE"}
                    /\ Store!IsFile(k) <=> fds[k].type = "FILE"
  BY DEF Handles
<1>1. fds[k].type \in {"NONE", "TTY", "FILE"}
  BY DEF SInv, DInv, IInv, TypeOK, File
<1>2. CASE fds[k].type = "NONE"
  BY <1>2 DEF StoreHandle, HandleOf, Store!Closed, Store!IsFile
<1>3. CASE fds[k].type = "TTY"
  BY <1>3 DEF StoreHandle, HandleOf, Store!Tty, Store!IsFile
<1>4. CASE fds[k].type = "FILE"
  BY <1>4 DEF StoreHandle, HandleOf, Store!OpenAt, Store!IsFile
<1> QED
  BY <1>1, <1>2, <1>3, <1>4

LEMMA HandlesNext == SInv' => Handles'
BY HandlesHold, PTL

\* A step that touches one descriptor and renames no file changes one handle.
LEMMA HandleChange ==
  ASSUME SInv, SInv', NEW k \in FdNo, \A h \in FdNo \ {k} : fds'[h] = fds[h],
         \A i \in FileNo : dir[i].used => dir'[i].name = dir[i].name
  PROVE  StoreHandle' = [StoreHandle EXCEPT ![k] = StoreHandle'[k]]
<1>1. Handles /\ Handles'
  BY HandlesHold, HandlesNext
<1>2. /\ StoreHandle = [h \in FdNo |-> StoreHandle[h]]
      /\ StoreHandle' = [h \in FdNo |-> StoreHandle'[h]]
  BY DEF StoreHandle
<1>3. ASSUME NEW h \in FdNo \ {k}
      PROVE  StoreHandle'[h] = StoreHandle[h]
  <2>1. CASE fds[h].type = "FILE"
    <3>1. dir'[fds[h].entry].name = dir[fds[h].entry].name
      BY <2>1 DEF SInv, DInv, IInv, FdTableWellFormed
    <3>2. h \in FdNo /\ fds'[h] = fds[h]
      BY <1>3
    <3>3. StoreHandle[h] = Store!OpenAt(dir[fds[h].entry].name, fds[h].position)
      BY <1>1, <2>1, <3>2 DEF Handles
    <3>4. StoreHandle'[h] = Store!OpenAt(dir'[fds'[h].entry].name, fds'[h].position)
      BY <1>1, <2>1, <3>2 DEF Handles
    <3> QED
      BY <3>1, <3>2, <3>3, <3>4
  <2>2. CASE fds[h].type # "FILE"
    BY <1>1, <1>3, <2>2 DEF Handles, Store!Closed, Store!Tty
  <2> QED
    BY <2>1, <2>2
<1> QED
  BY <1>2, <1>3

LEMMA HandleSame ==
  ASSUME SInv, SInv', UNCHANGED fds,
         \A i \in FileNo : dir[i].used => dir'[i].name = dir[i].name
  PROVE  StoreHandle' = StoreHandle
<1>1. 0 \in FdNo
  BY CapacityAssumption
<1>2. StoreHandle' = [StoreHandle EXCEPT ![0] = StoreHandle'[0]]
  BY <1>1, HandleChange
<1>3. StoreHandle'[0] = StoreHandle[0]
  <2>1. fds[0].type = "TTY" /\ fds'[0].type = "TTY"
    BY <1>1 DEF SInv, DInv, IInv, FdTableWellFormed
  <2> QED
    BY <1>1, <2>1, HandlesHold, HandlesNext DEF Handles, Store!Tty
<1>4. StoreHandle = [h \in FdNo |-> StoreHandle[h]]
  BY DEF StoreHandle
<1> QED
  BY <1>1, <1>2, <1>3, <1>4

LEMMA ExistsMeansFound ==
  ASSUME SInv, NEW name \in Names
  PROVE  Store!Exists(name) <=> ~Missing(name)
<1>1. Mapping
  BY MappingHolds
<1>2. CASE Missing(name)
  BY <1>1, <1>2 DEF Mapping, Store!Exists
<1>3. CASE ~Missing(name)
  <2>1. PICK i \in FileNo : dir[i].used /\ dir[i].name = name
    BY <1>3 DEF Missing, Named
  <2> QED
    BY <1>1, <1>3, <2>1 DEF Mapping, Store!Exists
<1> QED
  BY <1>2, <1>3

\* The second half of sysopen gives out a handle or fails.
LEMMA StoreAlloc ==
  ASSUME SInv, SInv', NEW i \in FileNo, NEW append \in BOOLEAN, NEW size, NEW name,
         dir'[i].used, dir'[i].size = size, dir'[i].name = name,
         \A j \in FileNo : dir[j].used => dir'[j].name = dir[j].name,
         AllocFd(i, size, append)
  PROVE  \/ \E h \in FdNo :
              /\ Store!Return(h)
              /\ StoreHandle[h] = Store!Closed
              /\ StoreHandle' = [StoreHandle EXCEPT ![h] =
                   Store!OpenAt(name, IF append THEN Len(StoreContent'[name]) ELSE 0)]
         \/ Store!Return(-1) /\ UNCHANGED StoreHandle
<1>1. Len(StoreContent'[name]) = size
  BY MappingNext DEF Mapping
<1>2. CASE UNCHANGED fds /\ Return(Error)
  BY <1>2, HandleSame DEF Return, Store!Return, Error
<1>3. ASSUME NEW k \in FdNo, NextFd(k), Return(k),
             fds' = [fds EXCEPT ![k] = [type |-> "FILE", entry |-> i,
                                        position |-> IF append THEN size ELSE 0]]
      PROVE  /\ Store!Return(k)
             /\ StoreHandle[k] = Store!Closed
             /\ StoreHandle' = [StoreHandle EXCEPT ![k] =
                  Store!OpenAt(name, IF append THEN Len(StoreContent'[name]) ELSE 0)]
  <2>1. /\ fds'[k] = [type |-> "FILE", entry |-> i,
                      position |-> IF append THEN size ELSE 0]
        /\ \A h \in FdNo \ {k} : fds'[h] = fds[h]
    BY <1>3 DEF SInv, DInv, IInv, TypeOK
  <2>2. StoreHandle' = [StoreHandle EXCEPT ![k] = StoreHandle'[k]]
    BY <2>1, HandleChange
  <2>3. StoreHandle'[k] = Store!OpenAt(dir'[fds'[k].entry].name, fds'[k].position)
    BY <2>1, HandlesNext DEF Handles
  <2>4. /\ fds'[k].entry = i
        /\ fds'[k].position = IF append THEN Len(StoreContent'[name]) ELSE 0
    BY <1>1, <2>1
  <2>5. StoreHandle[k] = Store!Closed
    BY <1>3, HandlesHold DEF Handles, NextFd
  <2>6. StoreHandle'[k] =
          Store!OpenAt(name, IF append THEN Len(StoreContent'[name]) ELSE 0)
    BY <2>3, <2>4
  <2> QED
    BY <1>3, <2>2, <2>5, <2>6 DEF Return, Store!Return
<1> QED
  BY <1>2, <1>3 DEF AllocFd

LEMMA StoreOpen ==
  ASSUME SInv, SInv', NEW name \in Names, NEW append \in BOOLEAN, NEW create \in BOOLEAN,
         SysOpen(name, append, create)
  PROVE  Store!Open(name, append, create) \/ Store!OpenFails(name, append, create)
<1>1. call' = <<"open", name, append, create>>
  BY DEF SysOpen
<1>2. Store!Exists(name) <=> ~Missing(name)
  BY ExistsMeansFound
<1>3. CASE OpenExisting(name, append)
  <2>1. PICK i \in FileNo : /\ Found(i, name)
                            /\ AllocFd(i, dir[i].size, append)
                            /\ UNCHANGED <<dir, mem, running>>
    BY <1>3 DEF OpenExisting
  <2>2. dir[i].used /\ dir[i].name = name
    BY <2>1 DEF Found, Named
  <2>3. Store!Exists(name)
    BY <1>2, <2>2 DEF Missing, Named
  <2>4. StoreContent' = StoreContent
    BY <2>1, ContentSame
  <2>5. \/ \E h \in FdNo :
             /\ Store!Return(h)
             /\ StoreHandle[h] = Store!Closed
             /\ StoreHandle' = [StoreHandle EXCEPT ![h] =
                  Store!OpenAt(name, IF append THEN Len(StoreContent'[name]) ELSE 0)]
        \/ Store!Return(-1) /\ UNCHANGED StoreHandle
    BY <2>1, <2>2, StoreAlloc
  <2> QED
    BY <1>1, <2>3, <2>4, <2>5 DEF Store!Open, Store!OpenFails
<1>4. CASE create /\ OpenNew(name, append)
  <2>1. PICK j \in FileNo : /\ NextEntry(j)
                            /\ dir' = [dir EXCEPT ![j] = NewEntry(name, j)]
                            /\ AllocFd(j, 0, append)
    BY <1>4 DEF OpenNew
  <2>2. Missing(name) /\ mem' = mem /\ ~dir[j].used
    BY <1>4, <2>1 DEF OpenNew, NextEntry
  <2>3. /\ dir'[j].name = name /\ dir'[j].size = 0 /\ dir'[j].used
        /\ \A i \in FileNo \ {j} : dir'[i] = dir[i]
    BY <2>1 DEF SInv, DInv, IInv, TypeOK, NewEntry
  <2>4. StoreContent' = [StoreContent EXCEPT ![name] = Contents(j)']
    <3>1. \A i \in FileNo \ {j} : Contents(i)' = Contents(i)
      BY <2>2, <2>3 DEF Contents
    <3> QED
      BY <2>2, <2>3, <3>1, ContentChange
  <2>5. Contents(j)' = <<>>
    <3>1. Contents(j)' \in Seq(Byte) /\ Len(Contents(j)') = 0
      BY <2>3, MappingNext DEF Mapping
    <3> QED
      BY <3>1, EmptySeq
  <2>6. ~Store!Exists(name)
    BY <1>2, <2>2
  <2>7. \/ \E h \in FdNo :
             /\ Store!Return(h)
             /\ StoreHandle[h] = Store!Closed
             /\ StoreHandle' = [StoreHandle EXCEPT ![h] =
                  Store!OpenAt(name, IF append THEN Len(StoreContent'[name]) ELSE 0)]
        \/ Store!Return(-1) /\ UNCHANGED StoreHandle
    <3>1. \A i \in FileNo : dir[i].used => dir'[i].name = dir[i].name
      BY <2>2, <2>3
    <3> QED
      BY <2>1, <2>3, <3>1, StoreAlloc
  <2> QED
    BY <1>1, <1>4, <2>4, <2>5, <2>6, <2>7 DEF Store!Open, Store!OpenFails
<1>5. CASE OpenFails(name, create)
  <2>1. StoreContent' = StoreContent
    BY <1>5, ContentSame DEF OpenFails
  <2>2. StoreHandle' = StoreHandle
    BY <1>5, HandleSame DEF OpenFails
  <2> QED
    BY <1>1, <1>5, <2>1, <2>2 DEF OpenFails, Store!OpenFails, Return, Store!Return, Error
<1> QED
  BY <1>3, <1>4, <1>5 DEF SysOpen

LEMMA StoreClose ==
  ASSUME SInv, SInv', NEW fd \in FdNo, SysClose(fd)
  PROVE  Store!Close(fd) \/ Store!NotAFile(fd)
<1>1. call' = <<"close", fd>>
  BY DEF SysClose
<1>2. CASE fds[fd].type # "FILE"
  <2>1. UNCHANGED <<dir, fds, mem>> /\ Return(Error)
    BY <1>2 DEF SysClose
  <2>2. StoreContent' = StoreContent /\ StoreHandle' = StoreHandle
    BY <2>1, ContentSame, HandleSame
  <2>3. ~Store!IsFile(fd)
    BY <1>2, HandlesHold DEF Handles
  <2>4. Store!Return(-1) /\ -1 \in -1 .. MaxCount
    BY <2>1, CapacityAssumption DEF Return, Store!Return, Error
  <2> QED
    BY <1>1, <2>2, <2>3, <2>4 DEF Store!NotAFile, Store!IsCallOn
<1>3. CASE fds[fd].type = "FILE"
  <2>0. PICK e \in FileNo : e = fds[fd].entry
    BY <1>3 DEF SInv, DInv, IInv, FdTableWellFormed
  <2> DEFINE p == fds[fd].position
             nm == dir[e].name
  <2>1. /\ dir' = [dir EXCEPT ![e].size = p]
        /\ fds' = [fds EXCEPT ![fd].type = "NONE"]
        /\ Return(0) /\ mem' = mem
    BY <1>3, <2>0 DEF SysClose
  <2>2. /\ e \in FileNo /\ dir[e].used /\ p \in Nat /\ p <= dir[e].size
        /\ \A i \in FileNo : dir[i].start \in Nat /\ dir[i].size \in Nat
    BY <1>3, <2>0 DEF SInv, DInv, IInv, TypeOK, FdTableWellFormed, File, DirEntry, Apart,
         PositionWithinSize
  <2>3. \A i \in FileNo : /\ dir'[i].start = dir[i].start
                          /\ dir'[i].used = dir[i].used
                          /\ dir'[i].name = dir[i].name
                          /\ dir'[i].size = IF i = e THEN p ELSE dir[i].size
    BY <2>1, <2>2 DEF SInv, DInv, IInv, TypeOK, DirEntry
  <2>4. /\ fds'[fd].type = "NONE"
        /\ \A h \in FdNo \ {fd} : fds'[h] = fds[h]
    BY <2>1 DEF SInv, DInv, IInv, TypeOK, File
  <2>5. /\ StoreHandle[fd] = Store!OpenAt(nm, p)
        /\ Store!IsFile(fd)
    BY <1>3, <2>0, HandlesHold DEF Handles
  <2>6. StoreHandle' = [StoreHandle EXCEPT ![fd] = Store!Closed]
    <3>1. StoreHandle'[fd] = Store!Closed
      BY <2>4, HandlesNext DEF Handles
    <3> QED
      BY <2>3, <2>4, <3>1, HandleChange
  <2>7. StoreContent' = [StoreContent EXCEPT ![nm] = Contents(e)']
    <3>1. \A i \in FileNo \ {e} : Contents(i)' = Contents(i)
      BY <2>1, <2>3 DEF Contents
    <3>2. dir'[e].used /\ dir'[e].name = nm
      BY <2>2, <2>3
    <3>3. \A i \in FileNo \ {e} : dir'[i].used = dir[i].used /\ dir'[i].name = dir[i].name
      BY <2>3
    <3>4. e \in FileNo /\ dir[e].used
      BY <2>2
    <3>5. StoreContent' = [StoreContent EXCEPT ![dir'[e].name] = Contents(e)']
      BY <3>1, <3>2, <3>3, <3>4, ContentChange
    <3> QED
      BY <3>2, <3>5
  <2>8. Contents(e)' = SubSeq(Contents(e), 1, p)
    <3> DEFINE c == Contents(e)
               d == Contents(e)'
               t == SubSeq(Contents(e), 1, p)
    <3>1. c \in Seq(Byte) /\ Len(c) = dir[e].size
      BY <2>2, MappingHolds DEF Mapping
    <3>2. d \in Seq(Byte) /\ Len(d) = p
      <4>1. e \in FileNo /\ dir'[e].used /\ dir'[e].size = p
        BY <2>2, <2>3
      <4> HIDE DEF p
      <4> QED
        BY <4>1, MappingNext DEF Mapping
    <3>3. /\ \A b \in 1 .. p : c[b] = mem[Cell(dir[e].start + b - 1)]
          /\ \A b \in 1 .. p : d[b] = mem[Cell(dir[e].start + b - 1)]
      BY <2>1, <2>2, <2>3 DEF Contents
    <3>4. \A b \in 1 .. p : c[b] \in Byte
      BY <2>2, <3>1, ElementOfSeq
    <3>5. /\ t \in Seq(Byte) /\ Len(t) = p
          /\ \A b \in 1 .. p : t[b] = c[b]
      <4> HIDE DEF c, p
      <4>1. p \in Nat
        BY <2>2
      <4>2. /\ t \in Seq(Byte)
            /\ Len(t) = IF 1 <= p THEN p - 1 + 1 ELSE 0
            /\ \A b \in 1 .. p - 1 + 1 : t[b] = c[1 + b - 1]
        BY <3>4, <4>1, SubSeqProperties DEF c
      <4> QED
        BY <4>1, <4>2
    <3> HIDE DEF c, d, t, p
    <3>6. d = t
      BY <3>2, <3>3, <3>5, SeqEqual
    <3> QED
      BY <3>6 DEF c, d, t, p
  <2>9. StoreContent[nm] = Contents(e)
    BY <2>2, MappingHolds DEF Mapping
  <2>10. /\ StoreHandle[fd].name = nm
         /\ StoreHandle[fd].position = p
    BY <2>5 DEF Store!OpenAt
  <2>11. Store!Return(0)
    BY <2>1 DEF Return, Store!Return
  <2>12. StoreContent' = [StoreContent EXCEPT ![nm] = SubSeq(@, 1, p)]
    BY <2>7, <2>8, <2>9
  <2> HIDE DEF nm, p
  <2> QED
    BY <1>1, <2>5, <2>6, <2>10, <2>11, <2>12 DEF Store!Close
<1> QED
  BY <1>2, <1>3

\* The n elements after the first m of a sequence.
LEMMA Stretch ==
  ASSUME NEW S, NEW c \in Seq(S), NEW m \in Nat, NEW n \in Nat, m + n <= Len(c)
  PROVE  /\ SubSeq(c, m + 1, m + n) \in Seq(S)
         /\ Len(SubSeq(c, m + 1, m + n)) = n
         /\ \A b \in 1 .. n : SubSeq(c, m + 1, m + n)[b] = c[m + b]
<1> DEFINE lo == m + 1
           hi == m + n
<1>1. Len(c) \in Nat
  BY LenProperties
<1>2. lo \in Int /\ hi \in Int
  OBVIOUS
<1>3. \A b \in lo .. hi : b \in 1 .. Len(c)
  BY <1>1
<1>4. \A b \in lo .. hi : c[b] \in S
  BY <1>3, ElementOfSeq
<1>5. /\ hi - lo + 1 = n
      /\ n = IF lo <= hi THEN hi - lo + 1 ELSE 0
      /\ \A b \in 1 .. n : lo + b - 1 = m + b
  OBVIOUS
<1> HIDE DEF lo, hi
<1>6. /\ SubSeq(c, lo, hi) \in Seq(S)
      /\ Len(SubSeq(c, lo, hi)) = IF lo <= hi THEN hi - lo + 1 ELSE 0
      /\ \A b \in 1 .. hi - lo + 1 : SubSeq(c, lo, hi)[b] = c[lo + b - 1]
  BY <1>2, <1>4, SubSeqProperties
<1>7. /\ SubSeq(c, lo, hi) \in Seq(S)
      /\ Len(SubSeq(c, lo, hi)) = n
      /\ \A b \in 1 .. n : SubSeq(c, lo, hi)[b] = c[m + b]
  <2> DEFINE u == SubSeq(c, lo, hi)
  <2> HIDE DEF u
  <2>1. /\ u \in Seq(S)
        /\ Len(u) = IF lo <= hi THEN hi - lo + 1 ELSE 0
        /\ \A b \in 1 .. hi - lo + 1 : u[b] = c[lo + b - 1]
    BY <1>6 DEF u
  <2>2. u \in Seq(S) /\ Len(u) = n /\ \A b \in 1 .. n : u[b] = c[m + b]
    BY <2>1, <1>5
  <2> QED
    BY <2>2 DEF u
<1> QED
  BY <1>7 DEF lo, hi

\* What is known of the file behind a descriptor, and how the store sees it.
LEMMA OpenFile ==
  ASSUME SInv, NEW fd \in FdNo, fds[fd].type = "FILE",
         NEW i \in FileNo, i = fds[fd].entry
  PROVE  /\ dir[i].used
         /\ dir[i].start \in Nat /\ dir[i].size \in Nat
         /\ fds[fd].position \in Nat /\ fds[fd].position <= dir[i].size
         /\ StoreHandle[fd] = Store!OpenAt(dir[i].name, fds[fd].position)
         /\ StoreHandle[fd].name = dir[i].name
         /\ StoreHandle[fd].position = fds[fd].position
         /\ Store!IsFile(fd)
         /\ StoreContent[dir[i].name] = Contents(i)
         /\ Contents(i) \in Seq(Byte) /\ Len(Contents(i)) = dir[i].size
         /\ \A b \in 1 .. dir[i].size : /\ Contents(i)[b] = mem[Cell(dir[i].start + b - 1)]
                                        /\ Contents(i)[b] \in Byte
<1>1. dir[i].used
  BY DEF SInv, DInv, IInv, FdTableWellFormed
<1>2. /\ dir[i].start \in Nat /\ dir[i].size \in Nat
      /\ fds[fd].position \in Nat /\ fds[fd].position <= dir[i].size
  BY DEF SInv, DInv, IInv, TypeOK, File, DirEntry, Apart, PositionWithinSize
<1>3. /\ StoreHandle[fd] = Store!OpenAt(dir[i].name, fds[fd].position)
      /\ Store!IsFile(fd)
  BY HandlesHold DEF Handles
<1>4. /\ StoreHandle[fd].name = dir[i].name
      /\ StoreHandle[fd].position = fds[fd].position
  BY <1>3 DEF Store!OpenAt
<1>5. /\ StoreContent[dir[i].name] = Contents(i)
      /\ Contents(i) \in Seq(Byte) /\ Len(Contents(i)) = dir[i].size
  BY <1>1, MappingHolds DEF Mapping
<1>6. \A b \in 1 .. dir[i].size : Contents(i)[b] = mem[Cell(dir[i].start + b - 1)]
  BY DEF Contents
<1>7. \A b \in 1 .. dir[i].size : Contents(i)[b] \in Byte
  BY <1>5, ElementOfSeq
<1> QED
  BY <1>1, <1>2, <1>3, <1>4, <1>5, <1>6, <1>7

LEMMA HandleMoves ==
  ASSUME SInv, SInv', NEW fd \in FdNo, fds[fd].type = "FILE", NEW q,
         fds' = [fds EXCEPT ![fd].position = q],
         \A i \in FileNo : dir[i].used => dir'[i].name = dir[i].name
  PROVE  StoreHandle' = [StoreHandle EXCEPT ![fd].position = q]
<1>0. PICK i \in FileNo : i = fds[fd].entry
  BY DEF SInv, DInv, IInv, FdTableWellFormed
<1>1. /\ fds'[fd].type = "FILE" /\ fds'[fd].entry = i /\ fds'[fd].position = q
      /\ \A h \in FdNo \ {fd} : fds'[h] = fds[h]
  BY <1>0 DEF SInv, DInv, IInv, TypeOK, File
<1>2. StoreHandle' = [StoreHandle EXCEPT ![fd] = StoreHandle'[fd]]
  BY <1>1, HandleChange
<1>3. dir[i].used /\ StoreHandle[fd] = Store!OpenAt(dir[i].name, fds[fd].position)
  BY <1>0, OpenFile
<1>4. StoreHandle'[fd] = Store!OpenAt(dir[i].name, q)
  BY <1>1, <1>3, HandlesNext DEF Handles
<1>5. [StoreHandle[fd] EXCEPT !.position = q] = Store!OpenAt(dir[i].name, q)
  BY <1>3 DEF Store!OpenAt
<1> QED
  BY <1>2, <1>4, <1>5

\* Calls on the terminal or on a number that is no descriptor.
LEMMA StoreNotAFile ==
  ASSUME SInv, SInv', NEW fd \in FdNo \cup BadFdNo, Store!IsCallOn(fd),
         fd \in FdNo => fds[fd].type # "FILE",
         NEW v \in -1 .. MaxCount, Return(v), UNCHANGED <<dir, fds, mem>>
  PROVE  Store!NotAFile(fd)
<1>1. StoreContent' = StoreContent /\ StoreHandle' = StoreHandle
  BY ContentSame, HandleSame
<1>2. fd \in FdNo => ~Store!IsFile(fd)
  BY HandlesHold DEF Handles
<1>3. \E w \in -1 .. MaxCount : Store!Return(w)
  BY DEF Return, Store!Return
<1> QED
  BY <1>1, <1>2, <1>3 DEF Store!NotAFile

LEMMA StoreRead ==
  ASSUME SInv, SInv', NEW fd \in FdNo \cup BadFdNo, NEW count \in 0 .. MaxCount,
         SysRead(fd, count)
  PROVE  (fd \in FdNo /\ Store!Read(fd, count)) \/ Store!NotAFile(fd)
<1>1. call' = <<"read", fd, count>> /\ Store!IsCallOn(fd)
  BY DEF SysRead, Store!IsCallOn
<1>2. CASE fd \in FdNo /\ FileRead(fd, count)
  <2>1. fds[fd].type = "FILE"
    BY <1>2 DEF FileRead
  <2>2. PICK i \in FileNo : i = fds[fd].entry
    BY <1>2, <2>1 DEF SInv, DInv, IInv, FdTableWellFormed
  <2> DEFINE c == Contents(i)
             p == fds[fd].position
             n == ReadCount(p, dir[i].size, count)
             t == SubSeq(c, p + 1, p + n)
             data == [b \in 1 .. n |-> mem[Cell(dir[i].start + p + b - 1)]]
  <2>3. /\ fds' = [fds EXCEPT ![fd].position = @ + n]
        /\ result' = [value |-> n, data |-> data]
        /\ UNCHANGED <<dir, mem>>
    BY <1>2, <2>2 DEF FileRead
  <2>4. /\ dir[i].start \in Nat /\ dir[i].size \in Nat
        /\ p \in Nat /\ p <= dir[i].size
        /\ StoreHandle[fd].name = dir[i].name
        /\ StoreHandle[fd].position = p
        /\ Store!IsFile(fd)
        /\ StoreContent[dir[i].name] = c
        /\ c \in Seq(Byte) /\ Len(c) = dir[i].size
        /\ \A b \in 1 .. dir[i].size : c[b] = mem[Cell(dir[i].start + b - 1)] /\ c[b] \in Byte
    BY <1>2, <2>1, <2>2, OpenFile
  <2>5. /\ n = IF Len(c) - p < count THEN Len(c) - p ELSE count
        /\ n \in Nat /\ p + n <= dir[i].size
    BY <2>4, CapacityAssumption DEF ReadCount
  <2>6. data = t
    <3> HIDE DEF c, p, n
    <3>1. /\ t \in Seq(Byte) /\ Len(t) = n
          /\ \A b \in 1 .. n : t[b] = mem[Cell(dir[i].start + p + b - 1)]
      <4>1. p \in Nat /\ n \in Nat /\ p + n <= Len(c) /\ c \in Seq(Byte)
        BY <2>4, <2>5
      <4>2. /\ t \in Seq(Byte) /\ Len(t) = n
            /\ \A b \in 1 .. n : t[b] = c[p + b]
        BY <4>1, Stretch
      <4> HIDE DEF t
      <4>3. ASSUME NEW b \in 1 .. n
            PROVE  t[b] = mem[Cell(dir[i].start + p + b - 1)]
        <5>1. p + b \in 1 .. dir[i].size
          BY <2>4, <2>5
        <5>2. t[b] = c[p + b]
          BY <4>2
        <5>3. c[p + b] = mem[Cell(dir[i].start + (p + b) - 1)]
          BY <2>4, <5>1
        <5>4. dir[i].start + (p + b) - 1 = dir[i].start + p + b - 1
          BY <2>4
        <5> QED
          BY <5>2, <5>3, <5>4
      <4> QED
        BY <4>2, <4>3
    <3>2. t = [b \in 1 .. n |-> t[b]]
      <4> HIDE DEF t
      <4> QED
        BY <3>1, LenProperties
    <3> HIDE DEF t
    <3> QED
      BY <3>1, <3>2
  <2>7. StoreContent' = StoreContent
    BY <2>3, ContentSame
  <2>8. StoreHandle' = [StoreHandle EXCEPT ![fd].position = p + n]
    <3>1. fds' = [fds EXCEPT ![fd].position = p + n]
      BY <2>3
    <3> HIDE DEF n, p
    <3> QED
      BY <1>2, <2>1, <2>3, <3>1, HandleMoves
  <2> HIDE DEF c, n, p, data
  <2> QED
    BY <1>1, <1>2, <2>3, <2>4, <2>5, <2>6, <2>7, <2>8 DEF Store!Read
<1>3. CASE fd \in FdNo /\ TtyRead(fd, count)
  <2>1. PICK n \in 0 .. count : Return(n)
    BY <1>3 DEF TtyRead
  <2>2. n \in -1 .. MaxCount
    BY CapacityAssumption
  <2>3. UNCHANGED <<dir, fds, mem>> /\ fds[fd].type = "TTY"
    BY <1>3 DEF TtyRead
  <2> QED
    BY <1>1, <2>1, <2>2, <2>3, StoreNotAFile
<1>4. CASE BadFd(fd)
  <2>1. -1 \in -1 .. MaxCount /\ Return(-1)
    BY <1>4, CapacityAssumption DEF BadFd, Error
  <2>2. UNCHANGED <<dir, fds, mem>> /\ (fd \in FdNo => fds[fd].type = "NONE")
    BY <1>4 DEF BadFd
  <2> QED
    BY <1>1, <2>1, <2>2, StoreNotAFile
<1> QED
  BY <1>2, <1>3, <1>4 DEF SysRead

\* What Overwrite makes of a sequence, element by element.
LEMMA Overwritten ==
  ASSUME NEW S, NEW c \in Seq(S), NEW buf \in Seq(S), NEW p \in 0 .. Len(c)
  PROVE  /\ Store!Overwrite(c, p, buf) \in Seq(S)
         /\ Len(Store!Overwrite(c, p, buf)) =
              IF p + Len(buf) > Len(c) THEN p + Len(buf) ELSE Len(c)
         /\ \A b \in 1 .. Len(Store!Overwrite(c, p, buf)) :
              Store!Overwrite(c, p, buf)[b] =
                IF b <= p THEN c[b]
                ELSE IF b <= p + Len(buf) THEN buf[b - p] ELSE c[b]
<1> DEFINE L == Len(buf)
           left == SubSeq(c, 1, p)
           right == SubSeq(c, p + L + 1, Len(c))
<1>1. Len(c) \in Nat /\ L \in Nat /\ p \in Nat /\ p <= Len(c)
  BY LenProperties
<1>2. /\ left \in Seq(S) /\ Len(left) = p
      /\ \A b \in 1 .. p : left[b] = c[b]
  <2>1. /\ SubSeq(c, 0 + 1, 0 + p) \in Seq(S)
        /\ Len(SubSeq(c, 0 + 1, 0 + p)) = p
        /\ \A b \in 1 .. p : SubSeq(c, 0 + 1, 0 + p)[b] = c[0 + b]
    <3>1. 0 \in Nat /\ 0 + p <= Len(c)
      BY <1>1
    <3> QED
      BY <1>1, <3>1, Stretch
  <2>2. 0 + 1 = 1 /\ 0 + p = p /\ \A b \in 1 .. p : 0 + b = b
    BY <1>1
  <2> QED
    BY <2>1, <2>2
<1>3. /\ right \in Seq(S)
      /\ Len(right) = IF p + L > Len(c) THEN 0 ELSE Len(c) - (p + L)
      /\ \A b \in 1 .. Len(right) : right[b] = c[p + L + b]
  <2>1. CASE p + L > Len(c)
    <3>1. right = << >>
      BY <1>1, <2>1, SubSeqEmpty
    <3>2. right \in Seq(S) /\ Len(right) = 0
      BY <3>1, EmptySeq
    <3> HIDE DEF right
    <3> QED
      BY <2>1, <3>2
  <2>2. CASE p + L <= Len(c)
    <3> DEFINE m == p + L
               n == Len(c) - (p + L)
    <3>1. m \in Nat /\ n \in Nat /\ m + n = Len(c) /\ m + n <= Len(c)
      BY <1>1, <2>2
    <3>2. ~(p + L > Len(c))
      BY <1>1, <2>2
    <3> HIDE DEF m, n
    <3>3. /\ SubSeq(c, m + 1, m + n) \in Seq(S)
          /\ Len(SubSeq(c, m + 1, m + n)) = n
          /\ \A b \in 1 .. n : SubSeq(c, m + 1, m + n)[b] = c[m + b]
      BY <3>1, Stretch
    <3>4. right = SubSeq(c, m + 1, m + n)
      BY <3>1 DEF m
    <3> HIDE DEF right
    <3>5. /\ right \in Seq(S) /\ Len(right) = n
          /\ \A b \in 1 .. n : right[b] = c[m + b]
      BY <3>3, <3>4
    <3> QED
      BY <3>2, <3>5 DEF m, n
  <2> QED
    BY <1>1, <2>1, <2>2
<1> HIDE DEF left, right
<1>4. /\ left \o buf \in Seq(S)
      /\ Len(left \o buf) = p + L
      /\ \A b \in 1 .. p + L :
           (left \o buf)[b] = IF b <= p THEN left[b] ELSE buf[b - p]
  <2>1. /\ left \o buf \in Seq(S)
        /\ Len(left \o buf) = Len(left) + Len(buf)
        /\ \A b \in 1 .. Len(left) + Len(buf) :
             (left \o buf)[b] = IF b <= Len(left) THEN left[b] ELSE buf[b - Len(left)]
    BY <1>2, ConcatProperties
  <2> QED
    BY <1>2, <2>1
<1> DEFINE front == left \o buf
           w == front \o right
<1> HIDE DEF front
<1>5. /\ front \in Seq(S) /\ Len(front) = p + L
      /\ \A b \in 1 .. p + L : front[b] = IF b <= p THEN left[b] ELSE buf[b - p]
  BY <1>4 DEF front
<1>6. /\ w \in Seq(S) /\ Len(w) = Len(front) + Len(right)
      /\ \A b \in 1 .. Len(front) + Len(right) :
           w[b] = IF b <= Len(front) THEN front[b] ELSE right[b - Len(front)]
  BY <1>3, <1>5, ConcatProperties
<1>7. w = Store!Overwrite(c, p, buf)
  BY DEF Store!Overwrite, front, left, right
<1> HIDE DEF w
<1>8. Len(w) = IF p + L > Len(c) THEN p + L ELSE Len(c)
  <2>1. CASE p + L > Len(c)
    <3>1. Len(w) = p + L + 0
      BY <1>3, <1>5, <1>6, <2>1
    <3> QED
      BY <1>1, <2>1, <3>1
  <2>2. CASE ~(p + L > Len(c))
    <3>1. Len(w) = (p + L) + (Len(c) - (p + L))
      BY <1>3, <1>5, <1>6, <2>2
    <3> QED
      BY <1>1, <2>2, <3>1
  <2> QED
    BY <2>1, <2>2
<1>9. ASSUME NEW b \in 1 .. Len(w)
      PROVE  w[b] = IF b <= p THEN c[b] ELSE IF b <= p + L THEN buf[b - p] ELSE c[b]
  <2>1. CASE b <= p + L
    <3>1. w[b] = IF b <= p THEN left[b] ELSE buf[b - p]
      BY <1>1, <1>5, <1>6, <1>9, <2>1
    <3>2. b <= p => left[b] = c[b]
      BY <1>1, <1>2, <1>8, <1>9
    <3> QED
      BY <2>1, <3>1, <3>2
  <2>2. CASE b > p + L
    <3>1. ~(p + L > Len(c)) /\ b - (p + L) \in 1 .. Len(c) - (p + L)
      BY <1>1, <1>8, <1>9, <2>2
    <3>2. w[b] = right[b - (p + L)]
      BY <1>1, <1>5, <1>6, <1>9, <2>2
    <3>3. right[b - (p + L)] = c[p + L + (b - (p + L))]
      BY <1>3, <3>1
    <3>4. p + L + (b - (p + L)) = b /\ ~(b <= p + L) /\ ~(b <= p)
      BY <1>1, <1>8, <1>9, <2>2
    <3> QED
      BY <3>2, <3>3, <3>4
  <2> QED
    BY <1>1, <1>8, <1>9, <2>1, <2>2
<1> QED
  BY <1>6, <1>7, <1>8, <1>9

LEMMA BufferIsBytes ==
  ASSUME NEW buf \in Buffers
  PROVE  buf \in Seq(Byte) /\ Len(buf) \in 0 .. MaxCount
<1>1. PICK n \in 0 .. MaxCount : buf \in [1 .. n -> Byte]
  BY DEF Buffers
<1>2. n \in Nat
  BY CapacityAssumption
<1>3. buf \in Seq(Byte)
  BY <1>1, <1>2, SeqDef
<1>4. Len(buf) \in Nat /\ DOMAIN buf = 1 .. Len(buf)
  BY <1>3, LenProperties
<1>5. DOMAIN buf = 1 .. n
  BY <1>1
<1> QED
  BY <1>1, <1>2, <1>3, <1>4, <1>5

\* A write of a disciplined program reaches the bytes of no other file.
LEMMA WriteKeepsOthers ==
  ASSUME SInv, NEW fd \in FdNo, NEW buf \in Buffers, FileWrite(fd, buf), StaysInRoom(fd, buf),
         NEW i \in FileNo, i = fds[fd].entry, NEW j \in FileNo, j # i, dir[j].used
  PROVE  Contents(j)' = Contents(j)
<1> DEFINE a == dir[i].start + fds[fd].position
           L == Len(buf)
<1>1. /\ fds[fd].type = "FILE"
      /\ mem' = Stored(a, buf)
      /\ dir' = [dir EXCEPT ![i].size = IF fds[fd].position + L > @
                                        THEN fds[fd].position + L ELSE @]
  BY DEF FileWrite
<1>2. /\ dir[i].used /\ fds[fd].position \in Nat /\ fds[fd].position <= dir[i].size
      /\ L \in Nat
  BY <1>1, OpenFile, BufferIsBytes
<1>3. \A k \in FileNo : dir[k].start \in Nat /\ dir[k].size \in Nat
  BY DEF SInv, DInv, IInv, TypeOK, DirEntry
<1>4. dir'[j] = dir[j]
  BY <1>1 DEF SInv, DInv, IInv, TypeOK
<1>5. \A b \in 1 .. dir[j].size : dir[j].start + b - 1 \notin a .. a + L - 1
  <2>1. CASE j < i
    <3>1. dir[j].start + dir[j].size <= dir[i].start
      BY <1>2, <2>1, NeighboursSuffice DEF SInv, ExtentsDisjoint
    <3>2. a \in Nat /\ dir[i].start <= a
      <4>1. dir[i].start \in Nat /\ fds[fd].position \in Nat
        BY <1>2, <1>3
      <4> QED
        BY <4>1
    <3>3. dir[j].start \in Nat /\ dir[j].size \in Nat /\ dir[i].start \in Nat
      BY <1>3
    <3> HIDE DEF a, L
    <3> QED
      BY <1>2, <3>1, <3>2, <3>3
  <2>2. CASE i < j
    <3>1. i + 1 \in FileNo /\ i + 1 <= j
      BY <2>2, CapacityAssumption
    <3>2. dir[i + 1].used /\ (i + 1 < j => dir[i + 1].start < dir[j].start)
      BY <3>1 DEF SInv, DInv, IInv, DirectoryWellFormed, UsedPrefix, OrderedStarts
    <3>3. RoomEnd(i) = dir[i + 1].start
      BY <3>1, <3>2 DEF RoomEnd
    <3>4. a + L <= dir[i + 1].start
      BY <1>1, <3>3 DEF StaysInRoom
    <3>5. dir[i + 1].start <= dir[j].start
      BY <1>3, <3>1, <3>2
    <3>6. a \in Nat /\ a + L <= dir[j].start
      <4>1. /\ dir[i].start \in Nat /\ fds[fd].position \in Nat
            /\ dir[i + 1].start \in Nat /\ dir[j].start \in Nat
        BY <1>2, <1>3, <3>1
      <4>2. a \in Nat
        BY <4>1
      <4> HIDE DEF a, L
      <4> QED
        BY <1>2, <3>4, <3>5, <4>1, <4>2
    <3>7. dir[j].start \in Nat /\ dir[j].size \in Nat
      BY <1>3
    <3> HIDE DEF a, L
    <3> QED
      BY <1>2, <3>6, <3>7
  <2> QED
    BY <2>1, <2>2, CapacityAssumption
<1>6. a \in Nat /\ a + L <= MemTop
  <2>1. a + L <= MemTop
    BY <1>1 DEF StaysInRoom
  <2>2. a \in Nat
    BY <1>2, <1>3
  <2> QED
    BY <2>1, <2>2
<1>7. ASSUME NEW b \in 1 .. dir[j].size
      PROVE  mem'[Cell(dir[j].start + b - 1)] = mem[Cell(dir[j].start + b - 1)]
  <2> DEFINE x == dir[j].start + b - 1
  <2>1. x \in Addr /\ Cell(x) = x
    BY InRam
  <2>2. x \notin a .. a + L - 1
    BY <1>5
  <2> HIDE DEF a, x
  <2>3. mem'[x] = mem[x]
    BY <1>1, <1>6, <2>1, <2>2, StoredInRam DEF L
  <2> QED
    BY <2>1, <2>3 DEF x
<1> QED
  BY <1>4, <1>7 DEF Contents

InCells ==
  \A i \in FileNo : dir[i].used =>
    \A b \in 1 .. dir[i].size : Cell(dir[i].start + b - 1) = dir[i].start + b - 1

LEMMA InCellsHolds == SInv => InCells
BY InRam DEF InCells

LEMMA InCellsNext == SInv' => InCells'
BY InCellsHolds, PTL

LEMMA StoreFileWrite ==
  ASSUME SInv, SInv', NEW fd \in FdNo, NEW buf \in Buffers, StaysInRoom(fd, buf),
         FileWrite(fd, buf), call' = <<"write", fd, buf>>
  PROVE  Store!Write(fd, buf)
<1>1. fds[fd].type = "FILE"
  BY DEF FileWrite
<1>2. PICK i \in FileNo : i = fds[fd].entry
  BY <1>1 DEF SInv, DInv, IInv, FdTableWellFormed
<1> DEFINE c == Contents(i)
           d == Contents(i)'
           p == fds[fd].position
           L == Len(buf)
           st == dir[i].start
           w == Store!Overwrite(c, p, buf)
<1>3. /\ mem' = Stored(st + p, buf)
      /\ fds' = [fds EXCEPT ![fd].position = p + L]
      /\ dir' = [dir EXCEPT ![i].size = IF p + L > @ THEN p + L ELSE @]
      /\ Return(L)
  BY <1>2 DEF FileWrite
<1>4. /\ dir[i].used
      /\ st \in Nat /\ dir[i].size \in Nat
      /\ p \in Nat /\ p <= dir[i].size
      /\ StoreHandle[fd].name = dir[i].name
      /\ StoreHandle[fd].position = p
      /\ Store!IsFile(fd)
      /\ StoreContent[dir[i].name] = c
      /\ c \in Seq(Byte) /\ Len(c) = dir[i].size
      /\ \A b \in 1 .. dir[i].size : c[b] = mem[st + b - 1] /\ c[b] \in Byte
  <2>1. /\ dir[i].used
        /\ st \in Nat /\ dir[i].size \in Nat
        /\ p \in Nat /\ p <= dir[i].size
        /\ StoreHandle[fd].name = dir[i].name
        /\ StoreHandle[fd].position = p
        /\ Store!IsFile(fd)
        /\ StoreContent[dir[i].name] = c
        /\ c \in Seq(Byte) /\ Len(c) = dir[i].size
        /\ \A b \in 1 .. dir[i].size : c[b] = mem[Cell(st + b - 1)] /\ c[b] \in Byte
    BY <1>1, <1>2, OpenFile
  <2>2. \A b \in 1 .. dir[i].size : Cell(st + b - 1) = st + b - 1
    BY <2>1, InCellsHolds DEF InCells
  <2> HIDE DEF c, st, p
  <2> QED
    BY <2>1, <2>2
<1>5. buf \in Seq(Byte) /\ L \in Nat
  BY BufferIsBytes
<1>0. st + p \in Nat /\ st + p + L <= MemTop
  <2>1. st + p + L <= MemTop
    BY <1>1, <1>2 DEF StaysInRoom
  <2>2. st + p \in Nat
    BY <1>4
  <2> QED
    BY <2>1, <2>2
<1>6. \A h \in FileNo :
        /\ dir'[h].start = dir[h].start
        /\ dir'[h].used = dir[h].used
        /\ dir'[h].name = dir[h].name
        /\ dir'[h].size = IF h = i /\ p + L > dir[i].size THEN p + L ELSE dir[h].size
  BY <1>3 DEF SInv, DInv, IInv, TypeOK, DirEntry
<1> DEFINE s == dir'[i].size
<1>7. s = IF p + L > dir[i].size THEN p + L ELSE dir[i].size
  BY <1>6
<1>8. d \in Seq(Byte) /\ Len(d) = s
  <2>1. dir'[i].used
    BY <1>4, <1>6
  <2> QED
    BY <2>1, MappingNext DEF Mapping
<1>9. /\ w \in Seq(Byte) /\ Len(w) = s
      /\ \A b \in 1 .. Len(w) :
           w[b] = IF b <= p THEN c[b] ELSE IF b <= p + L THEN buf[b - p] ELSE c[b]
  <2>1. p \in 0 .. Len(c)
    BY <1>4
  <2> HIDE DEF c, p
  <2>2. /\ w \in Seq(Byte)
        /\ Len(w) = IF p + L > Len(c) THEN p + L ELSE Len(c)
        /\ \A b \in 1 .. Len(w) :
             w[b] = IF b <= p THEN c[b] ELSE IF b <= p + L THEN buf[b - p] ELSE c[b]
    BY <1>4, <1>5, <2>1, Overwritten
  <2> HIDE DEF w
  <2> QED
    BY <1>4, <1>7, <2>2
<1>10. ASSUME NEW b \in 1 .. s
       PROVE  d[b] = IF b <= p THEN c[b] ELSE IF b <= p + L THEN buf[b - p] ELSE c[b]
  <2>1. d[b] = mem'[st + b - 1]
    <3>1. dir'[i].start = st /\ dir'[i].used
      BY <1>4, <1>6
    <3>2. \A e \in 1 .. s : Cell(st + e - 1) = st + e - 1
      BY <3>1, InCellsNext DEF InCells
    <3> QED
      BY <3>1, <3>2 DEF Contents
  <2>2. s \in Nat /\ st + b - 1 \in Addr
    <3>1. s \in Nat
      BY <1>4, <1>5, <1>7
    <3>2. s > 0 => st + s <= MemTop
      BY <1>0, <1>4, <1>5, <1>7 DEF SInv, Legible
    <3> HIDE DEF s, st
    <3> QED
      BY <1>4, <3>1, <3>2, CapacityAssumption DEF Addr
  <2>3. d[b] = IF st + b - 1 \in (st + p) .. (st + p) + L - 1
               THEN buf[(st + b - 1) - (st + p) + 1] ELSE mem[st + b - 1]
    <3> DEFINE x == st + b - 1
               y == st + p
    <3>1. /\ mem' = Stored(y, buf) /\ x \in Addr /\ d[b] = mem'[x]
          /\ y \in Nat /\ y + L <= MemTop
      BY <1>0, <1>3, <2>1, <2>2
    <3> HIDE DEF x, y, d
    <3>2. d[b] = IF x \in y .. y + L - 1 THEN buf[x - y + 1] ELSE mem[x]
      BY <3>1, StoredInRam
    <3> QED
      BY ONLY <3>2 DEF x, y
  <2> HIDE DEF d, c, p, L, st, s
  <2>4. CASE b <= p
    <3>1. st + b - 1 \notin (st + p) .. (st + p) + L - 1 /\ b \in 1 .. dir[i].size
      BY <1>4, <1>5, <2>2, <2>4
    <3> QED
      BY <1>4, <2>3, <2>4, <3>1
  <2>5. CASE b > p /\ b <= p + L
    <3>1. /\ st + b - 1 \in (st + p) .. (st + p) + L - 1
          /\ (st + b - 1) - (st + p) + 1 = b - p
          /\ ~(b <= p)
      BY <1>4, <1>5, <2>2, <2>5
    <3> QED
      BY <2>3, <2>5, <3>1
  <2>6. CASE b > p + L
    <3>1. /\ st + b - 1 \notin (st + p) .. (st + p) + L - 1
          /\ ~(b <= p) /\ ~(b <= p + L)
          /\ b \in 1 .. dir[i].size
      BY <1>4, <1>5, <1>7, <2>2, <2>6 DEF s
    <3> QED
      BY <1>4, <2>3, <3>1
  <2> QED
    BY <1>4, <1>5, <2>2, <2>4, <2>5, <2>6
<1>11. d = w
  <2> HIDE DEF d, w, s, c, p, L
  <2> QED
    BY <1>8, <1>9, <1>10, SeqEqual
<1>12. StoreContent' = [StoreContent EXCEPT ![dir[i].name] = d]
  <2>1. \A j \in FileNo \ {i} : dir[j].used => Contents(j)' = Contents(j)
    BY <1>2, WriteKeepsOthers
  <2>2. dir'[i].used /\ dir'[i].name = dir[i].name
    BY <1>4, <1>6
  <2>3. \A j \in FileNo \ {i} : dir'[j].used = dir[j].used /\ dir'[j].name = dir[j].name
    BY <1>6
  <2>4. dir[i].used
    BY <1>4
  <2>5. StoreContent' = [StoreContent EXCEPT ![dir'[i].name] = Contents(i)']
    BY <2>1, <2>2, <2>3, <2>4, ContentChange
  <2> QED
    BY <2>2, <2>5
<1>13. StoreHandle' = [StoreHandle EXCEPT ![fd].position = p + L]
  <2>1. \A h \in FileNo : dir[h].used => dir'[h].name = dir[h].name
    BY <1>6
  <2>2. fds' = [fds EXCEPT ![fd].position = p + L]
    BY <1>3
  <2> HIDE DEF p, L
  <2> QED
    BY <1>1, <2>1, <2>2, HandleMoves
<1>14. Store!Return(L)
  BY <1>3 DEF Return, Store!Return
<1>15. StoreContent' = [StoreContent EXCEPT ![dir[i].name] = Store!Overwrite(@, p, buf)]
  BY <1>4, <1>11, <1>12
<1> HIDE DEF p, c, d, w
<1> QED
  BY <1>4, <1>13, <1>14, <1>15 DEF Store!Write

LEMMA StoreWrite ==
  ASSUME SInv, SInv', NEW fd \in FdNo \cup BadFdNo, NEW buf \in Buffers,
         StaysInRoom(fd, buf), SysWrite(fd, buf)
  PROVE  (fd \in FdNo /\ Store!Write(fd, buf)) \/ Store!NotAFile(fd)
<1>0. Store!Buffers = Buffers
  BY DEF Buffers, Store!Buffers
<1>1. call' = <<"write", fd, buf>> /\ Store!IsCallOn(fd)
  BY <1>0 DEF SysWrite, Store!IsCallOn
<1>2. CASE fd \in FdNo /\ FileWrite(fd, buf)
  BY <1>1, <1>2, StoreFileWrite
<1>3. CASE fd \in FdNo /\ TtyWrite(fd, Len(buf))
  <2>1. UNCHANGED <<dir, fds, mem>> /\ fds[fd].type = "TTY" /\ Return(Len(buf))
    BY <1>3 DEF TtyWrite
  <2>2. Len(buf) \in -1 .. MaxCount
    BY BufferIsBytes, CapacityAssumption
  <2> QED
    BY <1>1, <2>1, <2>2, StoreNotAFile
<1>4. CASE BadFd(fd)
  <2>1. -1 \in -1 .. MaxCount /\ Return(-1)
    BY <1>4, CapacityAssumption DEF BadFd, Error
  <2>2. UNCHANGED <<dir, fds, mem>> /\ (fd \in FdNo => fds[fd].type = "NONE")
    BY <1>4 DEF BadFd
  <2> QED
    BY <1>1, <2>1, <2>2, StoreNotAFile
<1> QED
  BY <1>2, <1>3, <1>4 DEF SysWrite

LEMMA StoreSwitch ==
  ASSUME SInv, SInv', (\E name \in Names : SysExecve(name)) \/ SysExit
  PROVE  Store!Switch
<1>1. UNCHANGED <<dir, fds, mem>>
  BY DEF SysExecve, SysExit
<1>2. StoreContent' = StoreContent /\ StoreHandle' = StoreHandle
  BY <1>1, ContentSame, HandleSame
<1> QED
  BY <1>2 DEF SysExecve, SysExit, Store!Switch, Return, Store!Return

LEMMA StoreNext ==
  ASSUME SInv, SInv', [DisciplinedNext]_vars
  PROVE  [Store!Next]_(Store!vars)
<1>0. Store!Buffers = Buffers
  BY DEF Buffers, Store!Buffers
<1>1. CASE UNCHANGED vars
  <2>1. StoreContent' = StoreContent /\ StoreHandle' = StoreHandle
    BY <1>1, ContentSame, HandleSame DEF vars
  <2> QED
    BY <1>1, <2>1 DEF vars, Store!vars
<1>2. ASSUME NEW name \in Names, NEW append \in BOOLEAN, NEW create \in BOOLEAN,
             SysOpen(name, append, create)
      PROVE  Store!Next
  BY <1>2, StoreOpen DEF Store!Next
<1>3. ASSUME NEW fd \in FdNo, SysClose(fd)
      PROVE  Store!Next
  BY <1>3, StoreClose DEF Store!Next
<1>4. ASSUME NEW fd \in FdNo \cup BadFdNo, NEW count \in 0 .. MaxCount, SysRead(fd, count)
      PROVE  Store!Next
  BY <1>4, StoreRead DEF Store!Next
<1>5. ASSUME NEW fd \in FdNo \cup BadFdNo, NEW buf \in Buffers,
             StaysInRoom(fd, buf), SysWrite(fd, buf)
      PROVE  Store!Next
  BY <1>0, <1>5, StoreWrite DEF Store!Next
<1>6. CASE (\E name \in Names : SysExecve(name)) \/ SysExit
  BY <1>6, StoreSwitch DEF Store!Next
<1> QED
  BY <1>1, <1>2, <1>3, <1>4, <1>5, <1>6 DEF DisciplinedNext

LEMMA StoreInit ==
  ASSUME Init, SInv
  PROVE  Store!Init
<1>1. StoreContent \in [Names -> Seq(Byte) \cup {Absent}]
  <2>1. ASSUME NEW name \in Names
        PROVE  StoreContent[name] \in Seq(Byte) \cup {Absent}
    <3>1. Mapping
      BY MappingHolds
    <3>2. CASE Missing(name)
      BY <3>1, <3>2 DEF Mapping
    <3>3. CASE ~Missing(name)
      <4>1. PICK i \in FileNo : dir[i].used /\ dir[i].name = name
        BY <3>3 DEF Missing, Named
      <4> QED
        BY <3>1, <4>1 DEF Mapping
    <3> QED
      BY <3>2, <3>3
  <2> QED
    BY <2>1 DEF StoreContent
<1>2. StoreHandle \in [FdNo -> {Store!Closed, Store!Tty}]
  <2>1. ASSUME NEW k \in FdNo
        PROVE  StoreHandle[k] \in {Store!Closed, Store!Tty}
    <3>1. fds[k].type # "FILE"
      BY DEF Init, BootFile
    <3> QED
      BY <3>1, HandlesHold DEF Handles
  <2> QED
    BY <2>1 DEF StoreHandle
<1> QED
  BY <1>1, <1>2 DEF Init, Store!Init

\* The calls of programs that keep to the discipline are calls of a store of
\* separate named byte sequences: whatever the sizes of the tables, the RAM and
\* the boot layout, what a read returns is what was last written under that name
\* (sysopen.c, sysclose.c, sysread.c, syswrite.c).
THEOREM StoreImplemented == DisciplinedSpec => ImplementsStore
<1>1. Init => SInv
  BY InitTypeOK, InitTables, ApartInit, LegibleInit DEF SInv, DInv, IInv
<1>2. SInv /\ [DisciplinedNext]_vars => SInv'
  BY StoreStep
<1>3. Init /\ SInv => Store!Init
  BY StoreInit
<1>4. SInv /\ SInv' /\ [DisciplinedNext]_vars => [Store!Next]_(Store!vars)
  BY StoreNext
<1> QED
  BY <1>1, <1>2, <1>3, <1>4, PTL DEF DisciplinedSpec, ImplementsStore, Store!Spec
=============================================================================
