-------------------------- MODULE KernelFilesProofs --------------------------
(***************************************************************************)
(* Proofs about KernelFiles: the directory and the descriptor table stay   *)
(* well formed, and the kernel's RAM is reached only by a write past the   *)
(* top of RAM, for every directory size, descriptor count, boot layout and *)
(* sequence of calls.                                                      *)
(***************************************************************************)
EXTENDS KernelFiles, SequenceTheorems, TLAPS

\* The inductive invariant.  Types alone are not inductive: sysclose stores
\* through the descriptor's entry pointer and create_new_entry reads entry
\* j-1, so both tables must be well formed for either to keep its type.
IInv == TypeOK /\ DirectoryWellFormed /\ FdTableWellFormed

USE DEF FileNo, FdNo, Addr, NoEntry, Shell, Lost, Error

LEMMA BootDomain ==
  /\ Len(BootFiles) \in Nat
  /\ DOMAIN BootFiles = 1 .. Len(BootFiles)
BY BootAssumption

LEMMA BootTypes ==
  ASSUME NEW n \in DOMAIN BootFiles
  PROVE  /\ BootFiles[n] \in [name : Names, start : Nat, size : Nat]
         /\ BootFiles[n].name \in Names
         /\ BootFiles[n].start \in Nat
         /\ BootFiles[n].size \in Nat
<1>1. BootFiles \in Seq([name : Names, start : Nat, size : Nat])
  BY BootAssumption
<1>2. BootFiles[n] \in [name : Names, start : Nat, size : Nat]
  <2> DEFINE S == [name : Names, start : Nat, size : Nat]
  <2>1. BootFiles \in Seq(S) /\ n \in 1 .. Len(BootFiles)
    BY <1>1, BootDomain
  <2> HIDE DEF S
  <2>2. BootFiles[n] \in S
    BY <2>1, ElementOfSeq
  <2>3. QED BY <2>2 DEF S
<1>3. QED
  BY <1>2

LEMMA InitTypeOK == Init => TypeOK
<1> SUFFICES ASSUME Init PROVE TypeOK
  OBVIOUS
<1>1. ASSUME NEW i \in FileNo PROVE BootEntry(i) \in DirEntry
  <2>1. CASE i < Len(BootFiles)
    <3>1. i + 1 \in DOMAIN BootFiles
      BY <2>1, BootDomain, CapacityAssumption
    <3>2. QED
      BY <2>1, <3>1, BootTypes DEF BootEntry, DirEntry
  <2>2. CASE ~(i < Len(BootFiles))
    BY <2>2 DEF BootEntry, DirEntry
  <2>3. QED BY <2>1, <2>2
<1>2. ASSUME NEW k \in FdNo PROVE BootFile(k) \in File
  BY DEF BootFile, File
<1>3. <<>> \in Seq(Byte)
  OBVIOUS
<1>4. QED
  BY <1>1, <1>2, <1>3, ImageAssumption DEF Init, TypeOK, Result

LEMMA InitTables == Init => DirectoryWellFormed /\ FdTableWellFormed
<1> SUFFICES ASSUME Init PROVE DirectoryWellFormed /\ FdTableWellFormed
  OBVIOUS
<1>1. ASSUME NEW i \in FileNo
      PROVE  /\ dir[i].used <=> i < Len(BootFiles)
             /\ i < Len(BootFiles) => /\ dir[i].name = BootFiles[i + 1].name
                                      /\ dir[i].start = BootFiles[i + 1].start
  BY DEF Init, BootEntry
<1>2. /\ Len(BootFiles) \in Nat \ {0}
      /\ DOMAIN BootFiles = 1 .. Len(BootFiles)
  BY BootDomain, BootAssumption
<1>3. UsedPrefix
  BY <1>1, <1>2, CapacityAssumption DEF UsedPrefix
<1>4. UniqueNames
  <2>1. ASSUME NEW i \in FileNo, NEW j \in FileNo, i < j,
               dir[i].used, dir[j].used, dir[i].name = dir[j].name
        PROVE  FALSE
    <3>1. i + 1 \in DOMAIN BootFiles /\ j + 1 \in DOMAIN BootFiles /\ i + 1 < j + 1
      BY <1>1, <1>2, <2>1
    <3>2. QED BY <3>1, <1>1, <2>1, BootAssumption
  <2>2. QED BY <2>1 DEF UniqueNames
<1>5. OrderedStarts
  <2>1. ASSUME NEW i \in FileNo, NEW j \in FileNo, i < j, dir[j].used
        PROVE  dir[i].start < dir[j].start
    <3>1. i + 1 \in DOMAIN BootFiles /\ j + 1 \in DOMAIN BootFiles /\ i + 1 < j + 1
      BY <1>1, <1>2, <2>1
    <3>2. BootFiles[i + 1].start < BootFiles[j + 1].start
      BY <3>1, BootAssumption
    <3>3. QED BY <3>1, <3>2, <1>1, <1>2, <2>1
  <2>2. ASSUME NEW i \in FileNo, dir[i].used
        PROVE  dir[i].start >= BootFiles[1].start
    <3>1. i + 1 \in DOMAIN BootFiles /\ 1 \in DOMAIN BootFiles
      BY <1>1, <1>2, <2>2, BootAssumption
    <3>2. CASE i = 0
      BY <3>1, <3>2, <1>1, <2>2, BootTypes
    <3>3. CASE i # 0
      <4>1. 1 < i + 1 BY <3>3
      <4>2. BootFiles[1].start < BootFiles[i + 1].start
        BY <3>1, <4>1, BootAssumption
      <4>3. QED BY <3>1, <4>2, <1>1, <2>2, BootTypes
    <3>4. QED BY <3>2, <3>3
  <2>3. QED BY <2>1, <2>2 DEF OrderedStarts
<1>6. FdTableWellFormed
  BY DEF Init, BootFile, FdTableWellFormed
<1>7. QED
  BY <1>3, <1>4, <1>5, <1>6 DEF DirectoryWellFormed

-----------------------------------------------------------------------------
(* A descriptor table in which one free descriptor may have been taken for an *)
(* entry in use is still well formed.                                        *)

LEMMA AllocFdOK ==
  ASSUME TypeOK, FdTableWellFormed, UNCHANGED <<mem, running>>,
         NEW i \in FileNo, NEW size \in Nat, NEW append \in BOOLEAN,
         AllocFd(i, size, append),
         dir' \in [FileNo -> DirEntry], dir'[i].used,
         \A j \in FileNo : dir[j].used => dir'[j].used
  PROVE  TypeOK' /\ FdTableWellFormed'
<1>1. ASSUME NEW k \in FdNo, NextFd(k), Return(k),
             fds' = [fds EXCEPT ![k] = [type |-> "FILE", entry |-> i,
                                        position |-> IF append THEN size ELSE 0]]
      PROVE  TypeOK' /\ FdTableWellFormed'
  <2>1. [type |-> "FILE", entry |-> i, position |-> IF append THEN size ELSE 0] \in File
    BY DEF File
  <2>2. fds' \in [FdNo -> File]
    BY <1>1, <2>1 DEF TypeOK
  <2>3. result' \in Result
    BY <1>1, CapacityAssumption DEF Return, Result
  <2>4. TypeOK'
    BY <2>2, <2>3 DEF TypeOK
  <2>5. k >= 3
    BY <1>1 DEF NextFd, FdTableWellFormed
  <2>6. FdTableWellFormed'
    BY <1>1, <2>5 DEF TypeOK, FdTableWellFormed
  <2>7. QED BY <2>4, <2>6
<1>2. ASSUME UNCHANGED fds, Return(Error)
      PROVE  TypeOK' /\ FdTableWellFormed'
  <2>1. result' \in Result
    BY <1>2 DEF Return, Result
  <2>2. QED BY <1>2, <2>1 DEF TypeOK, FdTableWellFormed
<1>3. QED
  BY <1>1, <1>2 DEF AllocFd

LEMMA OpenExistingStep ==
  ASSUME IInv, NEW name \in Names, NEW append \in BOOLEAN, OpenExisting(name, append)
  PROVE  IInv'
<1>1. PICK i \in FileNo : /\ Found(i, name)
                          /\ AllocFd(i, dir[i].size, append)
                          /\ UNCHANGED <<dir, mem, running>>
  BY DEF OpenExisting
<1>2. dir[i].size \in Nat /\ dir[i].used
  BY <1>1 DEF IInv, TypeOK, DirEntry, Found, Named
<1>3. TypeOK' /\ FdTableWellFormed'
  BY <1>1, <1>2, AllocFdOK DEF IInv, TypeOK
<1>4. DirectoryWellFormed'
  BY <1>1 DEF IInv, DirectoryWellFormed, UsedPrefix, UniqueNames, OrderedStarts
<1>5. QED BY <1>3, <1>4 DEF IInv

\* The place create_new_entry gives a file: after every file there is.
LEMMA NewEntryFacts ==
  ASSUME IInv, NEW name \in Names, NEW j \in FileNo, NextEntry(j)
  PROVE  /\ NewEntry(name, j) \in DirEntry
         /\ NewEntry(name, j).used
         /\ \A i \in FileNo : dir[i].used <=> i < j
         /\ \A i \in FileNo : dir[i].used => dir[i].start < NewEntry(name, j).start
         /\ NewEntry(name, j).start >= BootFiles[1].start
<1>1. j # 0 /\ j - 1 \in FileNo /\ dir[j - 1].used
  BY CapacityAssumption DEF IInv, DirectoryWellFormed, UsedPrefix, NextEntry
<1>2. /\ dir[j - 1].start \in Nat
      /\ dir[j - 1].size \in Nat
      /\ \A i \in FileNo : dir[i].start \in Nat
  BY <1>1 DEF IInv, TypeOK, DirEntry
<1>3. /\ NewEntry(name, j).start = dir[j - 1].start + dir[j - 1].size + Gap
      /\ NewEntry(name, j).used
  BY DEF NewEntry
<1>4. NewEntry(name, j) \in DirEntry
  BY <1>2, CapacityAssumption DEF NewEntry, DirEntry
<1>5. \A i \in FileNo : dir[i].used <=> i < j
  <2>1. ASSUME NEW i \in FileNo, i < j PROVE dir[i].used
    BY <2>1 DEF NextEntry
  <2>2. ASSUME NEW i \in FileNo, dir[i].used, ~(i < j) PROVE FALSE
    BY <2>2, CapacityAssumption DEF NextEntry, IInv, DirectoryWellFormed, UsedPrefix
  <2>3. QED BY <2>1, <2>2
<1>6. ASSUME NEW i \in FileNo, dir[i].used
      PROVE  dir[i].start <= dir[j - 1].start
  <2>1. CASE i = j - 1
    BY <2>1, <1>2
  <2>2. CASE i < j - 1
    BY <2>2, <1>1, <1>2 DEF IInv, DirectoryWellFormed, OrderedStarts
  <2>3. QED BY <2>1, <2>2, <1>5, <1>6, CapacityAssumption
<1>7. BootFiles[1].start \in Nat
  BY BootTypes, BootDomain, BootAssumption
<1>8. QED
  BY <1>1, <1>2, <1>3, <1>4, <1>5, <1>6, <1>7, CapacityAssumption
     DEF IInv, DirectoryWellFormed, OrderedStarts

LEMMA OpenNewStep ==
  ASSUME IInv, NEW name \in Names, NEW append \in BOOLEAN, OpenNew(name, append)
  PROVE  IInv'
<1>1. PICK j \in FileNo : /\ NextEntry(j)
                          /\ dir' = [dir EXCEPT ![j] = NewEntry(name, j)]
                          /\ AllocFd(j, 0, append)
  BY DEF OpenNew
<1>2. Missing(name) /\ UNCHANGED <<mem, running>>
  BY DEF OpenNew
<1> DEFINE e == NewEntry(name, j)
<1>3. /\ e \in DirEntry
      /\ e.used
      /\ \A i \in FileNo : dir[i].used <=> i < j
      /\ \A i \in FileNo : dir[i].used => dir[i].start < e.start
      /\ e.start >= BootFiles[1].start
  BY <1>1, NewEntryFacts
<1>4. e.name = name
  BY DEF NewEntry
<1>5. dir \in [FileNo -> DirEntry]
  BY DEF IInv, TypeOK
<1> HIDE DEF e
<1>6. /\ dir' \in [FileNo -> DirEntry]
      /\ dir'[j] = e
      /\ \A i \in FileNo : i # j => dir'[i] = dir[i]
  BY <1>1, <1>3, <1>5 DEF e
<1>7. /\ ~dir[j].used
      /\ \A i \in FileNo : dir'[i].used <=> i <= j
  BY <1>1, <1>3, <1>6 DEF NextEntry
<1>8. TypeOK' /\ FdTableWellFormed'
  BY <1>1, <1>2, <1>3, <1>6, AllocFdOK DEF IInv
<1>9. UsedPrefix'
  BY <1>6, <1>7, CapacityAssumption DEF UsedPrefix
<1>10. UniqueNames'
  <2>1. ASSUME NEW i \in FileNo, dir[i].used PROVE dir[i].name # e.name
    BY <1>2, <1>4, <2>1 DEF Missing, Named
  <2>2. ASSUME NEW i \in FileNo, NEW h \in FileNo,
               dir'[i].used, dir'[h].used, dir'[i].name = dir'[h].name
        PROVE  i = h
    <3>1. CASE i = j /\ h # j
      BY <2>1, <2>2, <3>1, <1>3, <1>6, <1>7
    <3>2. CASE i # j /\ h = j
      BY <2>1, <2>2, <3>2, <1>3, <1>6, <1>7
    <3>3. CASE i # j /\ h # j
      BY <2>2, <3>3, <1>6 DEF IInv, DirectoryWellFormed, UniqueNames
    <3>4. QED BY <3>1, <3>2, <3>3
  <2>3. QED BY <2>2 DEF UniqueNames
<1>11. OrderedStarts'
  <2>1. ASSUME NEW i \in FileNo, dir'[i].used
        PROVE  dir'[i].start >= BootFiles[1].start
    <3>1. CASE i = j
      BY <3>1, <1>3, <1>6
    <3>2. CASE i # j
      BY <2>1, <3>2, <1>6 DEF IInv, DirectoryWellFormed, OrderedStarts
    <3>3. QED BY <3>1, <3>2
  <2>2. ASSUME NEW i \in FileNo, NEW h \in FileNo, i < h, dir'[h].used
        PROVE  dir'[i].start < dir'[h].start
    <3>1. i < j /\ i # j /\ dir'[i] = dir[i] /\ dir[i].used
      BY <2>2, <1>3, <1>6, <1>7
    <3>2. CASE h = j
      BY <3>1, <3>2, <1>3, <1>6
    <3>3. CASE h # j
      BY <2>2, <3>1, <3>3, <1>6 DEF IInv, DirectoryWellFormed, OrderedStarts
    <3>4. QED BY <3>2, <3>3
  <2>3. QED BY <2>1, <2>2 DEF OrderedStarts
<1>12. QED
  BY <1>8, <1>9, <1>10, <1>11 DEF IInv, DirectoryWellFormed

-----------------------------------------------------------------------------

\* Calls that change no entry but its size leave the directory well formed.
LEMMA SameEntries ==
  ASSUME DirectoryWellFormed,
         \A h \in FileNo : /\ dir'[h].used = dir[h].used
                           /\ dir'[h].name = dir[h].name
                           /\ dir'[h].start = dir[h].start
  PROVE  DirectoryWellFormed'
<1>1. UsedPrefix'
  BY CapacityAssumption DEF DirectoryWellFormed, UsedPrefix
<1>2. UniqueNames'
  BY DEF DirectoryWellFormed, UniqueNames
<1>3. OrderedStarts'
  BY DEF DirectoryWellFormed, OrderedStarts
<1>4. QED
  BY <1>1, <1>2, <1>3 DEF DirectoryWellFormed

LEMMA CloseStep ==
  ASSUME IInv, NEW fd \in FdNo, SysClose(fd)
  PROVE  IInv'
<1>1. CASE fds[fd].type = "FILE"
  <2> DEFINE i == fds[fd].entry
  <2>1. /\ i \in FileNo
        /\ dir[i] \in DirEntry
        /\ fds[fd].position \in Nat
    BY <1>1 DEF IInv, FdTableWellFormed, TypeOK, File
  <2>2. /\ dir' = [dir EXCEPT ![i].size = fds[fd].position]
        /\ fds' = [fds EXCEPT ![fd].type = "NONE"]
        /\ Return(0)
        /\ UNCHANGED <<mem, running>>
    BY <1>1 DEF SysClose
  <2> HIDE DEF i
  <2>3. \A h \in FileNo : /\ dir'[h].used = dir[h].used
                          /\ dir'[h].name = dir[h].name
                          /\ dir'[h].start = dir[h].start
    BY <2>1, <2>2 DEF IInv, TypeOK, DirEntry
  <2>4. dir' \in [FileNo -> DirEntry]
    BY <2>1, <2>2 DEF IInv, TypeOK, DirEntry
  <2>5. /\ fds' \in [FdNo -> File]
        /\ fds'[fd].type = "NONE"
        /\ \A k \in FdNo : k # fd => fds'[k] = fds[k]
    BY <2>2 DEF IInv, TypeOK, File
  <2>6. TypeOK'
    BY <2>2, <2>4, <2>5 DEF IInv, TypeOK, Return, Result
  <2>7. DirectoryWellFormed'
    BY <2>3, SameEntries DEF IInv
  <2>8. FdTableWellFormed'
    BY <1>1, <2>3, <2>5 DEF IInv, FdTableWellFormed
  <2>9. QED BY <2>6, <2>7, <2>8 DEF IInv
<1>2. CASE fds[fd].type # "FILE"
  <2>1. UNCHANGED <<dir, fds, mem, running>> /\ Return(Error)
    BY <1>2 DEF SysClose
  <2>2. QED
    BY <2>1 DEF IInv, TypeOK, DirectoryWellFormed, UsedPrefix, UniqueNames,
                OrderedStarts, FdTableWellFormed, Return, Result
<1>3. QED BY <1>1, <1>2

-----------------------------------------------------------------------------

LEMMA BuffersAreSequences ==
  ASSUME NEW buf \in Buffers
  PROVE  /\ Len(buf) \in Nat
         /\ buf \in [1 .. Len(buf) -> Byte]
<1>1. PICK n \in 0 .. MaxCount : buf \in [1 .. n -> Byte]
  BY DEF Buffers
<1>2. n \in Nat
  BY CapacityAssumption
<1>3. buf \in Seq(Byte)
  BY <1>1, <1>2
<1>4. QED
  BY <1>3, LenProperties

\* A call that changes neither table nor RAM.
LEMMA ResultOnly ==
  ASSUME IInv, NEW v \in Nat \cup {Error}, Return(v), UNCHANGED <<dir, fds, mem, running>>
  PROVE  IInv'
<1>1. result' \in Result
  BY DEF Return, Result
<1>2. QED
  BY <1>1 DEF IInv, TypeOK, DirectoryWellFormed, UsedPrefix, UniqueNames,
              OrderedStarts, FdTableWellFormed

\* An address in RAM is its own cell; one that is not lies past the top.
LEMMA CellFacts ==
  /\ \A y \in Int : Cell(y) \in Addr
  /\ \A y \in Addr : Cell(y) = y
  /\ \A y \in Int : y < 0 => Cell(y) >= y + MemTop
<1>1. MemTop \in Nat \ {0}
  BY CapacityAssumption
<1>2. \A y \in Int : y % MemTop \in 0 .. MemTop - 1
  BY <1>1
<1>3. \A y \in 0 .. MemTop - 1 : y % MemTop = y
  BY <1>1
<1>4. \A y \in Int : y < 0 => y % MemTop >= y + MemTop
  BY <1>1
<1>5. QED
  BY <1>2, <1>3, <1>4 DEF Cell

\* A byte of RAM after a write: a byte of the buffer, or what it was.  A byte
\* before the address of the write is reached only past the top.
LEMMA StoredFacts ==
  ASSUME NEW at \in Nat, NEW buf \in Buffers, NEW x \in Addr
  PROVE  /\ \/ \E b \in 1 .. Len(buf) : Stored(at, buf)[x] = buf[b]
            \/ Stored(at, buf)[x] = mem[x]
         /\ x < at /\ Stored(at, buf)[x] # mem[x] => at + Len(buf) > MemTop + x
<1> DEFINE c == Cell(x - at)
<1>1. /\ x - at \in Int /\ c \in Nat
      /\ x < at => c >= x - at + MemTop
  BY CellFacts, CapacityAssumption
<1>2. Stored(at, buf)[x] = IF c + 1 <= Len(buf) THEN buf[c + 1] ELSE mem[x]
  BY DEF Stored
<1>3. Len(buf) \in Nat
  BY BuffersAreSequences
<1> HIDE DEF c
<1>4. QED
  BY <1>1, <1>2, <1>3, CapacityAssumption

LEMMA FileReadStep ==
  ASSUME IInv, NEW fd \in FdNo, NEW count \in 0 .. MaxCount, FileRead(fd, count)
  PROVE  IInv'
<1> DEFINE e == dir[fds[fd].entry]
           at == e.start + fds[fd].position
           n == ReadCount(fds[fd].position, e.size, count)
<1>1. fds[fd].type = "FILE"
  BY DEF FileRead
<1>2. /\ fds' = [fds EXCEPT ![fd].position = @ + n]
      /\ result' = [value |-> n, data |-> [b \in 1 .. n |-> mem[Cell(at + b - 1)]]]
      /\ UNCHANGED <<dir, mem, running>>
  BY DEF FileRead
<1>3. e \in DirEntry /\ fds[fd] \in File
  BY <1>1 DEF IInv, TypeOK, FdTableWellFormed
<1>4. e.start \in Nat /\ e.size \in Nat /\ fds[fd].position \in Nat
  BY <1>3 DEF DirEntry, File
<1> HIDE DEF e
<1>5. n \in Nat
  BY <1>4, CapacityAssumption DEF ReadCount
<1>6. at \in Nat
  BY <1>4
<1> HIDE DEF n, at
<1>7. [b \in 1 .. n |-> mem[Cell(at + b - 1)]] \in Seq(Byte)
  <2>1. ASSUME NEW b \in 1 .. n PROVE mem[Cell(at + b - 1)] \in Byte
    <3>1. Cell(at + b - 1) \in Addr
      BY <1>5, <1>6, CellFacts
    <3>2. QED BY <3>1 DEF IInv, TypeOK
  <2>2. [b \in 1 .. n |-> mem[Cell(at + b - 1)]] \in [1 .. n -> Byte]
    BY <2>1
  <2>3. QED BY <2>2, <1>5
<1>8. result' \in Result
  BY <1>2, <1>5, <1>7 DEF Result
<1>9. /\ fds' \in [FdNo -> File]
      /\ \A k \in FdNo : fds'[k].type = fds[k].type /\ fds'[k].entry = fds[k].entry
  BY <1>2, <1>4, <1>5 DEF IInv, TypeOK, File
<1>10. TypeOK'
  BY <1>2, <1>8, <1>9 DEF IInv, TypeOK
<1>11. FdTableWellFormed'
  BY <1>2, <1>9 DEF IInv, FdTableWellFormed
<1>12. DirectoryWellFormed'
  BY <1>2, SameEntries DEF IInv
<1>13. QED BY <1>10, <1>11, <1>12 DEF IInv

\* What a step does to the kernel's image, stated of one byte.
ReachedPastTop(a) ==
  a < BootFiles[1].start /\ mem'[a] # mem[a] =>
    /\ call'[1] = "write" /\ call'[2] \in FdNo /\ fds[call'[2]].type = "FILE"
    /\ WriteEnd > MemTop + a

LEMMA FileWriteStep ==
  ASSUME IInv, NEW fd \in FdNo, NEW buf \in Buffers, FileWrite(fd, buf),
         call' = <<"write", fd, buf>>
  PROVE  IInv' /\ \A a \in Addr : ReachedPastTop(a)
<1> DEFINE i == fds[fd].entry
           at == dir[i].start + fds[fd].position
           end == fds[fd].position + Len(buf)
<1>1. /\ fds[fd].type = "FILE"
      /\ mem' = Stored(at, buf)
      /\ fds' = [fds EXCEPT ![fd].position = end]
      /\ dir' = [dir EXCEPT ![i].size = IF end > @ THEN end ELSE @]
      /\ Return(Len(buf))
      /\ running' = IF OverKernel(mem') THEN Lost ELSE running
  BY DEF FileWrite
<1>2. /\ i \in FileNo /\ dir[i].used
      /\ dir[i] \in DirEntry /\ fds[fd] \in File
  BY <1>1 DEF IInv, TypeOK, FdTableWellFormed
<1>3. dir[i].start \in Nat /\ dir[i].size \in Nat /\ fds[fd].position \in Nat
  BY <1>2 DEF DirEntry, File
<1>4. Len(buf) \in Nat /\ buf \in [1 .. Len(buf) -> Byte]
  BY BuffersAreSequences
<1>5. end \in Nat /\ at \in Nat
  <2>1. Len(buf) \in Nat
    BY <1>4
  <2>2. at \in Nat
    BY <1>3
  <2>3. end \in Nat
    BY <1>3, <2>1
  <2>4. QED BY <2>2, <2>3
<1>0. WriteEnd = at + Len(buf)
  BY DEF WriteEnd
<1> HIDE DEF i, end, at
<1>6. mem' \in [Addr -> Byte]
  <2>1. ASSUME NEW x \in Addr PROVE Stored(at, buf)[x] \in Byte
    BY <1>4, <1>5, StoredFacts DEF IInv, TypeOK
  <2>2. Stored(at, buf) = [x \in Addr |-> Stored(at, buf)[x]]
    BY DEF Stored
  <2>3. QED BY <1>1, <2>1, <2>2
<1>7. /\ fds' \in [FdNo -> File]
      /\ \A k \in FdNo : fds'[k].type = fds[k].type /\ fds'[k].entry = fds[k].entry
  BY <1>1, <1>5 DEF IInv, TypeOK, File
<1>8. /\ dir' \in [FileNo -> DirEntry]
      /\ \A h \in FileNo : /\ dir'[h].used = dir[h].used
                           /\ dir'[h].name = dir[h].name
                           /\ dir'[h].start = dir[h].start
  BY <1>1, <1>2, <1>3, <1>5 DEF IInv, TypeOK, DirEntry
<1>9. result' \in Result
  BY <1>1, <1>4 DEF Return, Result
<1>10. TypeOK'
  <2>1. running' \in FileNo \cup {Shell, Lost}
    BY <1>1 DEF IInv, TypeOK
  <2>2. QED BY <1>6, <1>7, <1>8, <1>9, <2>1 DEF TypeOK
<1>11. FdTableWellFormed'
  BY <1>7, <1>8 DEF IInv, FdTableWellFormed
<1>12. DirectoryWellFormed'
  BY <1>8, SameEntries DEF IInv
<1>13. ASSUME NEW a \in Addr
       PROVE  ReachedPastTop(a)
  <2> SUFFICES ASSUME a < BootFiles[1].start, mem'[a] # mem[a]
               PROVE  WriteEnd > MemTop + a
    BY <1>1 DEF ReachedPastTop
  <2>1. BootFiles[1].start \in Nat
    BY BootTypes, BootDomain, BootAssumption
  <2>2. dir[i].start >= BootFiles[1].start
    BY <1>2 DEF IInv, DirectoryWellFormed, OrderedStarts
  <2>3. a < at
    BY <1>3, <2>1, <2>2, CapacityAssumption DEF at
  <2>4. QED BY <1>0, <1>1, <1>5, <2>3, StoredFacts
<1>14. QED BY <1>10, <1>11, <1>12, <1>13 DEF IInv

-----------------------------------------------------------------------------
(* Every call preserves the invariant. *)

LEMMA OpenStep ==
  ASSUME IInv, NEW name \in Names, NEW append \in BOOLEAN, NEW create \in BOOLEAN,
         SysOpen(name, append, create)
  PROVE  IInv' /\ UNCHANGED mem
<1>1. CASE OpenExisting(name, append)
  BY <1>1, OpenExistingStep DEF OpenExisting
<1>2. CASE create /\ OpenNew(name, append)
  BY <1>2, OpenNewStep DEF OpenNew
<1>3. CASE OpenFails(name, create)
  BY <1>3, ResultOnly DEF OpenFails
<1>4. QED
  BY <1>1, <1>2, <1>3 DEF SysOpen

LEMMA ReadStep ==
  ASSUME IInv, NEW fd, NEW count \in 0 .. MaxCount, SysRead(fd, count)
  PROVE  IInv' /\ UNCHANGED mem
<1>1. CASE fd \in FdNo /\ FileRead(fd, count)
  BY <1>1, FileReadStep DEF FileRead
<1>2. CASE TtyRead(fd, count)
  <2>1. PICK n \in 0 .. count : Return(n)
    BY <1>2 DEF TtyRead
  <2>2. n \in Nat
    BY CapacityAssumption
  <2>3. QED BY <1>2, <2>1, <2>2, ResultOnly DEF TtyRead
<1>3. CASE BadFd(fd)
  BY <1>3, ResultOnly DEF BadFd
<1>4. QED
  BY <1>1, <1>2, <1>3 DEF SysRead

LEMMA WriteStep ==
  ASSUME IInv, NEW fd, NEW buf \in Buffers, SysWrite(fd, buf)
  PROVE  IInv' /\ \A a \in Addr : ReachedPastTop(a)
<1>1. CASE fd \in FdNo /\ FileWrite(fd, buf)
  BY <1>1, FileWriteStep DEF SysWrite
<1>2. CASE TtyWrite(fd, Len(buf))
  BY <1>2, ResultOnly, BuffersAreSequences DEF TtyWrite, ReachedPastTop
<1>3. CASE BadFd(fd)
  BY <1>3, ResultOnly DEF BadFd, ReachedPastTop
<1>4. QED
  BY <1>1, <1>2, <1>3 DEF SysWrite

LEMMA ExecveStep ==
  ASSUME IInv, NEW name \in Names, SysExecve(name)
  PROVE  IInv' /\ UNCHANGED mem
<1>1. CASE \E i \in FileNo : /\ Found(i, name)
                            /\ running' = i
                            /\ UNCHANGED <<dir, fds, mem, result>>
  BY <1>1 DEF IInv, TypeOK, DirectoryWellFormed, UsedPrefix, UniqueNames,
              OrderedStarts, FdTableWellFormed
<1>2. CASE Return(0) /\ UNCHANGED <<dir, fds, mem, running>>
  BY <1>2, ResultOnly
<1>3. QED
  BY <1>1, <1>2 DEF SysExecve

LEMMA ExitStep ==
  ASSUME IInv, SysExit
  PROVE  IInv' /\ UNCHANGED mem
BY DEF SysExit, IInv, TypeOK, DirectoryWellFormed, UsedPrefix, UniqueNames,
       OrderedStarts, FdTableWellFormed

LEMMA NextStep ==
  ASSUME IInv, Next
  PROVE  IInv' /\ \A a \in Addr : ReachedPastTop(a)
<1>1. ASSUME NEW name \in Names, NEW append \in BOOLEAN, NEW create \in BOOLEAN,
             SysOpen(name, append, create)
      PROVE  IInv' /\ UNCHANGED mem
  BY <1>1, OpenStep
<1>2. ASSUME NEW fd \in FdNo, SysClose(fd)
      PROVE  IInv' /\ UNCHANGED mem
  BY <1>2, CloseStep DEF SysClose
<1>3. ASSUME NEW fd, NEW count \in 0 .. MaxCount, SysRead(fd, count)
      PROVE  IInv' /\ UNCHANGED mem
  BY <1>3, ReadStep
<1>4. ASSUME NEW fd, NEW buf \in Buffers, SysWrite(fd, buf)
      PROVE  IInv' /\ \A a \in Addr : ReachedPastTop(a)
  BY <1>4, WriteStep
<1>5. ASSUME NEW name \in Names, SysExecve(name)
      PROVE  IInv' /\ UNCHANGED mem
  BY <1>5, ExecveStep
<1>6. ASSUME SysExit
      PROVE  IInv' /\ UNCHANGED mem
  BY <1>6, ExitStep
<1>7. UNCHANGED mem => \A a \in Addr : ReachedPastTop(a)
  BY DEF ReachedPastTop
<1>8. QED
  BY <1>1, <1>2, <1>3, <1>4, <1>5, <1>6, <1>7 DEF Next

\* The strengthening: types and both tables, after any sequence of calls.
THEOREM Invariance == Spec => []IInv
<1>1. Init => IInv
  BY InitTypeOK, InitTables DEF IInv
<1>2. IInv /\ [Next]_vars => IInv'
  <2>1. IInv /\ UNCHANGED vars => IInv'
    BY DEF vars, IInv, TypeOK, DirectoryWellFormed, UsedPrefix, UniqueNames,
           OrderedStarts, FdTableWellFormed
  <2>2. QED BY <2>1, NextStep
<1>3. QED
  BY <1>1, <1>2, PTL DEF Spec

\* Every variable of the kernel's tables keeps its type.
THEOREM TypeCorrect == Spec => []TypeOK
BY Invariance, PTL DEF IInv

\* dir_table stays a prefix of distinctly named files in address order, so
\* create_new_entry always has a predecessor to place a new file after.
THEOREM DirectoryCorrect == Spec => []DirectoryWellFormed
BY Invariance, PTL DEF IInv

\* The terminal keeps descriptors 0 to 2 and an open descriptor points at a
\* file, whatever programs open, close twice or leave open.
THEOREM FdTableCorrect == Spec => []FdTableWellFormed
BY Invariance, PTL DEF IInv

\* No file call reaches the RAM below the first program in another way than by
\* running past the top of RAM, and then only as many bytes as it has run past:
\* whatever files are created, truncated and closed, none is placed below it
\* (sysopen.c:16, syswrite.c:7-15).
THEOREM KernelImageSafe == Spec => KernelReachedOnlyPastTop
<1>1. IInv /\ [Next]_vars => [\A a \in Addr : ReachedPastTop(a)]_vars
  BY NextStep
<1>2. IInv /\ [Next]_vars =>
        [\A a \in Addr : a < BootFiles[1].start /\ mem'[a] # mem[a] =>
           /\ call'[1] = "write" /\ call'[2] \in FdNo /\ fds[call'[2]].type = "FILE"
           /\ WriteEnd > MemTop + a]_vars
  BY <1>1 DEF ReachedPastTop
<1>3. QED
  BY <1>2, Invariance, PTL DEF Spec, KernelReachedOnlyPastTop

==============================================================================
