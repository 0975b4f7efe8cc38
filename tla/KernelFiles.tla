----------------------------- MODULE KernelFiles -----------------------------
(***************************************************************************)
(* The file system calls of the MRV32 kernel (OS/boot.c, OS/sysopen.c,     *)
(* OS/sysclose.c, OS/sysread.c, OS/syswrite.c, OS/sysexecve.c,             *)
(* OS/sysexit.c): a flat directory of extents in RAM and a table of file   *)
(* descriptors.                                                            *)
(*                                                                         *)
(* A call runs to its end inside the trap handler of the single core (the  *)
(* only interrupt is taken inside read_handler's own wfi), so each call is *)
(* one action; what is left open is which calls the programs make, in      *)
(* which order and with which arguments.                                   *)
(***************************************************************************)
EXTENDS Integers, Sequences, FiniteSets

CONSTANTS
  MaxFiles,    \* directory entries (MAX_FILES)
  MaxFds,      \* file descriptors (MAX_FDS)
  Names,       \* file names a program may use, of at most 31 characters
  NoName,      \* the name field of an entry never used (bss)
  BootFiles,   \* what boot() puts in the directory: <<[name, start, size], ...>>
  Gap,         \* bytes left free before a new file (12 in create_new_entry)
  Byte,        \* values of a byte of RAM
  Image,       \* RAM at power-up: the images of the kernel and the programs
  MemTop,      \* bytes of RAM (32768 words in RAM.v)
  Reach,       \* bound: file reads and writes end at this address or before
  MaxCount     \* bound: largest byte count of one read or write

ASSUME CapacityAssumption ==
  /\ MaxFiles \in Nat \ {0}
  /\ MaxFds \in Nat /\ MaxFds >= 3
  /\ Gap \in Nat \ {0}
  /\ MemTop \in Nat \ {0} /\ Reach \in Nat
  /\ MaxCount \in 0 .. MemTop      \* the caller's buffer is in RAM
  /\ NoName \notin Names

ASSUME ImageAssumption == Image \in [0 .. MemTop - 1 -> Byte]

FileNo == 0 .. MaxFiles - 1
FdNo == 0 .. MaxFds - 1
Addr == 0 .. MemTop - 1

\* boot() creates at least one file, with distinct names, in address order, apart
\* from one another and inside RAM ("Basic" at 8000 and "Kilo" at 48000).
ASSUME BootAssumption ==
  /\ BootFiles \in Seq([name : Names, start : Nat, size : Nat])
  /\ Len(BootFiles) \in 1 .. MaxFiles
  /\ \A i \in DOMAIN BootFiles : BootFiles[i].start + BootFiles[i].size <= MemTop
  /\ \A i, j \in DOMAIN BootFiles :
       i < j => /\ BootFiles[i].name # BootFiles[j].name
                /\ BootFiles[i].start + BootFiles[i].size <= BootFiles[j].start
                /\ BootFiles[i].start < BootFiles[j].start

NoEntry == -1            \* the entry pointer of a descriptor never opened
Shell == -1              \* the shell runs, no program does
Lost == -2               \* a write has gone over the kernel's own image
Error == -1

\* The byte of RAM at an address: RAM.v indexes its 32768 words with a 30-bit
\* word number, of which the block RAM has wires for the low bits only.
Cell(a) == a % MemTop

DirEntry == [name : Names \cup {NoName}, start : Nat, size : Nat, used : BOOLEAN]
File == [type : {"NONE", "FILE", "TTY"}, position : Nat, entry : FileNo \cup {NoEntry}]

VARIABLES
  dir,       \* dir_table
  fds,       \* *global_fd_table.number[i]
  mem,       \* the RAM the files live in
  running,   \* directory index of the program started last, Shell or Lost
  call,      \* the last call and its arguments (a7, a0.. of the trap context)
  result     \* what it returned to its caller: value and bytes read

vars == <<dir, fds, mem, running, call, result>>

Result == [value : Nat \cup {Error}, data : Seq(Byte)]

Return(v) == result' = [value |-> v, data |-> <<>>]

-----------------------------------------------------------------------------
(* boot() *)

BootEntry(i) ==
  IF i < Len(BootFiles)
  THEN [name |-> BootFiles[i + 1].name, start |-> BootFiles[i + 1].start,
        size |-> BootFiles[i + 1].size, used |-> TRUE]
  ELSE [name |-> NoName, start |-> 0, size |-> 0, used |-> FALSE]

BootFile(k) ==
  [type |-> IF k < 3 THEN "TTY" ELSE "NONE", position |-> 0, entry |-> NoEntry]

Init ==
  /\ dir = [i \in FileNo |-> BootEntry(i)]
  /\ fds = [k \in FdNo |-> BootFile(k)]
  /\ mem = Image
  /\ running = Shell
  /\ call = <<"boot">>
  /\ result = [value |-> 0, data |-> <<>>]

-----------------------------------------------------------------------------
(* sysopen *)

Named(i, name) == dir[i].used /\ dir[i].name = name

\* dir_search: the first used entry of that name.
Found(i, name) == Named(i, name) /\ \A h \in 0 .. i - 1 : ~Named(h, name)
Missing(name) == \A i \in FileNo : ~Named(i, name)

\* find_next_entry: the first unused entry.
NextEntry(j) == ~dir[j].used /\ \A h \in 0 .. j - 1 : dir[h].used
DirectoryFull == \A j \in FileNo : dir[j].used

\* Mutant: any descriptor that is not a file's counts as free.
NextFdNotFile(k) == fds[k].type # "FILE" /\ \A h \in 0 .. k - 1 : fds[h].type = "FILE"

\* find_next_fd: the first descriptor of type FT_NONE.
NextFd(k) == fds[k].type = "NONE" /\ \A h \in 0 .. k - 1 : fds[h].type # "NONE"
FdsFull == \A k \in FdNo : fds[k].type # "NONE"

\* Mutants: the previous file's start, or its size, is left out.
NewEntryWithoutStart(name, j) ==
  [name |-> name, start |-> dir[j - 1].size + Gap, size |-> 0, used |-> TRUE]
NewEntryWithoutSize(name, j) ==
  [name |-> name, start |-> dir[j - 1].start + Gap, size |-> 0, used |-> TRUE]

\* create_new_entry: the new file starts right after the entry before it.  Its
\* strcpy has no bound; a name longer than the entry's name[32] is left out.
NewEntry(name, j) ==
  [name |-> name, start |-> dir[j - 1].start + dir[j - 1].size + Gap,
   size |-> 0, used |-> TRUE]

\* The second half of sysopen: a descriptor for entry i, or -1 when there is none.
AllocFd(i, size, append) ==
  \/ \E k \in FdNo :
       /\ NextFd(k)
       /\ fds' = [fds EXCEPT ![k] = [type |-> "FILE", entry |-> i,
                                     position |-> IF append THEN size ELSE 0]]
       /\ Return(k)
  \/ FdsFull /\ UNCHANGED fds /\ Return(Error)

OpenExisting(name, append) ==
  \E i \in FileNo :
    /\ Found(i, name)
    /\ AllocFd(i, dir[i].size, append)
    /\ UNCHANGED <<dir, mem, running>>

\* The entry stays in the directory when no descriptor is left for it.
OpenNew(name, append) ==
  /\ Missing(name)
  /\ \E j \in FileNo :
       /\ NextEntry(j)
       /\ dir' = [dir EXCEPT ![j] = NewEntry(name, j)]
       /\ AllocFd(j, 0, append)
  /\ UNCHANGED <<mem, running>>

OpenFails(name, create) ==
  /\ Missing(name)
  /\ ~create \/ DirectoryFull
  /\ Return(Error)
  /\ UNCHANGED <<dir, fds, mem, running>>

SysOpen(name, append, create) ==
  /\ call' = <<"open", name, append, create>>
  /\ \/ OpenExisting(name, append)
     \/ create /\ OpenNew(name, append)
     \/ OpenFails(name, create)

-----------------------------------------------------------------------------
(* sysclose, sysread, syswrite *)

\* The file's size becomes the position of the descriptor being closed.
SysClose(fd) ==
  /\ call' = <<"close", fd>>
  /\ \/ /\ fds[fd].type = "FILE"
        /\ dir' = [dir EXCEPT ![fds[fd].entry].size = fds[fd].position]
        /\ fds' = [fds EXCEPT ![fd].type = "NONE"]
        /\ Return(0)
     \/ /\ fds[fd].type # "FILE"
        /\ Return(Error)
        /\ UNCHANGED <<dir, fds>>
  /\ UNCHANGED <<mem, running>>

\* Mutants: the count, or the end of the file, is not looked at.
ReadToEnd(position, size, count) == size - position
ReadFullCount(position, size, count) == count

\* How many bytes file_read copies: it stops when position EQUALS size, so a
\* position beyond the size reads on to the full count.
ReadCount(position, size, count) ==
  IF position <= size /\ size - position < count THEN size - position ELSE count

FileRead(fd, count) ==
  LET e == dir[fds[fd].entry]
      at == e.start + fds[fd].position
      n == ReadCount(fds[fd].position, e.size, count)
  IN  /\ fds[fd].type = "FILE"
      /\ at + n <= Reach
      /\ fds' = [fds EXCEPT ![fd].position = @ + n]
      /\ result' = [value |-> n, data |-> [b \in 1 .. n |-> mem[Cell(at + b - 1)]]]
      /\ UNCHANGED <<dir, mem, running>>

\* The terminal: write_handler sends all count bytes; read_handler returns one
\* byte in raw mode, else what precedes '\r', at most count.  Both handlers test
\* the count only after the first byte and never end on a count of 0.
TtyWrite(fd, count) ==
  /\ fds[fd].type = "TTY" /\ count > 0
  /\ Return(count)
  /\ UNCHANGED <<dir, fds, mem, running>>

TtyRead(fd, count) ==
  /\ fds[fd].type = "TTY" /\ count > 0
  /\ \E n \in 0 .. count : Return(n)
  /\ UNCHANGED <<dir, fds, mem, running>>

BadFd(fd) ==
  /\ fd \notin FdNo \/ (fd \in FdNo /\ fds[fd].type = "NONE")
  /\ Return(Error)
  /\ UNCHANGED <<dir, fds, mem, running>>

SysRead(fd, count) ==
  /\ call' = <<"read", fd, count>>
  /\ \/ fd \in FdNo /\ FileRead(fd, count)
     \/ fd \in FdNo /\ TtyRead(fd, count)
     \/ BadFd(fd)

\* Mutant: the loop stops one byte early.
StoredOneShort(a, buf) ==
  [x \in Addr |-> LET nth == Cell(x - a) + 1
                  IN  IF nth < Len(buf) THEN buf[nth] ELSE mem[x]]

\* RAM after the bytes of buf are stored from address a on.
Stored(a, buf) ==
  [x \in Addr |-> LET nth == Cell(x - a) + 1
                  IN  IF nth <= Len(buf) THEN buf[nth] ELSE mem[x]]

OverKernel(m) == \E a \in Addr : a < BootFiles[1].start /\ m[a] # mem[a]

\* file_write asks for no end: neither the next file nor the top of RAM stops
\* it, and past the top it comes round to the kernel's image.  (The addresses RAM.v
\* takes no write at, 7180 to 7196, are the kernel's: here they take one, and the
\* machine is Lost.)
FileWrite(fd, buf) ==
  LET i == fds[fd].entry
      end == fds[fd].position + Len(buf)
  IN  /\ fds[fd].type = "FILE"
      /\ dir[i].start + end <= Reach
      /\ mem' = Stored(dir[i].start + fds[fd].position, buf)
      /\ fds' = [fds EXCEPT ![fd].position = end]
      /\ dir' = [dir EXCEPT ![i].size = IF end > @ THEN end ELSE @]
      /\ Return(Len(buf))
      /\ running' = IF OverKernel(mem') THEN Lost ELSE running

SysWrite(fd, buf) ==
  /\ call' = <<"write", fd, buf>>
  /\ \/ fd \in FdNo /\ FileWrite(fd, buf)
     \/ fd \in FdNo /\ TtyWrite(fd, Len(buf))
     \/ BadFd(fd)

-----------------------------------------------------------------------------
(* sysexecve and sysexit *)

SysExecve(name) ==
  /\ call' = <<"execve", name>>
  /\ \/ \E i \in FileNo :
          /\ Found(i, name)
          /\ running' = i
          /\ UNCHANGED <<dir, fds, mem, result>>
     \/ /\ Missing(name)
        /\ Return(0)
        /\ UNCHANGED <<dir, fds, mem, running>>

\* back_to_shell resets the registers; no descriptor is closed.
SysExit ==
  /\ call' = <<"exit">>
  /\ running' = Shell
  /\ UNCHANGED <<dir, fds, mem, result>>

-----------------------------------------------------------------------------
(* sys_dispatch: any program may make any of the calls at any time. *)

Buffers == UNION {[1 .. n -> Byte] : n \in 0 .. MaxCount}

\* Numbers outside the table, which sysread and syswrite turn down.
BadFdNo == {-1, MaxFds}

\* A machine whose kernel has been written over is followed no further.
Next ==
  /\ running # Lost
  /\ \/ \E name \in Names, append, create \in BOOLEAN : SysOpen(name, append, create)
     \/ \E fd \in FdNo : SysClose(fd)
     \/ \E fd \in FdNo \cup BadFdNo, count \in 0 .. MaxCount : SysRead(fd, count)
     \/ \E fd \in FdNo \cup BadFdNo, buf \in Buffers : SysWrite(fd, buf)
     \/ \E name \in Names : SysExecve(name)
     \/ SysExit

Spec == Init /\ [][Next]_vars

-----------------------------------------------------------------------------
(* Properties *)

\* Every variable the kernel computes has its type; call only records what
\* the program asked for.
TypeOK ==
  /\ dir \in [FileNo -> DirEntry]
  /\ fds \in [FdNo -> File]
  /\ mem \in [Addr -> Byte]
  /\ running \in FileNo \cup {Shell, Lost}
  /\ result \in Result

\* No entry is used after an unused one, so the entry create_new_entry looks
\* at, dir_table[j-1], is always one that describes a file.
UsedPrefix ==
  /\ dir[0].used
  /\ \A i, j \in FileNo : i < j /\ dir[j].used => dir[i].used

\* A name opens and executes one file: no two entries in use share it.
UniqueNames ==
  \A i, j \in FileNo :
    dir[i].used /\ dir[j].used /\ dir[i].name = dir[j].name => i = j

\* Files start in the order of their entries, none at another's address and
\* none below the first program boot() installs.
OrderedStarts ==
  /\ \A i \in FileNo : dir[i].used => dir[i].start >= BootFiles[1].start
  /\ \A i, j \in FileNo : i < j /\ dir[j].used => dir[i].start < dir[j].start

\* The directory after any sequence of calls: what sysopen and sysexecve rely
\* on when they search it and when they place a new file.
DirectoryWellFormed == UsedPrefix /\ UniqueNames /\ OrderedStarts

\* Descriptors 0, 1 and 2 are the terminal for ever and no other one is; an
\* open descriptor points at an entry in use.  Nothing in sysclose, sysexit or
\* sysopen states this: programs that leave descriptors open, close the same
\* number twice or run out of descriptors must not break it.
FdTableWellFormed ==
  \A k \in FdNo :
    /\ fds[k].type = "TTY" <=> k < 3
    /\ fds[k].type = "FILE" => fds[k].entry \in FileNo /\ dir[fds[k].entry].used

\* One past the last byte of the write that is the last call.
WriteEnd ==
  dir[fds[call'[2]].entry].start + fds[call'[2]].position + Len(call'[3])

\* Whatever is created, written and closed, in whatever order, byte a of the
\* RAM below the first program (the kernel's code, data and stack) changes in
\* one way only: a write through a file's descriptor that has run past the top
\* of RAM by more than a bytes.  No file is ever placed below it.
KernelReachedOnlyPastTop ==
  [][\A a \in Addr : a < BootFiles[1].start /\ mem'[a] # mem[a] =>
       /\ call'[1] = "write" /\ call'[2] \in FdNo /\ fds[call'[2]].type = "FILE"
       /\ WriteEnd > MemTop + a]_vars

\* The bytes of file i.
Contents(i) == [b \in 1 .. dir[i].size |-> mem[Cell(dir[i].start + b - 1)]]

\* Architecture Documentation.txt:125 promises "executing and retrieving
\* programs and files and creating new ones without clobbering existing ones":
\* a step that moves no descriptor of file i leaves the bytes of i alone.
NoClobbering ==
  [][\A i \in FileNo :
       /\ dir[i].used
       /\ \A k \in FdNo : fds[k].type = "FILE" /\ fds[k].entry = i => fds'[k] = fds[k]
       => Contents(i)' = Contents(i)]_vars
==============================================================================
