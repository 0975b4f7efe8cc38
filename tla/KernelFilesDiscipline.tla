------------------------ MODULE KernelFilesDiscipline ------------------------
(***************************************************************************)
(* The kernel bounds neither a file's growth nor the number of descriptors *)
(* of a file, so its files stay apart only if the programs behave.  This   *)
(* module states the behaviour that suffices:                              *)
(*   - a file is opened by one descriptor at a time;                       *)
(*   - a write ends before the next file of the directory begins, and      *)
(*     within RAM.                                                         *)
(* Under it the calls implement FileStore.                                 *)
(***************************************************************************)
EXTENDS KernelFiles

CONSTANT Absent   \* the content of a name that has no file

ASSUME AbsentAssumption == Absent \notin Seq(Byte)

\* Where the bytes available to file i end.
RoomEnd(i) == IF i + 1 \in FileNo /\ dir[i + 1].used THEN dir[i + 1].start ELSE MemTop

IsOpen(i) == \E k \in FdNo : fds[k].type = "FILE" /\ fds[k].entry = i

StaysInRoom(fd, buf) ==
  fd \in FdNo /\ fds[fd].type = "FILE" =>
    LET end == dir[fds[fd].entry].start + fds[fd].position + Len(buf)
    IN  end <= RoomEnd(fds[fd].entry) /\ end <= MemTop

DisciplinedNext ==
  /\ running # Lost
  /\ \/ \E name \in Names, append, create \in BOOLEAN :
          /\ \A i \in FileNo : Named(i, name) => ~IsOpen(i)
          /\ SysOpen(name, append, create)
     \/ \E fd \in FdNo : SysClose(fd)
     \/ \E fd \in FdNo \cup BadFdNo, count \in 0 .. MaxCount : SysRead(fd, count)
     \/ \E fd \in FdNo \cup BadFdNo, buf \in Buffers :
          StaysInRoom(fd, buf) /\ SysWrite(fd, buf)
     \/ \E name \in Names : SysExecve(name)
     \/ SysExit

DisciplinedSpec == Init /\ [][DisciplinedNext]_vars

-----------------------------------------------------------------------------

\* The extent of each file ends where the next one starts, or before.
ExtentsDisjoint ==
  \A i, j \in FileNo :
    i < j /\ dir[i].used /\ dir[j].used => dir[i].start + dir[i].size <= dir[j].start

\* A descriptor never stands past the end of its file, the one case in which
\* file_read's test for equality would miss the end (sysread.c:19).
PositionWithinSize ==
  \A k \in FdNo : fds[k].type = "FILE" => fds[k].position <= dir[fds[k].entry].size

-----------------------------------------------------------------------------
(* The store the programs see. *)

StoreContent ==
  [name \in Names |->
     IF Missing(name) THEN Absent
     ELSE Contents(CHOOSE i \in FileNo : Named(i, name))]

HandleOf(k) ==
  CASE fds[k].type = "NONE" -> [kind |-> "Closed"]
    [] fds[k].type = "TTY" -> [kind |-> "Tty"]
    [] fds[k].type = "FILE" ->
         [kind |-> "File", name |-> dir[fds[k].entry].name, position |-> fds[k].position]

StoreHandle == [k \in FdNo |-> HandleOf(k)]

Store == INSTANCE FileStore WITH content <- StoreContent, handle <- StoreHandle

\* Every behaviour of the disciplined calls is one of the abstract store: what
\* a read returns is what was last written to that name at that place, across
\* closes, new files and full tables.
ImplementsStore == Store!Spec
==============================================================================
