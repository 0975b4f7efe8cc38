------------------------------ MODULE FileStore ------------------------------
(***************************************************************************)
(* What the MRV32 file calls promise a program: a store of named byte      *)
(* sequences, each private to its name, reached through handles that carry *)
(* a position.  The kernel keeps the sequences as extents of one RAM       *)
(* (KernelFiles); nothing of that shows here.                              *)
(***************************************************************************)
EXTENDS Integers, Sequences, FiniteSets

CONSTANTS
  Names,     \* file names
  FdNo,      \* handle numbers
  BadFdNo,   \* numbers outside the table a program may try
  Byte,      \* byte values
  MaxCount,  \* bound: largest byte count of one read or write
  Absent     \* the content of a name that has no file

Closed == [kind |-> "Closed"]
Tty == [kind |-> "Tty"]
OpenAt(name, position) == [kind |-> "File", name |-> name, position |-> position]

Buffers == UNION {[1 .. n -> Byte] : n \in 0 .. MaxCount}

VARIABLES
  content,   \* the bytes of each name's file, or Absent
  handle,    \* what each handle number stands for
  call,      \* the last call and its arguments
  result     \* value and bytes it returned

vars == <<content, handle, call, result>>

Return(v) == result' = [value |-> v, data |-> <<>>]

Exists(name) == content[name] # Absent
IsFile(h) == handle[h].kind = "File"

(* Opening gives a free handle at the start or, to append, at the end. *)
Open(name, append, create) ==
  /\ call' = <<"open", name, append, create>>
  /\ Exists(name) \/ create
  /\ content' = IF Exists(name) THEN content ELSE [content EXCEPT ![name] = <<>>]
  /\ \E h \in FdNo :
       /\ Return(h)
       /\ handle[h] = Closed
       /\ handle' = [handle EXCEPT ![h] =
                       OpenAt(name, IF append THEN Len(content'[name]) ELSE 0)]

(* It may fail for want of a directory slot or a handle, and does for want *)
(* of a file; a file that was to be created may be there afterwards, empty. *)
OpenFails(name, append, create) ==
  /\ call' = <<"open", name, append, create>>
  /\ \/ UNCHANGED content
     \/ create /\ ~Exists(name) /\ content' = [content EXCEPT ![name] = <<>>]
  /\ Return(-1)
  /\ UNCHANGED handle

(* Closing cuts the file at the handle's position. *)
Close(h) ==
  /\ call' = <<"close", h>>
  /\ IsFile(h)
  /\ content' = [content EXCEPT ![handle[h].name] = SubSeq(@, 1, handle[h].position)]
  /\ handle' = [handle EXCEPT ![h] = Closed]
  /\ Return(0)

(* Reading returns the next bytes of this file, up to its end. *)
Read(h, count) ==
  LET c == content[handle[h].name]
      p == handle[h].position
      n == IF Len(c) - p < count THEN Len(c) - p ELSE count
  IN  /\ call' = <<"read", h, count>>
      /\ IsFile(h)
      /\ result' = [value |-> n, data |-> SubSeq(c, p + 1, p + n)]
      /\ handle' = [handle EXCEPT ![h].position = p + n]
      /\ UNCHANGED content

(* Writing replaces the bytes at the position and extends the file. *)
Overwrite(c, p, buf) ==
  SubSeq(c, 1, p) \o buf \o SubSeq(c, p + Len(buf) + 1, Len(c))

Write(h, buf) ==
  LET p == handle[h].position
  IN  /\ call' = <<"write", h, buf>>
      /\ IsFile(h)
      /\ content' = [content EXCEPT ![handle[h].name] = Overwrite(@, p, buf)]
      /\ handle' = [handle EXCEPT ![h].position = p + Len(buf)]
      /\ Return(Len(buf))

(* Calls on a number that is no file's: the terminal's, or an error. *)
IsCallOn(h) ==
  \/ call' = <<"close", h>>
  \/ \E count \in 0 .. MaxCount : call' = <<"read", h, count>>
  \/ \E buf \in Buffers : call' = <<"write", h, buf>>

NotAFile(h) ==
  /\ IsCallOn(h)
  /\ h \in FdNo => ~IsFile(h)
  /\ \E v \in -1 .. MaxCount : Return(v)
  /\ UNCHANGED <<content, handle>>

(* Starting and ending programs leaves files and handles alone. *)
Switch ==
  /\ \/ \E name \in Names : call' = <<"execve", name>> /\ (UNCHANGED result \/ Return(0))
     \/ call' = <<"exit">> /\ UNCHANGED result
  /\ UNCHANGED <<content, handle>>

Init ==
  /\ content \in [Names -> Seq(Byte) \cup {Absent}]
  /\ handle \in [FdNo -> {Closed, Tty}]
  /\ call = <<"boot">>
  /\ result = [value |-> 0, data |-> <<>>]

Next ==
  \/ \E h \in FdNo \cup BadFdNo : NotAFile(h)
  \/ Switch
  \/ \E name \in Names, append, create \in BOOLEAN :
       Open(name, append, create) \/ OpenFails(name, append, create)
  \/ \E h \in FdNo : Close(h)
  \/ \E h \in FdNo, count \in 0 .. MaxCount : Read(h, count)
  \/ \E h \in FdNo, buf \in Buffers : Write(h, buf)

Spec == Init /\ [][Next]_vars
==============================================================================
