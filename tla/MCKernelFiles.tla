---------------------------- MODULE MCKernelFiles ----------------------------
(* Instances of KernelFiles for TLC: one boot file at a low address and room *)
(* for two new ones, or boot.c's two files with one new one.                 *)
EXTENDS KernelFiles, TLC

CONSTANTS basic, kilo, a, b, d

OneBootFile == <<[name |-> kilo, start |-> 2, size |-> 1]>>
TwoBootFiles == <<[name |-> basic, start |-> 2, size |-> 1],
                  [name |-> kilo, start |-> 4, size |-> 1]>>
Blank == [x \in 0 .. MemTop - 1 |-> 0]

(***************************************************************************)
(* What the next step depends on: no call reads result, or more of running *)
(* than whether the kernel is lost, and sysopen overwrites every field of  *)
(* a closed descriptor before it is used again, so states that differ only *)
(* there are explored once.                                                *)
(***************************************************************************)
LiveState ==
  <<dir, mem, running = Lost,
    [k \in FdNo |-> IF fds[k].type = "NONE" THEN "NONE" ELSE fds[k]]>>

\* boot() makes kilo; nothing tells the names of new files apart.
NewNames == Permutations({a, b, d})
==============================================================================
