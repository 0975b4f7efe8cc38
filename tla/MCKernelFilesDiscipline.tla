----------------------- MODULE MCKernelFilesDiscipline -----------------------
(* An instance of the disciplined programs for TLC. *)
EXTENDS KernelFilesDiscipline, TLC

CONSTANTS kilo, a, b, d

OneBootFile == <<[name |-> kilo, start |-> 2, size |-> 1]>>
Blank == [x \in 0 .. MemTop - 1 |-> 0]

(* What the next step depends on, as in MCKernelFiles. *)
LiveState ==
  <<dir, mem, running = Lost,
    [k \in FdNo |-> IF fds[k].type = "NONE" THEN "NONE" ELSE fds[k]]>>

\* boot() makes kilo; nothing tells the names of new files apart.
NewNames == Permutations({a, b, d})
==============================================================================
