-------------------------------- MODULE Heap --------------------------------
(***************************************************************************)
(* The allocator of Kilo/minilib.c: first fit over one static arena.       *)
(*                                                                         *)
(* A cell of mem is eight bytes, the size of a header and the alignment of *)
(* every block, so that sizes are counted in cells: a request of r bytes   *)
(* needs ALIGN8(r), its number of cells.  A block is a header cell and the *)
(* cells of its payload; a pointer is the index of the first payload cell, *)
(* which is never 0, the NULL of this module.  Requests are small beside a *)
(* word: ALIGN8's sum, which wraps for the last seven sizes, does not.     *)
(*                                                                         *)
(* The callers are owners of at most one block each.  An owner fills every *)
(* cell it asked for with its own name before it does anything else: what  *)
(* a block holds later shows who wrote there last.                         *)
(***************************************************************************)
EXTENDS Naturals

CONSTANTS Owners,     \* those who call the allocator
          HEAP_SIZE,  \* cells of the arena
          MaxRequest  \* the largest request, in cells

VARIABLES heap_inited, \* whether the arena holds a first header
          mem,         \* the cells: a header or what an owner wrote
          ptr,         \* the block each owner holds, or NULL
          len          \* what each owner asked for

vars == <<heap_inited, mem, ptr, len>>

NULL == 0
BLOCK_HDR_SIZE == 1
Cells == 0 .. HEAP_SIZE - 1

Block(size, used) == [size |-> size, used |-> used]
Headers == [size : 0 .. HEAP_SIZE, used : BOOLEAN]

(* The arena before the first call is static storage, all zero; a zero     *)
(* cell reads as the header of an empty free block.                        *)
Init ==
    /\ heap_inited = FALSE
    /\ mem = [c \in Cells |-> Block(0, FALSE)]
    /\ ptr = [o \in Owners |-> NULL]
    /\ len = [o \in Owners |-> 0]

heap_init(m) == [m EXCEPT ![0] = Block(HEAP_SIZE - BLOCK_HDR_SIZE, FALSE)]

Arena == IF heap_inited THEN mem ELSE heap_init(mem)

After(m, p) == p + BLOCK_HDR_SIZE + m[p].size

(* Where the walk from header to header finds room, HEAP_SIZE if nowhere.  *)
FirstFit(m, need) ==
    LET From[p \in Nat] ==
            IF p >= HEAP_SIZE \/ (~m[p].used /\ m[p].size >= need)
              THEN p
              ELSE From[After(m, p)]
    IN  From[0]

(* A block that leaves room for a header and one more cell is split.       *)
Take(m, p, need) ==
    IF m[p].size >= need + BLOCK_HDR_SIZE + 1
      THEN [m EXCEPT ![p] = Block(need, TRUE),
                     ![p + BLOCK_HDR_SIZE + need] =
                        Block(m[p].size - need - BLOCK_HDR_SIZE, FALSE)]
      ELSE [m EXCEPT ![p].used = TRUE]

malloc(m, need) ==
    LET p == FirstFit(m, need)
    IN  IF need = 0 \/ p >= HEAP_SIZE
          THEN [ptr |-> NULL, mem |-> m]
          ELSE [ptr |-> p + BLOCK_HDR_SIZE, mem |-> Take(m, p, need)]

(* A plausible slip: the joined block forgets the header it swallowed.     *)
JoinedShort(m, p, q) == Block(m[p].size + m[q].size, FALSE)

(* The block at header p and the one after it, at q, as one.               *)
Joined(m, p, q) == Block(m[p].size + BLOCK_HDR_SIZE + m[q].size, FALSE)

free(m, pt) ==
    LET p == pt - BLOCK_HDR_SIZE
        q == After(m, p)
    IN  IF pt = NULL THEN m
        ELSE IF q < HEAP_SIZE /\ ~m[q].used
          THEN [m EXCEPT ![p] = Joined(m, p, q)]
          ELSE [m EXCEPT ![p].used = FALSE]

Copied(m, d, s, n) ==
    [c \in Cells |-> IF c \in d .. d + n - 1 THEN m[s + (c - d)] ELSE m[c]]

realloc(m, pt, size) ==
    LET old_size == m[pt - BLOCK_HDR_SIZE].size
        new      == malloc(m, size)
    IN  IF pt = NULL THEN new
        ELSE IF size = 0 THEN [ptr |-> NULL, mem |-> free(m, pt)]
        ELSE IF old_size >= size THEN [ptr |-> pt, mem |-> m]
        ELSE IF new.ptr = NULL THEN new
        ELSE [ptr |-> new.ptr,
              mem |-> free(Copied(new.mem, new.ptr, pt, old_size), pt)]

-----------------------------------------------------------------------------

Written(m, o, from, to) == [c \in Cells |-> IF c \in from .. to - 1 THEN o ELSE m[c]]

(* An owner asks for n cells, as editorInsertRow does, and fills them.     *)
Malloc(o, n) ==
    LET r == malloc(Arena, n)
    IN  /\ ptr[o] = NULL
        /\ heap_inited' = TRUE
        /\ ptr' = [ptr EXCEPT ![o] = r.ptr]
        /\ len' = [len EXCEPT ![o] = IF r.ptr = NULL THEN 0 ELSE n]
        /\ mem' = IF r.ptr = NULL THEN r.mem
                                  ELSE Written(r.mem, o, r.ptr, r.ptr + n)

Free(o) ==
    /\ heap_inited
    /\ mem' = free(mem, ptr[o])
    /\ ptr' = [ptr EXCEPT ![o] = NULL]
    /\ len' = [len EXCEPT ![o] = 0]
    /\ UNCHANGED heap_inited

(* An owner makes its block longer or shorter, as editorRowInsertChar does *)
(* and fills only the cells it did not have: it counts on the rest.  When  *)
(* there is no room it keeps the block it has.                             *)
Realloc(o, n) ==
    LET r    == realloc(Arena, ptr[o], n)
        kept == r.ptr = NULL /\ n # 0
    IN  /\ heap_inited' = (heap_inited \/ ptr[o] = NULL)
        /\ mem' = IF r.ptr = NULL THEN r.mem
                  ELSE Written(r.mem, o, r.ptr + len[o], r.ptr + n)
        /\ ptr' = IF kept THEN ptr ELSE [ptr EXCEPT ![o] = r.ptr]
        /\ len' = IF kept THEN len ELSE [len EXCEPT ![o] = n]

Next == \E o \in Owners :
            \/ Free(o)
            \/ \E n \in 0 .. MaxRequest : Malloc(o, n) \/ Realloc(o, n)

Spec == Init /\ [][Next]_vars

-----------------------------------------------------------------------------

(* The headers met from the first one to the end of the arena; HEAP_SIZE   *)
(* is among them when the last block ends exactly there.                   *)
Chain ==
    LET From[p \in Nat] ==
            IF p < HEAP_SIZE /\ mem[p] \in Headers
              THEN {p} \cup From[After(mem, p)]
              ELSE {p}
    IN  From[0]

(* After any sequence of malloc, free and realloc, splits and joins        *)
(* included, the headers still lead from block to block exactly to the end *)
(* of the arena; the blocks in use are the ones the callers hold, one      *)
(* each; every caller has at least the room it asked for; and its cells    *)
(* hold what it wrote, through other callers' calls and realloc's moves.   *)
HeapIntact ==
    heap_inited =>
        LET blocks == Chain \ {HEAP_SIZE}
            held   == {o \in Owners : ptr[o] # NULL}
        IN  /\ HEAP_SIZE \in Chain
            /\ \A p \in blocks : mem[p] \in Headers
            /\ {p \in blocks : mem[p].used} = {ptr[o] - BLOCK_HDR_SIZE : o \in held}
            /\ \A o, q \in held : o # q => ptr[o] # ptr[q]
            /\ \A o \in held :
                  /\ mem[ptr[o] - BLOCK_HDR_SIZE].size >= len[o]
                  /\ \A c \in ptr[o] .. ptr[o] + len[o] - 1 : mem[c] = o
=============================================================================
