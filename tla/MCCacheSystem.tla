---------------------------- MODULE MCCacheSystem ----------------------------
(***************************************************************************)
(* Three tags that share each line, so that every second access can evict, *)
(* two of them (0 and 2) one line of the memory.                           *)
(* Each byte of memory starts with a value of its own: a byte in the wrong *)
(* lane, word or line shows.  Stores write values found nowhere else.      *)
(***************************************************************************)
EXTENDS CacheSystem

Size == Cardinality(QspiAddress)
MCByte == 0 .. Size + 4

MCImage ==
  [a \in QspiAddress |->
     1 + a.bits + Lanes * (a.word + Words * (a.tag + QspiTags * a.idx))]

Place(t, i, w, b) == [tag |-> t, idx |-> i, word |-> w, bits |-> b]

LoadOf(n, a) ==
  [store |-> FALSE, n |-> n, address |-> a, data |-> [k \in 0 .. n - 1 |-> 0]]
StoreOf(n, a) ==
  [store |-> TRUE, n |-> n, address |-> a, data |-> [k \in 0 .. n - 1 |-> Size + 1 + k]]

\* Two lines of two words of two bytes, with loads and stores on each.
TwoLineRequests ==
  {LoadOf(2, Place(t, 0, 1, 0)) : t \in {0, 1}}
    \cup {LoadOf(1, Place(2, 0, 0, 1)), StoreOf(1, Place(2, 0, 1, 1)),
          StoreOf(1, Place(0, 0, 0, 1)), StoreOf(2, Place(1, 0, 1, 0)),
          StoreOf(2, Place(1, 1, 0, 0)), LoadOf(1, Place(0, 1, 0, 1))}
==============================================================================
