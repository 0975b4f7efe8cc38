----------------------------- MODULE MCCacheQspi -----------------------------
(***************************************************************************)
(* Four tags on one line of two words of four bytes, over a chip of 16:    *)
(* tag 2 is tag 0 to the controller, tag 5 is tag 1 on the cache's wires.  *)
(***************************************************************************)
EXTENDS CacheQspi

MCImage == [a \in 0 .. MemSize - 1 |-> <<1, 1 + a>>]

Place(t, w, b) == [tag |-> t, idx |-> 0, word |-> w, bits |-> b]
LoadOf(n, a) ==
  [store |-> FALSE, n |-> n, address |-> a, data |-> [k \in 0 .. n - 1 |-> 0]]
StoreOf(n, a) ==
  [store |-> TRUE, n |-> n, address |-> a, data |-> [k \in 0 .. n - 1 |-> 165 + 16 * k]]

\* Bytes, halves and words, at the lanes where they may stand.
MCRequests ==
  {LoadOf(4, Place(0, 0, 0)), LoadOf(1, Place(1, 1, 3)), LoadOf(2, Place(1, 1, 2)),
   StoreOf(1, Place(0, 0, 1)), StoreOf(2, Place(0, 1, 2)), StoreOf(4, Place(1, 1, 0)),
   LoadOf(2, Place(2, 0, 0)), StoreOf(1, Place(5, 1, 1))}
==============================================================================
