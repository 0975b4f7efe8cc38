------------------------------- MODULE MCSdCard -------------------------------
(* Blocks of a few bytes; every byte of RAM and card has a value of its own. *)
EXTENDS SdCard

MCRam == [a \in 0 .. RamTop - 1 |-> 17 * (a + 1)]
MCDisk == [b \in 0 .. Blocks - 1 |-> [i \in 1 .. BlockLen |-> 128 + 37 * b + 5 * i]]
===============================================================================
