-------------------------------- MODULE MCQspi --------------------------------
(***************************************************************************)
(* A chip of two cache lines that wraps at its end, and bursts of a whole  *)
(* line at real cycle counts: one aligned, as the cache asks for it, and   *)
(* one that meets the boundary in its middle.                              *)
(***************************************************************************)
EXTENDS Qspi

MCImage == [a \in 0 .. MemSize - 1 |-> <<1, 1 + (a % 15)>>]

OneLine == {[i \in 1 .. BurstLen |-> <<i % 16, 15 - (i % 16)>>]}
LineStarts == {MemSize - BurstLen, MemSize - BurstLen \div 2}
==============================================================================
