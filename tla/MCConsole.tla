----------------------------- MODULE MCConsole -----------------------------
(* The console on small instances: short characters, short bit times.      *)
EXTENDS Console

Ones == [b \in 0 .. DataBits - 1 |-> 1]
LowBit == [b \in 0 .. DataBits - 1 |-> IF b = 0 THEN 1 ELSE 0]

AllKeys == Char

\* Two characters that differ when their bits are shifted, cut or reversed.
TwoKeys == {LowBit, Ones}
=============================================================================
