------------------------------- MODULE Divider -------------------------------
(***************************************************************************)
(* The divider of ALU.v, one clock edge at a time, as CM.v runs it for     *)
(* DIV, DIVU, REM and REMU: the operation and both operands stand from     *)
(* T = 5 to T = 38, Bits + 2 edges, and the last of them registers the     *)
(* result.  A word is read as unsigned, as its 32 wires are.               *)
(***************************************************************************)
EXTENDS SoftMath

SignedOps == {"DIV", "REM"}
DivOps == SignedOps \cup {"DIVU", "REMU"}

Negative(x) == x >= SignBit
Negated(x)  == Unsigned(-x)
Absolute(x) == IF Negative(x) THEN Negated(x) ELSE x

AllOnes == 2^Bits - 1

(* The first edge takes the operands over, without their signs.            *)
TakeOver(op, a, b) ==
    IF op \in SignedOps
      THEN [div_state |-> 1, hi |-> 0, lo |-> Absolute(a), divisor |-> Absolute(b)]
      ELSE [div_state |-> 1, hi |-> 0, lo |-> a, divisor |-> b]

(* One bit: quo moves up, from its low half into its high one, and the     *)
(* divisor comes off the high half where it fits.                          *)
ShiftSubtract(s) ==
    LET hi == Unsigned(2 * s.hi + Bit(s.lo, Bits - 1))
        lo == Unsigned(2 * s.lo)
    IN  [s EXCEPT !.div_state = @ + 1,
                  !.hi = IF hi >= s.divisor THEN hi - s.divisor ELSE hi,
                  !.lo = IF hi >= s.divisor THEN lo + 1 ELSE lo]

(* A plausible slip: the state that ends the division comes a bit early.   *)
DividingBitShort(n) == n \in 1 .. Bits - 1

(* The states that work on a bit; the one after them goes back to 0.       *)
Dividing(n) == n \in 1 .. Bits

(* Division by zero and the one overflow are answered without dividing,    *)
(* and leave div_state alone.                                              *)
Edge(s, op, a, b) ==
    CASE b = 0 -> [s EXCEPT !.lo = AllOnes, !.hi = a]
      [] b # 0 /\ op \in SignedOps /\ a = SignBit /\ b = AllOnes ->
            [s EXCEPT !.lo = SignBit, !.hi = 0]
      [] OTHER -> IF s.div_state = 0 THEN TakeOver(op, a, b)
                  ELSE IF Dividing(s.div_state) THEN ShiftSubtract(s)
                  ELSE [s EXCEPT !.div_state = 0]

(* The signs come back on the way out, whichever of the above answered.    *)
ALU_D(s, op, a, b) ==
    CASE op = "DIVU" -> s.lo
      [] op = "REMU" -> s.hi
      [] op = "DIV"  -> IF Negative(a) # Negative(b) THEN Negated(s.lo) ELSE s.lo
      [] op = "REM"  -> IF Negative(a) THEN Negated(s.hi) ELSE s.hi

(* An instruction: what is written to the register, and what is left.      *)
Instruction(start, op, a, b) ==
    LET After[n \in 0 .. Bits + 2] ==
            IF n = 0 THEN start ELSE Edge(After[n - 1], op, a, b)
    IN  [ALU_D_registered |-> ALU_D(After[Bits + 1], op, a, b),
         left             |-> After[Bits + 2]]
=============================================================================
