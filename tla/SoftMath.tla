------------------------------ MODULE SoftMath ------------------------------
(***************************************************************************)
(* The arithmetic and the number conversions of OS/rv32i_stdlib.h: the     *)
(* processor's compiler must not call a library for *, / and %, so they    *)
(* are made of shifts, additions and comparisons.                          *)
(*                                                                         *)
(* An unsigned number is one of Word, a signed one its reading in two's    *)
(* complement.  A text is a sequence of characters without its final zero. *)
(***************************************************************************)
EXTENDS Integers, Sequences

CONSTANT Bits \* of a word: 32 in the program, a power of two

ASSUME BitsAssumption == Bits \in {2, 4, 8, 16, 32}

Word == 0 .. 2^Bits - 1
SignBit == 2^(Bits - 1)
Int32 == -SignBit .. SignBit - 1

Unsigned(x) == x % 2^Bits
Signed(x) == LET u == x % 2^Bits IN IF u >= SignBit THEN u - 2^Bits ELSE u

Bit(x, i) == (x \div 2^i) % 2

abs_i32(x) == IF x < 0 THEN Signed(-x) ELSE x
min_i32(a, b) == IF a < b THEN a ELSE b
max_i32(a, b) == IF a > b THEN a ELSE b
clamp_i32(v, lo, hi) == IF v < lo THEN lo ELSE IF v > hi THEN hi ELSE v

(* What a sign is taken off of, and put back on.                           *)
Magnitude(x) == Unsigned(IF x < 0 THEN -x ELSE x)
WithSign(neg, u) == Signed(IF neg THEN -Signed(u) ELSE u)

(* Shift and add.                                                          *)
mul_u32(a, b) ==
    LET Loop[x, y \in Nat, result \in Nat] ==
            IF y = 0 THEN result
            ELSE Loop[Unsigned(2 * x), y \div 2,
                      IF y % 2 = 1 THEN Unsigned(result + x) ELSE result]
    IN  Loop[a, b, 0]

mul_i32(a, b) == WithSign((a < 0) # (b < 0), mul_u32(Magnitude(a), Magnitude(b)))

(* A plausible slip: a remainder equal to the divisor is left alone.       *)
SubtractLate(rem, den) == IF rem > den THEN rem - den ELSE rem

(* One step of the long division: the divisor comes off when it fits.      *)
Subtract(rem, den) == IF rem >= den THEN rem - den ELSE rem

(* Long division, from the highest bit down: the remainder and quotient.   *)
LongDivision(num, den) ==
    LET Loop[i \in 0 .. Bits] ==
            IF i = Bits THEN [rem |-> 0, quot |-> 0]
            ELSE LET above == Loop[i + 1]
                     rem   == Unsigned(2 * above.rem + Bit(num, i))
                 IN  [rem  |-> Subtract(rem, den),
                      quot |-> above.quot + IF rem >= den THEN 2^i ELSE 0]
    IN  Loop[0]

div_u32(num, den) == IF den = 0 THEN 2^Bits - 1 ELSE LongDivision(num, den).quot
mod_u32(num, den) == IF den = 0 THEN num ELSE LongDivision(num, den).rem

div_i32(num, den) ==
    IF den = 0 THEN -1
    ELSE WithSign((num < 0) # (den < 0), div_u32(Magnitude(num), Magnitude(den)))

mod_i32(num, den) ==
    IF den = 0 THEN num
    ELSE WithSign(num < 0, mod_u32(Magnitude(num), Magnitude(den)))

(* Newton's iteration from above, until it stops going down.               *)
isqrt(n) ==
    LET Next[x \in Nat] == Unsigned(x + div_u32(n, x)) \div 2
        Loop[x \in Nat, y \in Nat] == IF y < x THEN Loop[y, Next[y]] ELSE x
    IN  IF n < 2 THEN n ELSE Loop[n, Unsigned(n + 1) \div 2]

gcd_u32(a, b) ==
    LET Loop[x \in Nat, y \in Nat] == IF y = 0 THEN x ELSE Loop[y, mod_u32(x, y)]
    IN  Loop[a, b]

pow_u32(base, exp) ==
    LET Loop[b, e \in Nat, result \in Nat] ==
            IF e = 0 THEN result
            ELSE Loop[mul_u32(b, b), e \div 2,
                      IF e % 2 = 1 THEN mul_u32(result, b) ELSE result]
    IN  Loop[base, exp, 1]

(* Half of the bits, then half of those, each shifted out when all zero.   *)
clz_u32(x) ==
    LET Loop[v \in Nat, half \in Nat] ==
            IF half = 0 THEN 0
            ELSE IF v \div 2^(Bits - half) = 0
              THEN half + Loop[Unsigned(v * 2^half), half \div 2]
              ELSE Loop[v, half \div 2]
    IN  IF x = 0 THEN Bits ELSE Loop[x, Bits \div 2]

log2_u32(x) == IF x = 0 THEN -1 ELSE Bits - 1 - clz_u32(x)

-----------------------------------------------------------------------------

Digits == <<"0", "1", "2", "3", "4", "5", "6", "7",
            "8", "9", "a", "b", "c", "d", "e", "f">>

(* The digits of a number, written from the last one back.                 *)
utoa(val) ==
    LET Loop[v \in Nat, text \in Seq(STRING)] ==
            IF v = 0 THEN text
            ELSE Loop[div_u32(v, 10), <<Digits[mod_u32(v, 10) + 1]>> \o text]
    IN  IF val = 0 THEN <<"0">> ELSE Loop[val, <<>>]

(* -(val + 1) + 1 avoids the negation that the smallest number overflows.  *)
itoa(val) ==
    IF val < 0 THEN <<"-">> \o utoa(Unsigned(Unsigned(-(val + 1)) + 1))
               ELSE utoa(val)

utohex(val) ==
    LET Loop[v \in Nat] ==
            IF v = 0 THEN <<>> ELSE Append(Loop[v \div 16], Digits[(v % 16) + 1])
    IN  <<"0", "x">> \o IF val = 0 THEN <<"0">> ELSE Loop[val]

Spaces == {" ", "\t", "\n", "\r"}

DigitValue(c) == (CHOOSE i \in 1 .. 10 : Digits[i] = c) - 1

(* A plausible slip: the sum stops at the largest number.                  *)
WithDigitClamped(val, d) == min_i32(val * 10 + d, SignBit - 1)

(* One more digit; the sum wraps in the build.                             *)
WithDigit(val, d) == Signed(mul_i32(val, 10) + d)

(* Blanks, one sign, digits; whatever follows is ignored.  The negation at *)
(* the end wraps as the sums do.                                           *)
atoi(s) ==
    LET At(i) == IF i <= Len(s) THEN s[i] ELSE "end"
        Skip[i \in Nat] == IF At(i) \in Spaces THEN Skip[i + 1] ELSE i
        start == Skip[1]
        first == IF At(start) \in {"-", "+"} THEN start + 1 ELSE start
        Value[i \in Nat, val \in Int] ==
            IF \E d \in 1 .. 10 : Digits[d] = At(i)
              THEN Value[i + 1, WithDigit(val, DigitValue(At(i)))]
              ELSE val
        val   == Value[first, 0]
    IN  IF At(start) = "-" THEN Signed(-val) ELSE val
=============================================================================
