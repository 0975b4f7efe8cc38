------------------------------- MODULE Library -------------------------------
(***************************************************************************)
(* The two libraries the programs are linked with, and what they promise:  *)
(* the allocator of minilib.c, which keeps state, and the functions of     *)
(* minilib.c and rv32i_stdlib.h, which keep none; and the processor's      *)
(* divider, which does in hardware what theirs do in software.  The        *)
(* functions are compared with what they are for over every argument of    *)
(* the bounds, once, before the first call of malloc.                      *)
(***************************************************************************)
EXTENDS Heap, Divider, MiniLib, FiniteSets

CONSTANTS Letters,    \* the characters of the strings, apart from the zero
          MaxString,  \* characters of a string
          Area,       \* cells of the memory that memmove works on
          MaxBuffer   \* characters of vsnprintf's buffer

ASSUME LibraryAssumption == /\ Letters \subseteq 1 .. 255
                            /\ {MaxString, Area, MaxBuffer} \subseteq Nat

(* C's division truncates towards zero; the remainder makes up for it.     *)
Truncated(a, b) ==
    LET Abs(x) == IF x < 0 THEN -x ELSE x
        q      == Abs(a) \div Abs(b)
    IN  IF (a < 0) # (b < 0) THEN -q ELSE q

(* Everything divides 0, which is its own greatest divisor.                *)
CommonDivisors(a, b) ==
    {d \in 1 .. 2^Bits - 1 : a % d = 0 /\ b % d = 0}

(* What RV32M asks of a division: truncated quotients, and for a division  *)
(* by zero all ones and the dividend, whatever its sign.                   *)
Answer(op, a, b) ==
    CASE op = "DIVU" -> IF b = 0 THEN AllOnes ELSE a \div b
      [] op = "REMU" -> IF b = 0 THEN a ELSE a % b
      [] op = "DIV"  -> IF b = 0 THEN AllOnes
                        ELSE Unsigned(Truncated(Signed(a), Signed(b)))
      [] op = "REM"  -> IF b = 0 THEN a
                        ELSE Unsigned(Signed(a) - Signed(b) * Truncated(Signed(a), Signed(b)))

(* What a division finds when it begins: the registers of the last one.    *)
Leftovers == [div_state |-> 0, hi |-> AllOnes, lo |-> AllOnes, divisor |-> AllOnes]

Divided(op, a, b) == Instruction(Leftovers, op, a, b)

(* ALU.v:239-240 puts the signs back on the answer to a division by zero   *)
(* too: of a negative dividend the quotient is 1, the remainder positive.  *)
NegativeByZero(op, a, b) == b = 0 /\ op \in SignedOps /\ Negative(a)

(* floor of the square root                                                *)
IsRoot(n, x) == x^2 <= n /\ n < (x + 1)^2

(* Every arithmetic function of the library computes what its C operator   *)
(* or its comment says, for every pair of words, the divisor 0 and the     *)
(* smallest signed number included.  The square root of the largest word   *)
(* is left out, where it is wrong.  A number that is written is the same   *)
(* when it is read again, the smallest one included, whose magnitude no    *)
(* signed word holds; after blanks, and before anything that is no digit.  *)
(* And the processor's divider, at the clock at which its result is taken, *)
(* has the quotient or the remainder of every pair of words but a negative *)
(* one by zero, where it is wrong (NegativeByZero), whatever it divided    *)
(* before, and is ready for the next instruction.                          *)
ArithmeticExact ==
    ~heap_inited =>
        /\ \A a, b \in Word :
              /\ mul_u32(a, b) = Unsigned(a * b)
              /\ div_u32(a, b) = IF b = 0 THEN 2^Bits - 1 ELSE a \div b
              /\ mod_u32(a, b) = IF b = 0 THEN a ELSE a % b
              /\ pow_u32(a, b) = IF b = 0 THEN 1 ELSE Unsigned(a * pow_u32(a, b - 1))
              /\ \A op \in DivOps :
                    /\ ~NegativeByZero(op, a, b) =>
                          Divided(op, a, b).ALU_D_registered = Answer(op, a, b)
                    /\ Divided(op, a, b).left.div_state = 0
        /\ \A a, b \in 0 .. 2 * Bits :
              CommonDivisors(a, b) = CommonDivisors(gcd_u32(a, b), gcd_u32(a, b))
        /\ \A a, b \in Int32 :
              /\ mul_i32(a, b) = Signed(a * b)
              /\ b # 0 => /\ div_i32(a, b) = Signed(Truncated(a, b))
                          /\ mod_i32(a, b) = a - b * Truncated(a, b)
        /\ \A n \in Word :
              /\ n # 2^Bits - 1 => IsRoot(n, isqrt(n))
              /\ n # 0 => 2^log2_u32(n) <= n /\ n < 2^(log2_u32(n) + 1)
              /\ Unsigned(atoi(utoa(n))) = n
        /\ \A v \in Int32 : atoi(<<" ", "\t">> \o itoa(v) \o <<"-", "1">>) = v

-----------------------------------------------------------------------------

(* Strings of the bounds in memory, their zero and one more cell behind.   *)
Texts == UNION {[1 .. n -> Letters] : n \in 0 .. MaxString}
Stored(t) == t \o <<0>>

Beginning(s, n) == SubSeq(s, 1, IF n < Len(s) THEN n ELSE Len(s))

Least(S) == IF S = {} THEN NIL ELSE CHOOSE i \in S : \A j \in S : i <= j

FormatItems ==
    [kind : {"d"}, arg : {-12, 0}, width : {0, 4}]
    \cup [kind : {"u", "x"}, arg : {0, 255}, width : {0, 4}]
    \cup [kind : {"s"}, arg : {<<>>, <<"k", "i", "l", "o">>},
          width : {0, 3}, precision : {-1, 2}]
    \cup [kind : {"c"}, arg : {"~"}]

(* The string and memory functions agree with what a string is: comparison *)
(* is equality or the first difference, strchr and strstr find the first   *)
(* occurrence, strrchr the last; memmove leaves at the destination what    *)
(* was at the source, however the two overlap; and vsnprintf stores the    *)
(* longest beginning of its text that fits, ended by a zero, never outside *)
(* the buffer, and answers the length the text would have had.             *)
StringsExact ==
    ~heap_inited =>
        /\ \A s, t \in Texts :
              /\ (strcmp(Stored(s), Stored(t)) = 0) <=> (s = t)
              /\ \A n \in 0 .. MaxString + 1 :
                    (strncmp(Stored(s), Stored(t), n) = 0)
                       <=> (Beginning(Stored(s), n) = Beginning(Stored(t), n))
              /\ strstr(Stored(s), Stored(t)) =
                    Least({i \in 1 .. Len(s) + 1 : IsPrefix(t, SubSeq(s, i, Len(s)))})
        /\ \A s \in Texts, c \in Letters :
              /\ strchr(Stored(s), c) = Least({i \in DOMAIN s : s[i] = c})
              /\ LET p == strrchr(Stored(s), c)
                 IN  /\ p = NIL <=> c \notin Range(s)
                     /\ p # NIL => s[p] = c /\ \A i \in p + 1 .. Len(s) : s[i] # c
        /\ \A d, s \in 1 .. Area, n \in 0 .. Area :
              d + n <= Area + 1 /\ s + n <= Area + 1 =>
                  LET m == [i \in 1 .. Area |-> i]
                  IN  memmove(m, d, s, n) =
                         [i \in 1 .. Area |-> IF i \in d .. d + n - 1 THEN i - d + s ELSE i]
        /\ \A size \in 1 .. MaxBuffer, x, y \in FormatItems :
              LET text == Conversion(x) \o Conversion(y)
                  r    == vsnprintf([i \in 0 .. size - 1 |-> "old"], size, <<x, y>>)
                  n    == IF Len(text) < size THEN Len(text) ELSE size - 1
              IN  /\ r.ret = Len(text)
                  /\ \A i \in 0 .. n - 1 : r.buf[i] = text[i + 1]
                  /\ r.buf[n] = NUL
=============================================================================
