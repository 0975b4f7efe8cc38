------------------------------- MODULE MiniLib -------------------------------
(***************************************************************************)
(* The string, memory and formatting functions of Kilo/minilib.c.          *)
(*                                                                         *)
(* A string in memory is a sequence of characters with its final zero, and *)
(* what follows is what happens to lie behind it; a pointer into it is an  *)
(* index.  Characters are the numbers 0 .. 255.                            *)
(***************************************************************************)
EXTENDS Integers, Sequences, SequencesExt

NIL == 0 \* the null pointer

strlen(s) ==
    LET From[p \in Nat] == IF s[p] = 0 THEN p - 1 ELSE From[p + 1]
    IN  From[1]

(* What dst holds after the call; the zero is copied too.                  *)
strcpy(dst, src) ==
    [i \in DOMAIN dst |-> IF i <= strlen(src) + 1 THEN src[i] ELSE dst[i]]

(* n cells are written, the ones after the string with zeros; a string of  *)
(* n characters or more leaves no zero behind.                             *)
strncpy(dst, src, n) ==
    [i \in DOMAIN dst |-> IF i > n THEN dst[i]
                          ELSE IF i <= strlen(src) THEN src[i] ELSE 0]

strncmp(a, b, n) ==
    LET From[i \in Nat] ==
            IF i > n THEN 0
            ELSE IF a[i] # 0 /\ a[i] = b[i] THEN From[i + 1]
            ELSE a[i] - b[i]
    IN  From[1]

strcmp(a, b) ==
    LET From[i \in Nat] ==
            IF a[i] # 0 /\ a[i] = b[i] THEN From[i + 1] ELSE a[i] - b[i]
    IN  From[1]

(* The first difference among n cells of a from i and of b from j.         *)
memcmp(a, i, b, j, n) ==
    LET From[k \in Nat] ==
            IF k = n THEN 0
            ELSE IF a[i + k] # b[j + k] THEN a[i + k] - b[j + k]
            ELSE From[k + 1]
    IN  From[0]

strchr(s, c) ==
    LET From[p \in Nat] ==
            IF s[p] = 0 THEN IF c = 0 THEN p ELSE NIL
            ELSE IF s[p] = c THEN p
            ELSE From[p + 1]
    IN  From[1]

strrchr(s, c) ==
    LET From[p \in Nat, last \in Nat] ==
            IF s[p] = 0 THEN IF c = 0 THEN p ELSE last
            ELSE From[p + 1, IF s[p] = c THEN p ELSE last]
    IN  From[1, NIL]

strstr(hay, needle) ==
    LET From[p \in Nat] ==
            IF hay[p] = 0 THEN NIL
            ELSE IF hay[p] = needle[1] /\ memcmp(hay, p, needle, 1, strlen(needle)) = 0
              THEN p
            ELSE From[p + 1]
    IN  IF strlen(needle) = 0 THEN 1 ELSE From[1]

memset(m, s, c, n) == [i \in DOMAIN m |-> IF i \in s .. s + n - 1 THEN c ELSE m[i]]

(* One byte at a time, upwards: a byte already overwritten is read again.  *)
memcpy(m, d, s, n) ==
    LET Upto[k \in Nat] ==
            IF k = 0 THEN m
            ELSE [Upto[k - 1] EXCEPT ![d + k - 1] = Upto[k - 1][s + k - 1]]
    IN  Upto[n]

(* A plausible slip: the direction is chosen the other way round.          *)
UpwardsWrong(d, s) == d > s

(* Whether the copy may go upwards.                                        *)
Upwards(d, s) == d < s

memmove(m, d, s, n) ==
    LET Downto[k \in Nat] ==
            IF k = 0 THEN m
            ELSE [Downto[k - 1] EXCEPT ![d + n - k] = Downto[k - 1][s + n - k]]
    IN  IF Upwards(d, s) THEN memcpy(m, d, s, n) ELSE Downto[n]

-----------------------------------------------------------------------------

(* Formatted output.  An item of a format is a literal character or a      *)
(* conversion with its width, its precision (-1 for none) and its argument;*)
(* the characters of these texts are strings, NUL ends one.                *)

NUL == "nul"

Blanks(n) == [i \in 1 .. n |-> " "]

HexDigits == <<"0", "1", "2", "3", "4", "5", "6", "7",
               "8", "9", "a", "b", "c", "d", "e", "f">>

(* fmt_int: the digits in reverse, the sign last, then the blanks that make*)
(* up the width, and all of it written from the end.                       *)
fmt_int(val, base, width) ==
    LET Reversed[v \in Nat] ==
            IF v = 0 THEN <<>>
            ELSE <<HexDigits[(v % base) + 1]>> \o Reversed[v \div base]
        tmp == (IF val = 0 THEN <<"0">> ELSE Reversed[IF val < 0 THEN -val ELSE val])
               \o (IF val < 0 THEN <<"-">> ELSE <<>>)
    IN  Blanks(width - Len(tmp)) \o Reverse(tmp)

(* %s writes at most precision characters and pads behind them.            *)
fmt_puts(s, precision, width) ==
    LET maxlen == IF precision >= 0 /\ precision < Len(s) THEN precision ELSE Len(s)
    IN  SubSeq(s, 1, maxlen) \o Blanks(width - maxlen)

Conversion(item) ==
    CASE item.kind = "d" -> fmt_int(item.arg, 10, item.width)
      [] item.kind = "u" -> fmt_int(item.arg, 10, item.width)
      [] item.kind = "x" -> fmt_int(item.arg, 16, item.width)
      [] item.kind = "s" -> fmt_puts(item.arg, item.precision, item.width)
      [] item.kind = "c" -> <<item.arg>>

(* Every character is counted, and stored while there is room for it and   *)
(* the final zero.                                                         *)
fmt_putc(out, size, c) ==
    [buf |-> IF out.pos < size - 1 THEN [out.buf EXCEPT ![out.pos] = c] ELSE out.buf,
     pos |-> out.pos + 1]

vsnprintf(buf, size, items) ==
    LET Put[o \in [buf : [0 .. size - 1 -> STRING], pos : Nat], cs \in Seq(STRING)] ==
            IF cs = <<>> THEN o ELSE Put[fmt_putc(o, size, Head(cs)), Tail(cs)]
        Upto[k \in Nat] ==
            IF k = 0 THEN [buf |-> buf, pos |-> 0]
            ELSE Put[Upto[k - 1], Conversion(items[k])]
        Closed(out) == [out.buf EXCEPT
                           ![IF out.pos < size THEN out.pos ELSE size - 1] = NUL]
    IN  IF size = 0 THEN [buf |-> buf, ret |-> 0]
        ELSE [buf |-> Closed(Upto[Len(items)]), ret |-> Upto[Len(items)].pos]
=============================================================================
