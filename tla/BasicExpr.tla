------------------------------ MODULE BasicExpr ------------------------------
(***************************************************************************)
(* The expressions of TinyBasicLike (expression, expr1 .. expr4 and        *)
(* CalcAddressOfVariable in src/TinyBasicLike/TinyBasicLike.c).            *)
(*                                                                         *)
(* A text is a function from addresses to cells: a digit, a letter, a mark *)
(* or a whole word of the keyword tables.  Blanks are left out but between *)
(* two numbers; a text has them where scantable wants one behind a word.   *)
(* The code's functions call each other and loop; here they are the rows   *)
(* of one recursive function, a loop carrying its value so far.            *)
(***************************************************************************)
EXTENDS Integers, Sequences, Bitwise, TLC

CONSTANTS
  Width,         \* the bits of a DATA_SIZE (32)
  LastSimple,    \* how many letters come before X (23: A to W)
  Side,          \* ARRAY_X_SIZE = ARRAY_Y_SIZE (20)
  VarCells       \* the cells of the variables' space (1293)

ASSUME ExprConstants ==
  /\ Width \in Nat \ {0, 1} /\ LastSimple \in 1 .. 23 /\ Side \in Nat \ {0}
  /\ VarCells >= LastSimple + 2 + 3 * Side * Side

NL == "\n"
HexDigits == <<"0", "1", "2", "3", "4", "5", "6", "7", "8", "9",
               "A", "B", "C", "D", "E", "F">>
Digits == SubSeq(HexDigits, 1, 10)
Letters == SubSeq(<<"A", "B", "C", "D", "E", "F", "G", "H", "I", "J", "K", "L", "M", "N", "O",
                    "P", "Q", "R", "S", "T", "U", "V", "W">>, 1, LastSimple) \o <<"X", "Y", "Z">>
Ports == <<"PORTA", "PORTB", "PORTC", "PORTM", "PORTN", "PORTO", "PORTP">>

Member(seq, cell) == \E i \in 1 .. Len(seq) : seq[i] = cell
IndexOf(seq, cell) == (CHOOSE i \in 1 .. Len(seq) : seq[i] = cell) - 1

(* What two's complement makes of a number; division truncates.            *)
Wrap(n) == ((n + 2 ^ (Width - 1)) % 2 ^ Width) - 2 ^ (Width - 1)
Unsigned(n) == n % 2 ^ Width
Abs(n) == IF n < 0 THEN -n ELSE n
QuotientDown(a, b) == a \div b
Quotient(a, b) == IF (a < 0) = (b < 0) THEN Abs(a) \div Abs(b) ELSE -(Abs(a) \div Abs(b))
Rest(a, b) == a - b * Quotient(a, b)

Yields(n, p) == [value |-> Wrap(n), at |-> p, ok |-> TRUE]
Failed(p) == [value |-> 0, at |-> p, ok |-> FALSE]

Relation(op, a, b) ==
  LET holds == CASE op = ">=" -> a >= b [] op = ">" -> a > b [] op = "=" -> a = b
                 [] op = "<=" -> a <= b [] op = "<" -> a < b [] OTHER -> a # b
  IN IF holds THEN 1 ELSE 0
Logic(op, a, b) ==
  CASE op = "AND" -> Unsigned(a) & Unsigned(b)
    [] op = "OR" -> Unsigned(a) | Unsigned(b)
    [] OTHER -> Unsigned(a) ^^ Unsigned(b)
(* SLL and SRA shift by the whole register: nothing is left of a word that   *)
(* goes past its width, or its sign.                                        *)
ShiftByLowBits(op, a, b) == IF op = "<<" THEN a * 2 ^ (b % Width) ELSE a \div 2 ^ (b % Width)
Shift(op, a, b) ==
  LET places == IF Unsigned(b) < Width THEN Unsigned(b) ELSE Width
  IN IF op = "<<" THEN a * 2 ^ places ELSE a \div 2 ^ places
Apply(op, a, b) ==
  CASE op = "+" -> a + b [] op = "-" -> a - b [] op = "*" -> a * b
    [] op = "/" -> Quotient(a, b) [] OTHER -> Rest(a, b)

(* A run of digits of a base.                                               *)
Number(text, base, from) ==
  LET digits == SubSeq(HexDigits, 1, base)
      n[p \in Nat, v \in Int] ==
        IF Member(digits, text[p]) THEN n[p + 1, Wrap(v * base + IndexOf(digits, text[p]))]
                                   ELSE Yields(v, p)
  IN n[from, 0]

(* The functions as the rows of one: each gives a value, the address behind *)
(* what it read, and whether expression_error is still clear.  env holds the *)
(* variables' cells, the ports, the current line's number or -1, and what    *)
(* any other memory reads as, the random numbers included.  A value of the  *)
(* row "address" is the number of a cell, -1 standing for the null pointer. *)
Parse(text, env) ==
  LET Cell(i) == IF i \in DOMAIN env.mem THEN env.mem[i] ELSE env.stray
      F[rule \in STRING, p \in Nat, v \in Int] ==
        LET \* an operand, then an operator of `ops' at most once
            Once(inner, ops, Op(_, _, _)) ==
              LET a == F[inner, p, 0]
                  b == F[inner, a.at + 1, 0]
              IN IF ~a.ok \/ text[a.at] \notin ops THEN a
                 ELSE IF ~b.ok THEN b ELSE Yields(Op(text[a.at], a.value, b.value), b.at)
            \* the turns of a loop over the operators `ops'
            Enter(loop, r) == IF r.ok THEN F[loop, r.at, r.value] ELSE r
            Turn(loop, ops, inner) ==
              LET b == F[inner, p + 1, 0]
              IN IF text[p] \notin ops THEN Yields(v, p)
                 ELSE IF ~b.ok \/ (text[p] \in {"/", "%", "MOD"} /\ b.value = 0) THEN Failed(b.at)
                 ELSE Enter(loop, Yields(Apply(text[p], v, b.value), b.at))
            left == F["expr2", p, 0]
        IN CASE rule = "expression" ->
                  Once("expr1", {">=", "<>", "!=", ">", "=", "<=", "<"}, Relation)
             [] rule = "expr1" ->
                  IF left.ok /\ text[left.at] = "NOT" THEN [left EXCEPT !.at = @ + 1]
                  ELSE Once("expr2", {"AND", "OR", "XOR"}, Logic)
             [] rule = "expr2" ->
                  IF text[p] \in {"-", "+"} THEN F["sum", p, 0] ELSE Enter("sum", F["expr2a", p, 0])
             [] rule = "sum" -> Turn("sum", {"+", "-"}, "expr2a")
             [] rule = "expr2a" -> Enter("modulus", F["expr3", p, 0])
             [] rule = "modulus" -> Turn("modulus", {"%", "MOD"}, "expr3")
             [] rule = "expr3" -> Enter("product", F["expr3a", p, 0])
             [] rule = "product" -> Turn("product", {"*", "/"}, "expr3a")
             [] rule = "expr3a" -> Once("expr4", {"<<", ">>"}, Shift)
             [] rule = "address" ->
                  LET base == IndexOf(Letters, text[p])
                      x == F["expression", p + 2, 0]
                      y == F["expression", x.at + 1, 0]
                      pair == text[x.at] = ","
                      end == IF x.ok /\ pair THEN y ELSE x
                  IN IF base < LastSimple \/ text[p + 1] # "(" THEN Yields(base, p + 1)
                     ELSE IF ~end.ok THEN end
                     ELSE IF text[end.at] # ")" THEN Yields(-1, end.at)
                     ELSE Yields(base + Side * Side * (base - LastSimple)
                                 + IF pair THEN x.value * Side + y.value ELSE x.value, end.at + 1)
             [] OTHER -> \* expr4
                  LET next == F["expr4", p + 1, 0]
                      in == F["expression", p + (IF text[p] = "(" THEN 1 ELSE 2), 0]
                      var == F["address", p, 0]
                      named == F["address", p + 2, 0]
                      call == text[p + 1] = "("
                      Closed(r, n) == IF ~r.ok \/ text[r.at] # ")" THEN Failed(r.at)
                                                                    ELSE Yields(n, r.at + 1)
                  IN CASE text[p] = "-" -> [next EXCEPT !.value = Wrap(-@)]
                       [] text[p] = "NOT" -> [next EXCEPT !.value = IF @ # 0 THEN 0 ELSE 1]
                       [] text[p] = "0" /\ text[p + 1] = "X" -> Number(text, 16, p + 2)
                       [] text[p] = "0" -> Yields(0, p + 1)
                       [] Member(Digits, text[p]) -> Number(text, 10, p)
                       [] text[p] = "$" -> Yields(IF env.here = -1 THEN env.stray ELSE env.here, p + 1)
                       [] Member(Letters, text[p]) ->
                            IF var.ok THEN Yields(Cell(var.value), var.at) ELSE var
                       [] Member(Ports, text[p]) -> Yields(env.ports[text[p]], p + 1)
                       [] text[p] = "ADDR" /\ call /\ Member(Letters, text[p + 2]) ->
                            Closed(named, IF named.ok THEN Cell(named.value) ELSE 0)
                       [] text[p] = "TONE?" /\ call -> Closed(Yields(1, p + 2), 1)
                       [] text[p] = "PEEK" /\ call -> Closed(in, env.stray)
                       [] text[p] = "ABS" /\ call -> Closed(in, Abs(in.value))
                       [] text[p] = "RND" /\ call ->
                            IF in.value = 0 THEN Failed(in.at) ELSE Closed(in, Rest(Abs(env.stray), in.value))
                       [] text[p] = "(" -> Closed(in, in.value)
                       [] OTHER -> Failed(p)
  IN F

Expression(text, env, p) == Parse(text, env)["expression", p, 0]
CalcAddressOfVariable(text, env, p) == Parse(text, env)["address", p, 0]

(* testnum, which reads the numbers of lines: it stops at the largest        *)
(* DATA_SIZE.  Its hexadecimal branch is nested in the decimal one, where    *)
(* it is never entered: "0X" is skipped and counts as 0.                    *)
testnum(text, from) ==
  LET max == 2 ^ (Width - 1) - 1
      n[p \in Nat, v \in Int] ==
        IF ~Member(Digits, text[p]) THEN [value |-> v, at |-> p]
        ELSE IF v >= max \div 10 THEN [value |-> max, at |-> p]
        ELSE n[p + 1, v * 10 + IndexOf(Digits, text[p])]
  IN IF text[from] = "0" /\ text[from + 1] = "X" THEN [value |-> 0, at |-> from + 2] ELSE n[from, 0]

-----------------------------------------------------------------------------
(* What an expression means: a tree of operators, written with no more       *)
(* brackets than the ranks below ask for.                                   *)
Rank(t) ==
  CASE t.op \in {"=", "<>", "<", ">=", ">", "<="} -> 1 [] t.op \in {"AND", "OR", "XOR"} -> 2
    [] t.op \in {"+", "-", "negate"} -> 3 [] t.op \in {"%", "MOD"} -> 4 [] t.op \in {"*", "/"} -> 5
    [] t.op \in {"<<", ">>"} -> 6 [] OTHER -> 7
Leaf(cell) == [op |-> "leaf", cell |-> cell]
Join(l, op, r) == [op |-> op, left |-> l, right |-> r]
Negate(r) == [op |-> "negate", right |-> r]

RECURSIVE Written(_), Meaning(_, _)
Written(t) ==
  LET Operand(x, loose) == IF loose THEN <<"(">> \o Written(x) \o <<")">> ELSE Written(x)
      right == Operand(t.right, Rank(t.right) <= Rank(t))
  IN CASE t.op = "leaf" -> <<t.cell>>
       [] t.op = "negate" -> <<"-">> \o right
       [] OTHER -> Operand(t.left, Rank(t.left) < Rank(t) \/ (Rank(t.left) = Rank(t) /\ Rank(t) \in {1, 2, 6}))
                   \o <<t.op>> \o right

(* Division truncates: the rest has the dividend's sign.  A division by zero *)
(* has no meaning, written as the empty set.  A shift by a count that is     *)
(* negative or no smaller than the width leaves 0, or the sign.              *)
Truncated(a, b) ==
  CHOOSE q \in -Abs(a) .. Abs(a) :
    LET rest == a - b * q IN Abs(rest) < Abs(b) /\ (rest = 0 \/ (rest < 0) = (a < 0))
Meaning(t, leaf) ==
  LET Of(a, b) ==
        CASE t.op = "/" -> {Wrap(Truncated(a, b)) : x \in {0} \ {b}}
          [] Rank(t) = 4 -> {a - b * Truncated(a, b) : x \in {0} \ {b}}
          [] t.op = "*" -> {Wrap(a * b)} [] t.op = "+" -> {Wrap(a + b)} [] t.op = "-" -> {Wrap(a - b)}
          [] Rank(t) = 6 /\ b \notin 0 .. Width - 1 -> {IF t.op = ">>" /\ a < 0 THEN -1 ELSE 0}
          [] t.op = "<<" -> {Wrap(a * 2 ^ b)} [] t.op = ">>" -> {a \div 2 ^ b}
          [] Rank(t) = 2 -> {Wrap(Logic(t.op, a, b))}
          [] OTHER -> {IF (CASE t.op = "=" -> a = b [] t.op = "<>" -> a # b
                             [] t.op = "<" -> a < b [] t.op = ">" -> b < a
                             [] t.op = "<=" -> a <= b [] OTHER -> b <= a) THEN 1 ELSE 0}
  IN CASE t.op = "leaf" -> {leaf[t.cell]}
       [] t.op = "negate" -> {Wrap(-v) : v \in Meaning(t.right, leaf)}
       [] OTHER -> UNION {Of(a, b) : a \in Meaning(t.left, leaf), b \in Meaning(t.right, leaf)}

TreesMean ==
  LET smallest == -(2 ^ (Width - 1))
      leaf == ("7" :> 7) @@ ("2" :> 2) @@ ("A" :> -5) @@ ("1" :> 1) @@ ("B" :> smallest)
      ops == {"=", "<", ">", "<=", ">=", "<>", "AND", "OR", "XOR", "+", "-", "%", "MOD", "*", "/",
              "<<", ">>"}
      leaves == {Leaf(c) : c \in {"7", "2", "A"}}
      extremes == {Leaf("B"), Negate(Leaf("B")), Leaf("1"), Negate(Leaf("1"))}
      edge == {Join(l, op, r) : l \in extremes, op \in ops, r \in extremes}
      one == {Join(l, op, r) : l \in leaves, op \in ops, r \in leaves}
               \union {Negate(l) : l \in leaves}
      two == {Join(t, op, l) : t \in one, op \in ops, l \in leaves}
               \union {Join(l, op, t) : t \in one, op \in ops, l \in leaves}
               \union {Negate(t) : t \in one}
      env == [mem |-> [i \in 0 .. VarCells - 1 |-> CASE i = 0 -> -5 [] i = 1 -> smallest [] OTHER -> 0],
              ports |-> <<>>, here |-> -1, stray |-> 0]
  IN \A t \in one \union two \union edge :
       LET cells == Append(Written(t), NL)
           text == [p \in 1 .. 2 * Len(cells) |-> IF p \in DOMAIN cells THEN cells[p] ELSE NL]
           r == Expression(text, env, 1)
       IN IF Meaning(t, leaf) = {} THEN ~r.ok
          ELSE r.ok /\ r.at = Len(cells) /\ {r.value} = Meaning(t, leaf)
=============================================================================
