--------------------------- MODULE ProgramListing ---------------------------
(***************************************************************************)
(* What a BASIC promises of the program being typed: it is a table of lines *)
(* by number.  A numbered text replaces its line, or deletes it when there  *)
(* is nothing behind the number; a range of lines can be locked against     *)
(* that.  A text answering a question of the program is none of its lines.  *)
(* How the lines lie in memory is not seen here: Basic implements it.       *)
(***************************************************************************)
EXTENDS Integers, Sequences

CONSTANTS
  Limit,         \* the numbers there are: 0 .. Limit - 1
  Ending         \* the cell a typed text ends with

VARIABLES
  lines,         \* a function from numbers to texts
  locked,        \* <<first, last>>
  entered,       \* the last text typed
  asking         \* whether the program has asked for it

vars == <<lines, locked, entered, asking>>

Figures == <<"0", "1", "2", "3", "4", "5", "6", "7", "8", "9">>
DigitValue == [d \in {Figures[k] : k \in 1 .. 10} |-> (CHOOSE k \in 1 .. 10 : Figures[k] = d) - 1]

(* The number in front of a text, and what is behind it up to the end; there *)
(* may be a blank between them.                                             *)
DigitsOf(text) ==
  CHOOSE k \in 0 .. Len(text) :
    /\ \A i \in 1 .. k : text[i] \in DOMAIN DigitValue
    /\ k < Len(text) => text[k + 1] \notin DOMAIN DigitValue
NumberOf(text) ==
  LET n[k \in 0 .. DigitsOf(text)] == IF k = 0 THEN 0 ELSE 10 * n[k - 1] + DigitValue[text[k]]
  IN n[DigitsOf(text)] % Limit
Behind(text) ==
  LET from == DigitsOf(text) + (IF text[DigitsOf(text) + 1] = " " THEN 2 ELSE 1)
      end == CHOOSE i \in 1 .. Len(text) : text[i] = Ending /\ \A j \in 1 .. i - 1 : text[j] # Ending
  IN SubSeq(text, from, end - 1)

Put(n, text) ==
  lines' = IF text = <<>>
             THEN [m \in DOMAIN lines \ {n} |-> lines[m]]
             ELSE [m \in DOMAIN lines \union {n} |-> IF m = n THEN text ELSE lines[m]]

IsLine(text) ==
  /\ NumberOf(text) \in 1 .. Limit - 2
  /\ ~(locked[1] <= NumberOf(text) /\ NumberOf(text) <= locked[2])

Enter ==
  /\ ~asking /\ IsLine(entered')
  /\ Put(NumberOf(entered'), Behind(entered'))
  /\ UNCHANGED <<locked, asking>>

Clear ==
  /\ UNCHANGED <<entered, asking>>
  /\ lines' = <<>> /\ locked' \in {locked, <<Limit - 1, Limit - 1>>}

Lock ==
  /\ UNCHANGED <<lines, entered, asking>>
  /\ locked' \in (0 .. Limit - 1) \X (0 .. Limit - 1)

Other ==
  /\ entered' = entered \/ asking \/ ~IsLine(entered')
  /\ asking' \in BOOLEAN
  /\ UNCHANGED <<lines, locked>>

Init == locked = <<Limit - 1, Limit - 1>> /\ DOMAIN lines \subseteq 1 .. Limit - 2 /\ asking = FALSE

Next == Enter \/ Clear \/ Lock \/ Other

Spec == Init /\ [][Next]_vars
=============================================================================
