----------------------------- MODULE TextBuffer -----------------------------
(***************************************************************************)
(* What a text editor promises: lines of characters and one place in them. *)
(* Typing, breaking a line and erasing act at that place and nowhere else. *)
(* Nothing here knows of windows, scrolling, highlighting or files: it is  *)
(* the specification that Kilo implements.                                 *)
(***************************************************************************)
EXTENDS Integers, Sequences

CONSTANTS Space,          \* the character short lines are filled up with
          Chars,          \* the characters that can be typed
          Width(_)        \* the columns a line takes on a screen

VARIABLES text,           \* a sequence of lines
          at              \* <<line, column>>, both counted from zero

vars == <<text, at>>

LineOf(t, r) == IF r < Len(t) THEN t[r + 1] ELSE <<>>

Filled(line, c) == [i \in 1 .. (IF c > Len(line) THEN c ELSE Len(line)) |->
                      IF i <= Len(line) THEN line[i] ELSE Space]

(* A character goes in at the place; missing lines and columns appear.     *)
Type(ch) ==
  LET r == at[1]
      c == at[2]
      l == Filled(LineOf(text, r), c)
  IN /\ text' = [i \in 1 .. (IF r < Len(text) THEN Len(text) ELSE r + 1) |->
                   IF i = r + 1
                     THEN SubSeq(l, 1, c) \o <<ch>> \o SubSeq(l, c + 1, Len(l))
                     ELSE LineOf(text, i - 1)]
     /\ at' = <<r, c + 1>>

(* The line is cut at the place, or an empty line is added at the end.     *)
Break ==
  LET r == at[1]
      l == LineOf(text, r)
      c == IF at[2] < Len(l) THEN at[2] ELSE Len(l)
  IN /\ r <= Len(text)
     /\ text' = SubSeq(text, 1, r)
                \o (IF r = Len(text) THEN << <<>> >>
                    ELSE << SubSeq(l, 1, c), SubSeq(l, c + 1, Len(l)) >>)
                \o SubSeq(text, r + 2, Len(text))
     /\ at' = <<r + 1, 0>>

(* The character before the place goes, or the line joins the one above.   *)
Erase ==
  LET r == at[1]
      c == at[2]
      l == LineOf(text, r)
  IN /\ r < Len(text)
     /\ \/ /\ c > 0
           /\ text' = IF c > Len(l) THEN text
                      ELSE [text EXCEPT ![r + 1] = SubSeq(l, 1, c - 1) \o SubSeq(l, c + 1, Len(l))]
           /\ at' = <<r, c - 1>>
        \/ /\ c = 0 /\ r > 0
           /\ text' = SubSeq(text, 1, r - 1) \o << text[r] \o l >>
                      \o SubSeq(text, r + 2, Len(text))
           /\ at' = <<r - 1, Len(text[r])>>

(* The place may move anywhere a line reaches, the text staying as it is.  *)
Go ==
  /\ at'[1] >= 0
  /\ at'[2] \in 0 .. Width(LineOf(text, at'[1]))
  /\ UNCHANGED text

Init == at = <<0, 0>> /\ text \in Seq(Seq(STRING))

Next == (\E ch \in Chars : Type(ch)) \/ Break \/ Erase \/ Go

Spec == Init /\ [][Next]_vars
=============================================================================
