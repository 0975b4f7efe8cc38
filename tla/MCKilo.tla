------------------------------- MODULE MCKilo -------------------------------
(***************************************************************************)
(* A window of two lines and three columns, tabs of four.  There is no     *)
(* file at the start, or one with a line longer than linebuf and the       *)
(* screen, whose // is no comment as long as it stands behind "1.", or a   *)
(* comment left open before a tab, or a // comment past the bytes of a     *)
(* line that tabs widen.                                                   *)
(***************************************************************************)
EXTENDS Kilo

MCFiles ==
  { NoFile,
    <<"1", ".", "/", "/", "a", "a", "\r", "\n">>,
    <<"/", "*", "\t", "\n">>,
    <<"\t", "\t", "/", "/">> }

MCPrintable == {"a"}

MCInputs ==
  { <<k>> : k \in MCPrintable \union {"enter", "backspace", "ctrl_q", "ctrl_s", "ctrl_f", "ctrl_l"} }
  \union { <<"esc", "[", d>> : d \in {"A", "B", "C"} }
  \union { <<"esc", "[", "5", "~">>, <<"esc", "[", "6", "~">>, <<"esc", "a", "a", "[", "D">> }
=============================================================================
