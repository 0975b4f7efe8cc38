------------------------------- MODULE MCBasic -------------------------------
(***************************************************************************)
(* Bytes of 16 values, so that a line number has 8 bits, 17 has the low    *)
(* byte of 1 and 273 is cut to 17, and a line of 13 cells has no length    *)
(* that fits a byte; values of 16 bits, arrays of two by two, room for 34  *)
(* cells of program, 4 words of stack and 2 variables of an INPUT.         *)
(***************************************************************************)
EXTENDS Basic

MCPrograms ==
  { <<>>,
    << <<"1", "FOR", "A", "=", "1", "TO", "2">>, <<"2", "NEXT", "A">> >>,
    << <<"1", "FOR", "A", "=", "1", "TO", "2">>, <<"2", "GOTO", "1">> >>,
    << <<"1", "GOSUB", "3">>, <<"2", "RETURN">>, <<"3", "FOR", "A", "=", "1", "TO", "2">>,
       <<"4", "RETURN">> >>,
    << <<"1", "GOSUB", "3">>, <<"2", "NEXT", "A">>, <<"3", "FOR", "A", "=", "1", "TO", "2">>,
       <<"4", "RETURN">> >>,
    << <<"1", "GOSUB", "1">> >>,
    << <<"1", "INPUT", "A", ",", "X", "(", "1", ")">>, <<"2", "RETURN">> >>,
    << <<"1", "REM", "A">>, <<"2", "IF", "A", "GOTO", "1">>, <<"1", "7", "END">>,
       <<"1", "0", "0", "STOP">> >> }

MCTyped ==
  { <<"RUN">>, <<"2">>, <<"1", "A", "=", "1", "/", "0">>, <<"2", "7", "3", "REM">>, <<"3", "1">>,
    <<"LIST", "1", "-">>, <<"SAVE", "1", " ", "2", "\"f\"">>, <<"SAVE", "\"f\"">>, <<"LOAD", "\"f\"">>,
    <<"MERGE", "\"f\"">>, <<"NEW">>, <<"LOCK", "2">>, <<"UNLOCK", ":", "A", "=", "3">>, <<"BYE">>,
    <<"NEXT", "A">>, <<"FOR", "A", "=", "3", "TO", "1", "STEP", "(", "-", "1", ")">>,
    <<"X", "(", "1", ")", "=", "1", ",", ",", "2">>, <<"RETURN">>, <<"PORTB", "=", "2">>,
    <<"POKE", "1">>, <<"1", ",", "2">>, <<"INPUT", "A", ",", "A", ",", "A">>,
    <<"2", "PRINT", "1", "+", "1", "+", "1", "+", "1", "+", "1", "+", "1", ";">> }
  \union { <<w>> : w \in {"MEM", "BEEP", "NOT", "EXIT"} }
  \union { <<w, "\"f\"">> : w \in {"PRINT", "DELETE"} }
  \union { <<"OUTCHAR", "7">>, <<"ADDTIMER", "A">>, <<"DELTIMER">>,
           <<"PRINT", "1", "/", "0">>, <<"Z", "(", "2", ",", "5", ")", "=", "1">> }

MCFiles == { NoFile, <<"2", "A", "=", "1", NL, "2", "0", " ", "END", NL>> }

MCStrays == {5}
=============================================================================
