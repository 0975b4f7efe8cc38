------------------------------ MODULE MCLibrary ------------------------------
(***************************************************************************)
(* Three owners in eight cells, with requests of up to four: a free block  *)
(* is met too small, just right and split, and one in use has neighbours   *)
(* on both sides.  Words of eight bits have every carry, sign and zero     *)
(* case of thirty-two, and clz_u32's halving keeps three of its steps.     *)
(* Strings of up to three of two letters overlap themselves; every pair of *)
(* areas in four cells overlaps, touches or lies apart; and a buffer of    *)
(* six holds, just holds and cuts what two items print.                    *)
(***************************************************************************)
EXTENDS Library

MCLetters == {97, 98}
=============================================================================
