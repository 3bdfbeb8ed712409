--------------------------- MODULE MCGdbwireString ---------------------------
(***************************************************************************)
(* Strings that grow from one byte over two and four to six, as the ones   *)
(* of the code do from 128 over 4096 to 8192: both ways to grow, and texts *)
(* that need no memory, some, and more than one step of it.                *)
(***************************************************************************)
EXTENDS GdbwireString

CONSTANTS a, b

MCTexts == {<< >>, <<a>>, <<b, NUL>>, <<a, b, a>>}
MCCounts == {0, 1, 7}
MCCharSets == {{}, {b}}
=============================================================================
