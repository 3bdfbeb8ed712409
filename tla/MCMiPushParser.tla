--------------------------- MODULE MCMiPushParser ---------------------------
(***************************************************************************)
(* The push parser alone, fed with any token after any other, on a stack   *)
(* of at most MCMaxDepth states: deep enough for a list in a tuple in a    *)
(* result of a record with a token, and small enough to be exhausted.      *)
(***************************************************************************)
EXTENDS MiPushParser

MCWords == {"gdb", "word"}
MCPositions == {0}
MCMaxDepth == 12
=============================================================================
