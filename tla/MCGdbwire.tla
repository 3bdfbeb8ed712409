------------------------------ MODULE MCGdbwire ------------------------------
(***************************************************************************)
(* A front end that asks for two kinds of commands, and what the functions *)
(* of MiCommand make of its records, in and out of memory.                 *)
(***************************************************************************)
EXTENDS Gdbwire

CONSTANTS
    MaxLines,  \* bound: the lines of a text
    MaxFault   \* bound: the allocation that fails is one of the first

LOCAL Command == INSTANCE MiCommand WITH
    MaxNesting <- 0, Dotted <- {}, Numerals <- {"7"},
    ValueOf <- LAMBDA text : IF text = "7" THEN 7 ELSE 0

MCKinds == {"STACK_INFO_FRAME", "FILE_LIST_EXEC_SOURCE_FILE"}

\* One record for each kind, and one that is for neither.
MCRecords == {"frame", "file", "error"}

Tree(record) ==
    CASE record = "frame" ->
            Command!ResultRecord("DONE", <<Command!Tuple("frame",
                <<Command!Cstring("level", "7"),
                  Command!Cstring("addr", "7")>>)>>)
      [] record = "file" ->
            Command!ResultRecord("DONE",
                <<Command!Cstring("line", "7"),
                  Command!Cstring("file", "main")>>)
      [] record = "error" -> Command!ResultRecord("ERROR", << >>)

MCMakes(k, record) ==
    {[result |-> m.result, made |-> m.out # Command!NoObject] :
        m \in {Command!GetMiCommand(k, Tree(record), Command!Heap(fault)) :
                fault \in 0..MaxFault}}

MCTexts ==
    UNION {[1..n -> MCRecords \cup {"stream_record", "prompt"}] :
            n \in 0..MaxLines}
=============================================================================
