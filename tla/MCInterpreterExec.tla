-------------------------- MODULE MCInterpreterExec --------------------------
(***************************************************************************)
(* Texts of every mix of a few lines, with what MiCommand makes of their   *)
(* records.                                                                *)
(***************************************************************************)
EXTENDS InterpreterExecProtocol, MiLanguage

CONSTANT MaxAlloc  \* bound: the allocation of a command that may fail

LOCAL Command == INSTANCE MiCommand WITH
    MaxNesting <- 0, Dotted <- {}, Numerals <- {"7"},
    ValueOf <- LAMBDA t : IF t = "7" THEN 7 ELSE 0

MCWords == {"gdb", "word"}
MCPositions == (1..24) \X (1..24)
MCInput ==
    {"CARROT", "TILDA", "CSTRING", "word", "gdb", "OPEN_PAREN", "CLOSED_PAREN",
     "COMMA", "EQUAL_SIGN", "OPEN_BRACE", "CR", "LF"}
MCWidth == [x \in MCInput |-> IF x = "gdb" THEN 3 ELSE 1]

Frame == <<"CARROT", "word">>
Deep == <<"CARROT", "word", "COMMA", "word", "EQUAL_SIGN", "OPEN_BRACE",
          "OPEN_BRACE">>

\* Two records, a stream record, a prompt, an error, and a line too deep for
\* the parser's stack.
Bodies ==
    {Frame, <<"CARROT", "gdb">>, <<"TILDA", "CSTRING">>,
     <<"OPEN_PAREN", "gdb", "CLOSED_PAREN">>, <<"word">>, Deep}

\* The last line may lack its newline.
MCTexts ==
    {FlattenSeq([i \in 1..Len(bodies) |-> bodies[i] \o newline]) \o cut :
        bodies \in UNION {[1..n -> Bodies] : n \in 0..MaxLines},
        newline \in {<<"LF">>, <<"CR", "LF">>},
        cut \in {<< >>, Frame, <<"word">>}}

\* What each line is, by the grammar.
VerdictOf ==
    [s \in Bodies |->
        LET w == [i \in 1..Len(s) |-> TokenOf(s[i])]
        IN CASE Derives("oob_record", w) -> "OOB"
             [] Derives("result_record", w) -> "RESULT"
             [] s = <<"OPEN_PAREN", "gdb", "CLOSED_PAREN">> -> "PROMPT"
             [] OTHER -> "PARSE_ERROR"]

MCVerdict(l) == VerdictOf[SelectSeq(l, LAMBDA x : x \notin Newlines)]

MCKinds == {"STACK_INFO_FRAME", "FILE_LIST_EXEC_SOURCE_FILE"}
MCRecordOf(l) == IF l[2] = "word" THEN "frame" ELSE "error"

Tree(record) ==
    IF record = "error" THEN Command!ResultRecord("ERROR", << >>)
    ELSE Command!ResultRecord("DONE", <<Command!Tuple("frame",
            <<Command!Cstring("level", "7"), Command!Cstring("addr", "7")>>)>>)

MCMakes(k, record) ==
    {[result |-> m.result, made |-> m.out # Command!NoObject] :
        m \in {Command!GetMiCommand(k, Tree(record), Command!Heap(fault)) :
                fault \in 0..MaxAlloc}}
=============================================================================
