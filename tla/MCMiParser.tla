----------------------------- MODULE MCMiParser -----------------------------
(***************************************************************************)
(* Instances of the parser, and the verdicts the grammar gives its lines.  *)
(***************************************************************************)
EXTENDS MiParserProtocol, MiLanguage

MCWords == {"gdb", "word"}

\* Wide enough for every column of the instances.
MCPositions == (1..24) \X (1..24)

\* A prompt is (gdb), a cstring at least "".
MCWidth ==
    [x \in Input |-> CASE x = "gdb" -> 3 [] x = "CSTRING" -> 2 [] OTHER -> 1]

\* What a stream record is made of, white space, both newlines, and the byte
\* that ends a C string.
StreamInput == {"TILDA", "CSTRING", "blank", "CR", "LF", "NUL"}
\* Streams without NUL, and without blanks.
CrLfInput == {"TILDA", "CSTRING", "CR", "LF"}
NulInput == {"TILDA", "CSTRING", "LF", "NUL"}

\* The tokens of a line.
TokensOf(s) ==
    LET lexemes == SelectSeq(s, LAMBDA x : x \notin Newlines \cup {"blank"})
    IN [i \in 1..Len(lexemes) |-> TokenOf(lexemes[i])]

MCVerdict(s) ==
    LET w == TokensOf(s)
    IN CASE Derives("oob_record", w) -> "OOB"
         [] Derives("result_record", w) -> "RESULT"
         [] SelectSeq(s, LAMBDA x : x \notin Newlines \cup {"blank"}) =
              <<"OPEN_PAREN", "gdb", "CLOSED_PAREN">> -> "PROMPT"
         [] OTHER -> "PARSE_ERROR"
=============================================================================
