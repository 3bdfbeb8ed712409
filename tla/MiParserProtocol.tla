-------------------------- MODULE MiParserProtocol --------------------------
(***************************************************************************)
(* The parser as its client sees it: the stream protocol the parser is to  *)
(* implement, and what that says of a single push and of a single line.    *)
(***************************************************************************)
EXTENDS MiParser, FiniteSets

CONSTANT Verdict(_)  \* the kind of the output that the grammar gives a line

\* The elements a line may be lost or cut over: a CR, which may be half a
\* newline, and a NUL, which ends a C string.
NotText == {"CR", "NUL"}

\* How much of s is text whose lines end in LF.
TextLength(s) ==
    CHOOSE n \in 0..Len(s) :
        /\ \A i \in 1..n : s[i] \notin NotText
        /\ n = Len(s) \/ s[n + 1] \in NotText

Text == SubSeq(pushed, 1, TextLength(pushed))

\* The lines of the first n elements of s, for an s that is text so far.
Lines(s, n) == Cardinality({i \in 1..n : s[i] = "LF"})

LinesOfText == Lines(pushed, TextLength(pushed))

\* The outputs of the text's lines that have come so far.
OutputsOfText ==
    LET n == LinesOfText
        m == IF Len(delivered) < n THEN Len(delivered) ELSE n
    IN [k \in 1..m |-> delivered[k].output.kind]

Protocol == INSTANCE MiLineProtocol WITH
    input <- Text,
    outputs <- OutputsOfText

\* As long as the stream is text, the parser implements the stream protocol.
ImplementsProtocol == Protocol!Spec

\* Between two pushes every complete line of the stream has had one output, and
\* nothing else has, unless a push has said that it failed and none with a
\* newline has returned GDBWIRE_OK since: what a push could not deliver for want
\* of memory comes late, with the first one that does.
DeliversAll ==
    pc = "idle" /\ Len(delivered) # Cardinality(Protocol!Ends(pushed)) =>
        failed /\ reply # "OK"

\* That is so at least for text in which no line was too deep for the push
\* parser's stack.
DeliversText == Text = pushed /\ "output" \notin dropped => DeliversAll

\* A line that was parsed from a clean start, and not refused for its depth,
\* has the verdict it would have in any stream, whatever came before.
CleanLinesStandAlone ==
    pc = "check" /\ status # "NOMEM" /\ ~abandoned /\ HasNewline(line) =>
        output.kind = Verdict(line)

\* "The error is bound only to the line being parsed that contains the error":
\* a line that is well-formed by itself is delivered for what it is, whatever
\* line came before.
ErrorsAreBoundToTheirLine ==
    \A k \in 1..Len(delivered) :
        LET verdict == Verdict(delivered[k].line)
        IN HasNewline(delivered[k].line) /\ verdict # "PARSE_ERROR" =>
              delivered[k].output.kind = verdict
=============================================================================
