--------------------------- MODULE MiLineProtocol ---------------------------
(***************************************************************************)
(* What the GDB/MI parser promises its client: one output for every line   *)
(* of the stream, in order, each decided by its own line alone.  How the   *)
(* stream was cut into pushes, what the client pushed from within its      *)
(* callback, and what the other lines were like makes no difference.       *)
(***************************************************************************)
EXTENDS Naturals, Sequences, FiniteSets

CONSTANT Verdict(_)  \* the kind of the output of a line

VARIABLES
    input,    \* the stream, as far as it was pushed
    outputs   \* the kinds of the outputs given to the client

vars == <<input, outputs>>

\* Where a line of s ends.  \r, \n and \r\n all end a line, and the pair is
\* one newline.
Ends(s) ==
    {i \in 1..Len(s) :
        \/ s[i] = "LF"
        \/ s[i] = "CR" /\ ~(i < Len(s) /\ s[i + 1] = "LF")}

EndOf(s, n) ==
    IF n = 0 THEN 0
    ELSE CHOOSE i \in Ends(s) : Cardinality({j \in Ends(s) : j <= i}) = n

Line(s, n) == SubSeq(s, EndOf(s, n - 1) + 1, EndOf(s, n))

Init == input = << >> /\ outputs = << >>

\* The client pushes some more of the stream.
Receive ==
    /\ Len(input') >= Len(input)
    /\ SubSeq(input', 1, Len(input)) = input
    /\ UNCHANGED outputs

\* The client is given the output of the next line.
Emit ==
    /\ Len(outputs) < Cardinality(Ends(input))
    /\ outputs' = Append(outputs, Verdict(Line(input, Len(outputs) + 1)))
    /\ UNCHANGED input

Next == Receive \/ Emit

Spec == Init /\ [][Next]_vars
=============================================================================
