---------------------------- MODULE MiTreeText ----------------------------
(***************************************************************************)
(* What the parse tree says: a tree printed back as the lexemes of its     *)
(* line, and what the client finds in it.                                  *)
(***************************************************************************)
EXTENDS MiParseTree

TextAt(p) == IF p = NULL THEN << >> ELSE <<heap.objects[p].text>>

\* What gdbwire_mi_pt.h says each kind is "prepended by".
OpOfKind(kind) ==
    CASE kind = "STATUS" -> "ADD_OP"
      [] kind = "EXEC" -> "MULT_OP"
      [] kind = "NOTIFY" -> "EQUAL_SIGN"
      [] kind = "CONSOLE" -> "TILDA"
      [] kind = "TARGET" -> "AT_SYMBOL"
      [] kind = "LOG" -> "AMPERSAND"

RECURSIVE Results(_)

Results(p) ==
    IF p = NULL THEN << >>
    ELSE LET o == heap.objects[p]
         IN (IF o.variable = NULL THEN << >>
             ELSE TextAt(o.variable) \o <<"EQUAL_SIGN">>)
            \o (CASE o.kind = "CSTRING" -> TextAt(o.variant)
                  [] o.kind = "TUPLE" ->
                        <<"OPEN_BRACE">> \o Results(o.variant)
                                         \o <<"CLOSED_BRACE">>
                  [] o.kind = "LIST" ->
                        <<"OPEN_BRACKET">> \o Results(o.variant)
                                           \o <<"CLOSED_BRACKET">>)
            \o (IF o.next = NULL THEN << >> ELSE <<"COMMA">> \o Results(o.next))

RecordText(o, op) ==
    TextAt(o.token) \o <<op, o.class>>
    \o (IF o.result = NULL THEN << >> ELSE <<"COMMA">> \o Results(o.result))

Printed(p) ==
    LET o == heap.objects[p]
        record == heap.objects[o.variant]
        inner == heap.objects[record.variant]
    IN CASE o.kind = "PARSE_ERROR" -> TextAt(o.variant)
         [] o.kind = "PROMPT" ->
                <<"OPEN_PAREN", "gdb", "CLOSED_PAREN", "NEWLINE">>
         [] o.kind = "RESULT" -> RecordText(record, "CARROT") \o <<"NEWLINE">>
         [] o.kind = "OOB" /\ record.kind = "ASYNC" ->
                RecordText(inner, OpOfKind(inner.kind)) \o <<"NEWLINE">>
         [] o.kind = "OOB" /\ record.kind = "STREAM" ->
                <<OpOfKind(inner.kind)>> \o TextAt(inner.cstring)
                                         \o <<"NEWLINE">>

\* The lexemes of a line, with the classes the enums have no name for as one.
Canonical(f) ==
    [i \in DOMAIN f |->
        IF i > 1 /\ f[i] \in Words
        THEN CASE f[i - 1] = "CARROT" /\ f[i] \notin ResultClasses ->
                    "UNSUPPORTED"
               [] f[i - 1] \in AsyncOps /\ f[i] \notin AsyncClasses ->
                    "UNSUPPORTED"
               [] OTHER -> f[i]
        ELSE f[i]]

\* What there is to read in the tree of a line; an error has the token that
\* broke its line.
Content(call) ==
    IF heap.objects[call.out].kind = "PARSE_ERROR" THEN <<Top(call.fed)>>
    ELSE Canonical(call.fed)

\* What is left of a line's content when the copy of one text fails: a
\* variable goes with its equal sign.
WithoutAText(s) ==
    {SubSeq(s, 1, i - 1) \o SubSeq(s, i + 1, Len(s)) :
        i \in {j \in DOMAIN s : j = 1}} \cup
    {SubSeq(s, 1, i - 1) \o SubSeq(s, i + 2, Len(s)) :
        i \in {j \in DOMAIN s : s[j] \in Words /\ j < Len(s)
                                /\ s[j + 1] = "EQUAL_SIGN"}}

\* A callback is given its line as a tree, in full and in order, and the tree
\* stays as it is while the callback runs, whatever it pushes; a line cut
\* short by a NUL gives what the next one continues.  A failed allocation that
\* does not bring the program down costs one text, of the tree or the copy of
\* the line (although gdbwire_mi_pt.h says that the line is never NULL), and
\* nothing else.
TreeIsTheLine ==
    ~heap.crashed =>
        \A i \in DOMAIN pending :
            LET call == pending[i]
                content == Content(call)
            IN \/ /\ Printed(call.out) = content
                  /\ heap.failed \/ heap.objects[call.out].line # NULL
               \/ /\ Printed(call.out) \in WithoutAText(content)
                  /\ heap.failed
                  /\ heap.objects[call.out].line # NULL
=============================================================================
