--------------------------- MODULE MCMiParseTree ---------------------------
(***************************************************************************)
(* Instances of the parse tree: every line of at most MaxLine lexemes;     *)
(* within the callback of a short line, every short line; and lines of at  *)
(* most MaxFaulty lexemes for which an allocation fails.                   *)
(***************************************************************************)
EXTENDS MiTreeText, MiLanguage

CONSTANTS
    MaxLine,    \* bound: the lexemes of a line
    MaxJudged,  \* bound: those of a line whose error is looked for in the grammar
    MaxFaulty,  \* bound: those of a line for which an allocation fails
    MaxNested,  \* bound: those of a line pushed within a callback, or around
    MaxCut      \* bound: the lexemes of a line that a NUL cuts short

MCWords == {"gdb", "done", "stopped"}
MCPositions == {0}

\* None, or any one of the allocations of a faulty line, which has no more
\* than eight.
MCFaults == 0..8

\* The client does not care for prompts.
MCCallbacks ==
    {"gdbwire_stream_record_fn", "gdbwire_async_record_fn",
     "gdbwire_result_record_fn", "gdbwire_parse_error_fn"}

FaultFree == heap.left = 0 /\ ~heap.failed

Room ==
    IF ~FaultFree THEN MaxFaulty
    ELSE IF pending = << >> THEN MaxLine ELSE MaxNested

MCParseLine ==
    /\ lost = {}
    /\ pending # << >> =>
          LET call == Top(pending)
          IN /\ FaultFree
             /\ Len(call.fed) <= IF call.fn = "gdbwire_parse_error_fn" THEN 1
                                 ELSE MaxNested
    /\ ParseLine

\* What results are made of.
ResultLexemes ==
    {"done", "EQUAL_SIGN", "CSTRING", "COMMA", "OPEN_BRACE", "CLOSED_BRACE",
     "OPEN_BRACKET", "CLOSED_BRACKET", "NEWLINE"}

\* What a callback's lines are made of: a result record, a stream record, and
\* what is an error between them.
NestedLexemes == {"CARROT", "done", "TILDA", "CSTRING", "NEWLINE"}

\* After an error comes the newline.  The words and the operators that the
\* grammar treats alike come where they matter; any token can be wrong among
\* the first of its line.
MCToken(x) ==
    /\ Len(fed) < Room
    /\ errstatus # 0 => x = "NEWLINE"
    /\ pending # << >> => x \in NestedLexemes
    /\ x \in {"AT_SYMBOL", "AMPERSAND", "ADD_OP"} => fed = << >>
    /\ Len(fed) >= 4 => x \in ResultLexemes
    /\ x = "gdb" => fed = <<"OPEN_PAREN">>
    /\ x = "stopped" =>
          fed # << >> /\ Top(fed) \in AsyncOps \cup {"CARROT"}
    /\ Token(x, 0)

MCEndOfLine ==
    /\ status = "NOMEM" \/ lexed.text = "NEWLINE" \/ Len(fed) <= MaxCut
    /\ Deliver \/ FailLine

MCNext ==
    /\ ~heap.crashed
    /\ \/ MCParseLine
       \/ \E x \in Lexemes : MCToken(x)
       \/ inLine /\ ParseStep
       \/ MCEndOfLine \/ CallbackReturns

MCSpec == Init /\ [][MCNext]_vars

-----------------------------------------------------------------------------
Tokenised(f) == [i \in DOMAIN f |-> TokenOf(f[i])]

\* No line begins like that: no string of the grammar does, or it is a prompt of
\* another word than gdb.
Wrong(f) ==
    \/ ~Begins("output", Tokenised(f))
    \/ Len(f) > 1 /\ f[1] = "OPEN_PAREN" /\ f[2] # "gdb"

\* The callback a line is meant for, by the grammar's productions; none yet if
\* it is neither complete nor wrong.
CallbackFor(f) ==
    LET body == Pop(Tokenised(f), 1)
    IN CASE Top(f) # "NEWLINE" ->
                IF Wrong(f) THEN "gdbwire_parse_error_fn" ELSE "none"
         [] Derives("async_record", body) -> "gdbwire_async_record_fn"
         [] Derives("stream_record", body) -> "gdbwire_stream_record_fn"
         [] Derives("result_record", body) -> "gdbwire_result_record_fn"
         [] f = <<"OPEN_PAREN", "gdb", "CLOSED_PAREN", "NEWLINE">> ->
                "gdbwire_prompt_fn"
         [] OTHER -> "gdbwire_parse_error_fn"

\* Each line that has an output reaches the one callback that the productions
\* name for it, if the client has set it, and no other; a line that is not read
\* to its end is an error only if no line begins like it.  So the automaton
\* accepts the language of the grammar, no more and no less.
EachToItsCallback ==
    [][inLine /\ out # NULL /\ status = "MORE" /\ ~inLine'
       /\ (Top(fed) = "NEWLINE" \/ Len(fed) <= MaxJudged) =>
         LET fn == CallbackFor(fed)
         IN IF fn \in Callbacks
            THEN Len(pending') = Len(pending) + 1 /\ Top(pending').fn = fn
            ELSE fn = "gdbwire_prompt_fn" /\ pending' = pending]_vars

\* An error is reported at the first token with which no line of the grammar
\* begins: no later, so the position is that of what is wrong, and no earlier.
ErrorsAreInTime ==
    [][inLine /\ ~inLine' /\ status = "MORE" /\ FaultFree
       /\ output.kind = "PARSE_ERROR" /\ Len(fed) <= MaxJudged =>
         Wrong(fed) /\ ~Wrong(Pop(fed, 1))]_vars
=============================================================================
