------------------------------ MODULE MiParser ------------------------------
(***************************************************************************)
(* The GDB/MI parser of gdbwire_mi_parser.c: what the client pushes is     *)
(* buffered, cut into lines, lexed, and fed token by token to the push     *)
(* parser; every line's output goes to the client's callback, which may    *)
(* push again before it returns.                                           *)
(*                                                                         *)
(* Input is a sequence of lexemes, blanks, the bytes CR, LF and NUL.  A    *)
(* lexeme stands for the bytes the lexer matches as one token, of which    *)
(* there are Width[x].                                                     *)
(***************************************************************************)
EXTENDS MiPushParser, Functions

CONSTANTS
    Input,      \* the elements the client pushes
    Width,      \* yyleng, the number of bytes of an element
    MaxPushed,  \* bound: the elements pushed in a parser's life
    MaxChunk,   \* bound: the elements pushed by one call
    MaxCalls,   \* bound: the push calls on the C stack at a time
    MaxFaults   \* bound: the allocations that fail in a parser's life

Newlines == {"CR", "LF"}

\* What a push tells its caller: GDBWIRE_OK for data with a newline or, "KEPT",
\* for data without one, which was only put by; or GDBWIRE_ASSERT.
Replies == {"OK", "KEPT", "ASSERT"}

ASSUME InputAssumption ==
    Input \subseteq (Lexemes \ {"NEWLINE"}) \cup Newlines \cup {"blank", "NUL"}

ASSUME NamesAssumption == Lexemes \cap {"CR", "LF", "blank", "NUL"} = {}

ASSUME WidthAssumption == Width \in [Input -> Nat \ {0}]

ASSUME BoundsAssumption ==
    /\ MaxPushed \in Nat /\ MaxChunk \in Nat
    /\ MaxCalls \in Nat \ {0} /\ MaxFaults \in Nat

VARIABLES
    buffer,     \* parser->buffer
    pc,         \* where the innermost call of push_data is
    calls,      \* push_data's on the C stack; all but the innermost one wait
                \* for the output callback to return
    line,       \* the C string parse_line was given
    unread,     \* what the lexer has not scanned of it
    column,     \* yycolumn
    pushed,     \* history: everything the client has pushed
    consumed,   \* history: everything get_next_line has taken out of buffer
    delivered,  \* history: the outputs given to the callback, with their line
    reply,      \* history: what the push that returned last told its caller
    failed,     \* history: a push has returned GDBWIRE_ASSERT since one last
                \* took every line and returned GDBWIRE_OK
    faults,     \* history: how many allocations have failed
    dropped     \* history: heap values the parser lost track of

parserVars == <<buffer, pc, calls, line, unread, column, pushed, consumed,
                delivered, reply, failed, faults, dropped>>

vars == <<pushVars, parserVars>>

-----------------------------------------------------------------------------
(* Lines.                                                                  *)

HasNewline(s) == \E i \in 1..Len(s) : s[i] \in Newlines

\* gdbwire_string_find_first_of(s, "\r\n").
FirstNewline(s) ==
    CHOOSE i \in 1..Len(s) :
        s[i] \in Newlines /\ \A j \in 1..(i - 1) : s[j] \notin Newlines

\* The length of the first line of b, its newline included: \r\n is one
\* newline when both are there.
LineLength(b) ==
    LET i == FirstNewline(b)
    IN IF b[i] = "CR" /\ i < Len(b) /\ b[i + 1] = "LF" THEN i + 1 ELSE i

\* What a function that takes a C string sees of s.
CString(s) ==
    IF \E i \in 1..Len(s) : s[i] = "NUL"
    THEN SubSeq(s, 1, (CHOOSE i \in 1..Len(s) :
            s[i] = "NUL" /\ \A j \in 1..(i - 1) : s[j] # "NUL") - 1)
    ELSE s

-----------------------------------------------------------------------------
Init ==
    /\ PushInit
    /\ buffer = << >> /\ pushed = << >> /\ consumed = << >>
    /\ pc = "idle" /\ calls = 0
    /\ line = << >> /\ unread = << >> /\ column = 1
    /\ delivered = << >> /\ reply = "none" /\ failed = FALSE
    /\ faults = 0 /\ dropped = {}

Chunks == UNION {[1..n -> Input] : n \in 0..MaxChunk}

\* gdbwire_mi_parser_push_data, up to its loop.  Without a newline in data it
\* returns at once, to the client or to the callback that called it.
PushData(chunk) ==
    /\ pc = "idle" \/ (pc = "callback" /\ calls < MaxCalls)
    /\ Len(pushed) + Len(chunk) <= MaxPushed
    /\ pushed' = pushed \o chunk
    /\ buffer' = buffer \o chunk
    /\ IF HasNewline(chunk)
       THEN pc' = "next_line" /\ calls' = calls + 1 /\ UNCHANGED reply
       ELSE reply' = "KEPT" /\ UNCHANGED <<pc, calls>>
    /\ UNCHANGED <<pushVars, line, unread, column, consumed, delivered,
                   failed, faults, dropped>>

\* gdbwire_mi_parser_push: the size is strlen's.
Push(chunk) == PushData(CString(chunk))

\* push_data has no memory to store data: realloc's NULL takes the place of the
\* buffer's bytes, whose size stays, and push_data returns GDBWIRE_ASSERT.
PushNotStored ==
    /\ pc = "idle" \/ (pc = "callback" /\ calls < MaxCalls)
    /\ faults < MaxFaults
    /\ faults' = faults + 1
    /\ failed' = TRUE
    /\ reply' = "ASSERT"
    /\ buffer' = << >>
    /\ dropped' = dropped \cup {"buffer"}
    /\ pc' = "broken"
    /\ UNCHANGED <<pushVars, calls, line, unread, column, pushed, consumed,
                   delivered>>

\* The next data is written to a buffer that has no bytes, or the push that
\* called back looks there for its next line: a NULL pointer is dereferenced.
Crash ==
    /\ pc = "broken"
    /\ pc' = "crashed"
    /\ UNCHANGED <<pushVars, buffer, calls, line, unread, column, pushed,
                   consumed, delivered, reply, failed, faults, dropped>>

\* push_data returns to its caller.
Return ==
    /\ calls' = calls - 1
    /\ pc' = IF calls = 1 THEN "idle" ELSE "callback"

\* Mutant: one byte too many is erased after a line.
GetsLineErasesMore ==
    /\ pc = "next_line"
    /\ HasNewline(buffer)
    /\ LET n == LineLength(buffer)
       IN /\ consumed' = consumed \o SubSeq(buffer, 1, n)
          /\ buffer' = SubSeq(buffer, n + 2, Len(buffer))
          /\ line' = CString(SubSeq(buffer, 1, n))
    /\ unread' = line'
    /\ column' = 1
    /\ BeginLine
    /\ pc' = "lex"
    /\ UNCHANGED <<calls, pushed, delivered, reply, failed, faults, dropped>>

\* get_next_line finds a line and parse_line begins with it.
GetNextLine ==
    /\ pc = "next_line"
    /\ HasNewline(buffer)
    /\ LET n == LineLength(buffer)
       IN /\ consumed' = consumed \o SubSeq(buffer, 1, n)
          /\ buffer' = SubSeq(buffer, n + 1, Len(buffer))
          /\ line' = CString(SubSeq(buffer, 1, n))
    /\ unread' = line'
    /\ column' = 1
    /\ BeginLine
    /\ pc' = "lex"
    /\ UNCHANGED <<calls, pushed, delivered, reply, failed, faults, dropped>>

\* Mutant: one line for each push.
StopsAfterALine ==
    /\ pc = "next_line"
    /\ Return
    /\ failed' = FALSE
    /\ reply' = "OK"
    /\ UNCHANGED <<pushVars, buffer, line, unread, column, pushed, consumed,
                   delivered, faults, dropped>>

NoMoreLines ==
    /\ pc = "next_line"
    /\ ~HasNewline(buffer)
    /\ Return
    /\ failed' = FALSE
    /\ reply' = "OK"
    /\ UNCHANGED <<pushVars, buffer, line, unread, column, pushed, consumed,
                   delivered, faults, dropped>>

\* Mutant: the line that could not be copied is erased all the same.
LosesLine ==
    /\ pc = "next_line"
    /\ HasNewline(buffer)
    /\ faults < MaxFaults
    /\ faults' = faults + 1
    /\ failed' = TRUE
    /\ reply' = "ASSERT"
    /\ consumed' = consumed \o SubSeq(buffer, 1, LineLength(buffer))
    /\ buffer' = SubSeq(buffer, LineLength(buffer) + 1, Len(buffer))
    /\ Return
    /\ UNCHANGED <<pushVars, line, unread, column, pushed, delivered, dropped>>

\* get_next_line finds a line and has no memory for its copy: push_data returns
\* GDBWIRE_ASSERT, and the line stays for the next push that has a newline.
LineNotCopied ==
    /\ pc = "next_line"
    /\ HasNewline(buffer)
    /\ faults < MaxFaults
    /\ faults' = faults + 1
    /\ failed' = TRUE
    /\ reply' = "ASSERT"
    /\ Return
    /\ UNCHANGED <<pushVars, buffer, line, unread, column, pushed, consumed,
                   delivered, dropped>>

\* What the lexer matches: the elements of a newline token, or one element.
Match ==
    IF Len(unread) > 1 /\ unread[1] = "CR" /\ unread[2] = "LF"
    THEN [size |-> 2, text |-> "NEWLINE",
          bytes |-> Width["CR"] + Width["LF"]]
    ELSE [size |-> 1,
          text |-> IF unread[1] \in Newlines THEN "NEWLINE" ELSE unread[1],
          bytes |-> Width[unread[1]]]

\* gdbwire_mi_lex returns a token; YY_USER_ACTION notes where it is.
LexToken ==
    /\ pc = "lex"
    /\ unread # << >> /\ unread[1] # "blank"
    /\ unread' = SubSeq(unread, Match.size + 1, Len(unread))
    /\ column' = column + Match.bytes
    /\ GiveToken(Match.text, <<column, column + Match.bytes - 1>>)
    /\ pc' = "push"
    /\ UNCHANGED <<buffer, calls, line, pushed, consumed, delivered, reply,
                   failed, faults, dropped>>

\* Mutant: white space does not count in the columns.
SkipsBlankUncounted ==
    /\ pc = "lex"
    /\ unread # << >> /\ unread[1] = "blank"
    /\ unread' = Tail(unread)
    /\ UNCHANGED <<pushVars, buffer, pc, calls, line, column, pushed, consumed,
                   delivered, reply, failed, faults, dropped>>

\* Mutant: a carriage return is white space.
SkipsReturn ==
    /\ pc = "lex"
    /\ unread # << >> /\ unread[1] \in {"blank", "CR"}
    /\ unread' = Tail(unread)
    /\ column' = column + Width[unread[1]]
    /\ UNCHANGED <<pushVars, buffer, pc, calls, line, pushed, consumed,
                   delivered, reply, failed, faults, dropped>>

\* The lexer skips white space, which counts in the columns.
SkipBlank ==
    /\ pc = "lex"
    /\ unread # << >> /\ unread[1] = "blank"
    /\ unread' = Tail(unread)
    /\ column' = column + Width["blank"]
    /\ UNCHANGED <<pushVars, buffer, pc, calls, line, pushed, consumed,
                   delivered, reply, failed, faults, dropped>>

\* gdbwire_mi_push_parse runs on the token.
ParseToken ==
    /\ pc = "push"
    /\ PushStep
    /\ pc' = CASE status' = "MORE" -> "lex"
               [] status' = "NOMEM" -> "check"
               [] OTHER -> "push"
    /\ UNCHANGED <<buffer, calls, line, unread, column, pushed, consumed,
                   delivered, reply, failed, faults, dropped>>

\* gdbwire_mi_lex returns 0.
EndOfLine ==
    /\ pc = "lex"
    /\ unread = << >>
    /\ pc' = "check"
    /\ UNCHANGED <<pushVars, buffer, calls, line, unread, column, pushed,
                   consumed, delivered, reply, failed, faults, dropped>>

\* parse_line's two assertions after the loop.  mi_status has no value when
\* the line had no token; no output was produced then.
LineParsed == status = "MORE" /\ output # NoOutput

Deliver ==
    /\ pc = "check"
    /\ LineParsed
    /\ delivered' = Append(delivered, [output |-> output, line |-> line])
    /\ pc' = "callback"
    /\ UNCHANGED <<pushVars, buffer, calls, line, unread, column, pushed,
                   consumed, reply, failed, faults, dropped>>

\* An assertion fails: push_data returns GDBWIRE_ASSERT and leaves the lines
\* that follow in the buffer.
FailLine ==
    /\ pc = "check"
    /\ ~LineParsed
    /\ failed' = TRUE
    /\ reply' = "ASSERT"
    /\ dropped' = dropped \cup (IF output = NoOutput THEN {} ELSE {"output"})
    /\ Return
    /\ UNCHANGED <<pushVars, buffer, line, unread, column, pushed, consumed,
                   delivered, faults>>

\* Mutant: a push ends with its first output.
CallbackEndsPush ==
    /\ pc = "callback"
    /\ Return
    /\ failed' = FALSE
    /\ reply' = "OK"
    /\ UNCHANGED <<pushVars, buffer, line, unread, column, pushed, consumed,
                   delivered, faults, dropped>>

\* The client's callback returns, and push_data looks for the next line.
CallbackReturns ==
    /\ pc = "callback"
    /\ pc' = "next_line"
    /\ UNCHANGED <<pushVars, buffer, calls, line, unread, column, pushed,
                   consumed, delivered, reply, failed, faults, dropped>>

\* gdbwire_mi_parser_destroy, which may not be called from the callback.
\* gdbwire_mi_pstate_delete frees the stack but not the values on it.
Destroy ==
    /\ pc = "idle" \/ (pc = "broken" /\ calls = 0)
    /\ pc' = "destroyed"
    /\ dropped' = dropped \cup ({stack[i] : i \in 1..Len(stack)} \cap Owning)
    /\ UNCHANGED <<pushVars, buffer, calls, line, unread, column, pushed,
                   consumed, delivered, reply, failed, faults>>

Stopped == pc \in {"destroyed", "crashed"} /\ UNCHANGED vars

Client ==
    \/ \E chunk \in Chunks : PushData(chunk) \/ Push(chunk)
    \/ PushNotStored

Library ==
    \/ GetNextLine \/ NoMoreLines \/ LineNotCopied
    \/ LexToken \/ SkipBlank \/ ParseToken \/ EndOfLine
    \/ Deliver \/ FailLine

Next == Client \/ Library \/ CallbackReturns \/ Crash \/ Destroy \/ Stopped

Spec == Init /\ [][Next]_vars

\* The library runs until it returns, and so does the client's callback, which
\* pushes at most MaxPushed elements on its way.
FairSpec ==
    /\ Spec
    /\ WF_vars(Library)
    /\ WF_vars(CallbackReturns) /\ WF_vars(calls > 0 /\ Crash)

-----------------------------------------------------------------------------
(* What the parser promises.                                               *)

\* Where push_data is not at work on a line.
BetweenLines == pc \in {"idle", "next_line", "callback"}

TypeOK ==
    /\ PushTypeOK
    /\ {buffer, line, unread, pushed, consumed} \subseteq Seq(Input)
    /\ pc \in {"idle", "next_line", "lex", "push", "check", "callback",
               "broken", "crashed", "destroyed"}
    /\ calls \in 0..MaxCalls
    /\ column \in Nat \ {0}
    /\ delivered \in Seq([output : Outputs \ {NoOutput}, line : Seq(Input)])
    /\ reply \in Replies \cup {"none"} /\ failed \in BOOLEAN
    /\ faults \in 0..MaxFaults
    /\ dropped \subseteq Symbols \cup {"output", "buffer"}

\* Nothing the client pushed is lost, duplicated or reordered on its way to
\* the lexer, whatever the chunks and whoever pushed them, while the parser has
\* a buffer.
Conservation ==
    pc \notin {"broken", "crashed", "destroyed"} => consumed \o buffer = pushed

\* A complete line is in the buffer between two pushes only if a push has said
\* that it failed, and only until one with a newline in its data returns
\* GDBWIRE_OK: looking for newlines in the new data alone misses none, and a
\* push that looks for lines makes up for those that failed.  Data without a
\* newline is put by with GDBWIRE_OK (KEPT) whatever waits there.
NothingLeftBehind ==
    pc = "idle" /\ HasNewline(buffer) => failed /\ reply # "OK"

\* How many bytes the first n elements of s are, for each n.
Bytes(s) ==
    LET f[n \in 0..Len(s)] == IF n = 0 THEN 0 ELSE f[n - 1] + Width[s[n]]
    IN f

\* The columns of the elements first to last of s.
Span(s, first, last) == <<Bytes(s)[first - 1] + 1, Bytes(s)[last]>>

\* The position p is that of token x of the line s: of the element the token
\* is, or of the newline that ends the line.
PointsAt(s, x, p) ==
    \E i \in 1..Len(s), j \in 1..Len(s) :
        /\ p = Span(s, i, j)
        /\ \/ i = j /\ s[i] = x
           \/ /\ x = "NEWLINE" /\ j = Len(s)
              /\ \A k \in i..j : s[k] \in Newlines

\* The position of an error is where its token stands in the line that comes
\* with it.
ErrorsPointAtTheirToken ==
    \A k \in 1..Len(delivered) :
        LET o == delivered[k].output
        IN o.kind = "PARSE_ERROR" =>
              PointsAt(delivered[k].line, o.token, o.pos)

\* Without a NUL in the stream the parser loses track of nothing but the parse
\* error of a line too deep for the push parser's stack, and of the buffer it
\* could not enlarge; and while there is memory, such a line is the only one
\* that makes a push fail.
FailsOnlyOnNul ==
    "NUL" \notin Range(consumed) =>
        /\ dropped \subseteq {"output", "buffer"}
        /\ faults = 0 =>
              "buffer" \notin dropped /\ (failed => "output" \in dropped)

\* Only a line that a NUL cut leaves something in the push parser for the next
\* line to stumble on.
OnlyCutLinesLinger ==
    BetweenLines /\ ~Resynced => ~HasNewline(line)

\* Every push returns, and so does every push from within a callback, but for
\* the one whose callback pushed what could not be stored.
PushReturns == calls > 0 ~> calls = 0 \/ pc = "crashed"
=============================================================================
