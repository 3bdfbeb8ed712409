---------------------------- MODULE MiPushParser ----------------------------
(***************************************************************************)
(* The push parser gdbwire_mi_push_parse: bison's LALR(1) machine driven   *)
(* by the grammar's tables, its error recovery, and the semantic actions   *)
(* of gdbwire_mi_grammar.y that have an effect outside the parse tree.     *)
(*                                                                         *)
(* The skeleton that executes the tables is generated by bison and is not  *)
(* in the repository; the caller, which owns lexed and output and starts   *)
(* the lines, is gdbwire_mi_parser_parse_line.                             *)
(***************************************************************************)
EXTENDS MiGrammar

CONSTANTS
    Words,        \* the texts a STRING_LITERAL can have
    Positions,    \* the positions the lexer can report
    MaxDepth      \* YYMAXDEPTH, the number of states the stack can hold

ASSUME WordsAssumption == "gdb" \in Words /\ Words \cap Tokens = {}
ASSUME PositionsAssumption == Positions # {}
ASSUME MaxDepthAssumption == MaxDepth \in Nat /\ MaxDepth >= 6

\* What the lexer returns: every token but STRING_LITERAL is named by itself.
Lexemes == Words \cup (Tokens \ {"STRING_LITERAL"})

TokenOf(x) == IF x \in Words THEN "STRING_LITERAL" ELSE x

VARIABLES
    stack,      \* yyss: the symbols of the states on the parser's stack
    errstatus,  \* yyerrstatus: 3 after an error, down to 0 with every shift
    lookahead,  \* yychar: the token pushed and not yet shifted, if any
    lexed,      \* yytext and yyextra: the last token's text and position
    variant,    \* the kind of the output_variant on the stack
    output,     \* *gdbwire_mi_output, what the current line has produced
    status,     \* what the last push_parse returned, or RUNNING inside it
    leaked,     \* the symbols whose heap value nothing points to any more
    abandoned   \* the current line began before the last one was resolved

pushVars == <<stack, errstatus, lookahead, lexed, variant, output, status,
              leaked, abandoned>>

NoToken == "no token"
NoOutput == [kind |-> "none"]
ParseError(l) ==
    [kind |-> "PARSE_ERROR", token |-> l.text, pos |-> l.pos]

Kinds == {"OOB", "RESULT", "PROMPT"}
Lexed == [text : Lexemes, pos : Positions]
Outputs == {NoOutput} \cup [kind : Kinds] \cup
           [kind : {"PARSE_ERROR"}, token : Lexemes, pos : Positions]

\* UNINIT: no token of the line was parsed, mi_status is not assigned yet.
Statuses == {"UNINIT", "RUNNING", "MORE", "NOMEM"}

\* gdbwire_mi_pstate_new.
PushInit ==
    /\ stack = <<"bottom">>
    /\ errstatus = 0
    /\ lookahead = NoToken
    /\ lexed = [text |-> "NEWLINE", pos |-> CHOOSE p \in Positions : TRUE]
    /\ variant = "none"
    /\ output = NoOutput
    /\ status = "UNINIT"
    /\ leaked = {}
    /\ abandoned = FALSE

-----------------------------------------------------------------------------
(* The caller.                                                             *)

Resynced == stack \in {<<"bottom">>, <<"bottom", "output_list">>}

\* parse_line starts on its next line: output is a local of that function.
BeginLine ==
    /\ status # "RUNNING"
    /\ output' = NoOutput
    /\ status' = "UNINIT"
    /\ abandoned' = ~Resynced
    /\ UNCHANGED <<stack, errstatus, lookahead, lexed, variant, leaked>>

\* parse_line hands over the token the lexer has matched.
GiveToken(x, p) ==
    /\ status = "UNINIT" \/ (status = "MORE" /\ lexed.text # "NEWLINE")
    /\ lexed' = [text |-> x, pos |-> p]
    /\ lookahead' = TokenOf(x)
    /\ status' = "RUNNING"
    /\ UNCHANGED <<stack, errstatus, variant, output, leaked, abandoned>>

-----------------------------------------------------------------------------
(* gdbwire_mi_push_parse.                                                  *)

\* The states between two pushes on the stack: bison looks for room first.
Parsing == status = "RUNNING" /\ Len(stack) < MaxDepth

\* The line's output becomes o and the symbols "lost" die with no destructor.
\* An output that was there already is lost too: o overwrites its pointer.
Emits(o, lost) ==
    /\ output' = o
    /\ leaked' = leaked \cup lost
                       \cup (IF output = NoOutput THEN {} ELSE {"output"})

\* Error recovery pops down to the topmost state that can shift the error
\* token.
RecoveryPoints(s) ==
    {n \in 1..Len(s) : "error" \in Expects(SubSeq(s, 1, n))}

RecoveryPoint(s) ==
    CHOOSE n \in RecoveryPoints(s) : \A m \in RecoveryPoints(s) : m <= n

\* The symbols of s above its first n that take their value with them.
Unfreed(s, n) == {s[i] : i \in (n + 1)..Len(s)} \cap (Owning \ Destructors)

Popped == Unfreed(stack, RecoveryPoint(stack))

\* yyerrlab1: pop to a state that shifts the error token, and shift it.
Recovers ==
    /\ RecoveryPoints(stack) # {}
    /\ stack' = Append(SubSeq(stack, 1, RecoveryPoint(stack)), "error")
    /\ errstatus' = 3

Shift ==
    /\ Parsing
    /\ lookahead # NoToken
    /\ lookahead \in Expects(stack)
    /\ stack' = Append(stack, lookahead)
    /\ lookahead' = NoToken
    /\ errstatus' = IF errstatus > 0 THEN errstatus - 1 ELSE 0
    /\ UNCHANGED <<lexed, variant, output, status, leaked, abandoned>>

\* The rule bison reduces by: without a lookahead in a consistent state,
\* else for a lookahead the state cannot shift.  The default reduction is
\* taken for any such lookahead, except in the one state that can shift the
\* error token.
Reducible(r) ==
    /\ IsHandle(r, stack)
    /\ \/ ~NeedsLookahead(stack)
       \/ /\ lookahead # NoToken
          /\ lookahead \notin Expects(stack)
          /\ \/ "error" \notin Expects(stack)
             \/ lookahead \in
                  Expects(Append(Pop(stack, Len(r.rhs)), r.lhs))

\* The output_variant's kind, by the rule that builds it.
KindOf(r) ==
    CASE r.rhs[1] = "oob_record" -> "OOB"
      [] r.rhs[1] = "result_record" -> "RESULT"
      [] OTHER -> "PROMPT"

\* Mutant: any word in parentheses is a prompt.
ChecksNoPrompt(r) == FALSE

\* The prompt is (gdb) and no other word in parentheses.
ChecksPrompt(r) == r.lhs = "check"

\* Mutant: the error rule without its yyerrok.
StaysInError(r) == errstatus

\* The yyerrok of "output: error NEWLINE".
Yyerrok(r) == IF r = ErrorRule THEN 0 ELSE errstatus

Reduce(r) ==
    /\ Parsing
    /\ Reducible(r)
    /\ ChecksPrompt(r) => lexed.text = "gdb"
    /\ stack' = Append(Pop(stack, Len(r.rhs)), r.lhs)
    /\ variant' = CASE r.lhs = "output_variant" -> KindOf(r)
                    [] r.lhs = "output" -> "none"
                    [] OTHER -> variant
    /\ IF r.rhs = <<"output_variant", "NEWLINE">>
       THEN Emits([kind |-> variant], {})
       ELSE UNCHANGED <<output, leaked>>
    /\ errstatus' = Yyerrok(r)
    /\ UNCHANGED <<lookahead, lexed, status, abandoned>>

\* Mutant: the prompt is rejected without an error report.
RejectsInSilence(r) ==
    /\ Parsing
    /\ Reducible(r)
    /\ ChecksPrompt(r) /\ lexed.text # "gdb"
    /\ Recovers
    /\ variant' = "none"
    /\ UNCHANGED <<lookahead, lexed, output, status, leaked, abandoned>>

\* The mid-rule action of the prompt: yyerror, then YYERROR.
RejectPrompt(r) ==
    /\ Parsing
    /\ Reducible(r)
    /\ ChecksPrompt(r) /\ lexed.text # "gdb"
    /\ Emits(ParseError(lexed), Popped)
    /\ Recovers
    /\ variant' = "none"
    /\ UNCHANGED <<lookahead, lexed, status, abandoned>>

\* A token that follows an error and does not end the recovery is dropped.
LookaheadAfterError == IF errstatus = 3 THEN NoToken ELSE lookahead

\* yyerrlab: report a new error, or drop the token that did not help to
\* recover from the last one.
SyntaxError ==
    /\ Parsing
    /\ NeedsLookahead(stack)
    /\ lookahead # NoToken
    /\ lookahead \notin Expects(stack)
    /\ ~\E r \in Rules : Reducible(r)
    /\ IF errstatus = 0
       THEN Emits(ParseError(lexed), Popped)
       ELSE leaked' = leaked \cup Popped /\ UNCHANGED output
    /\ lookahead' = LookaheadAfterError
    /\ Recovers
    /\ variant' = "none"
    /\ UNCHANGED <<lexed, status, abandoned>>

\* YYPUSH_MORE: the state needs a token and there is none.
NeedToken ==
    /\ Parsing
    /\ NeedsLookahead(stack)
    /\ lookahead = NoToken
    /\ status' = "MORE"
    /\ UNCHANGED <<stack, errstatus, lookahead, lexed, variant, output,
                   leaked, abandoned>>

\* yyexhaustedlab: report, destroy what is on the stack, start anew.
Exhausted ==
    /\ status = "RUNNING"
    /\ Len(stack) >= MaxDepth
    /\ Emits(ParseError(lexed), Unfreed(stack, 1))
    /\ stack' = <<"bottom">>
    /\ errstatus' = 0
    /\ lookahead' = NoToken
    /\ variant' = "none"
    /\ status' = "NOMEM"
    /\ UNCHANGED <<lexed, abandoned>>

PushStep ==
    \/ Shift
    \/ \E r \in Rules : Reduce(r) \/ RejectPrompt(r)
    \/ SyntaxError
    \/ NeedToken
    \/ Exhausted

PushNext ==
    \/ BeginLine
    \/ \E x \in Lexemes, p \in Positions : GiveToken(x, p)
    \/ PushStep

PushSpec == PushInit /\ [][PushNext]_pushVars

\* push_parse is a sequential function: once called it runs until it returns.
FairPushSpec == PushSpec /\ WF_pushVars(PushStep)

-----------------------------------------------------------------------------
(* What the push parser promises.                                          *)

PushTypeOK ==
    /\ stack \in Seq(Symbols) /\ Len(stack) \in 1..MaxDepth
    /\ errstatus \in 0..3
    /\ lookahead \in Tokens \cup {NoToken}
    /\ lexed \in Lexed
    /\ variant \in Kinds \cup {"none"}
    /\ output \in Outputs
    /\ status \in Statuses
    /\ leaked \subseteq Symbols \cup {"output"}
    /\ abandoned \in BOOLEAN

\* However a line went wrong, once its newline is parsed nothing of it is left
\* in the parser: the next line is parsed like the first one (the grammar's
\* "output: error NEWLINE" with yyerrok).
Resync ==
    status = "MORE" /\ lexed.text = "NEWLINE" =>
        stack = <<"bottom", "output_list">> /\ errstatus = 0

\* A line that began on a parser with nothing left over has produced an output
\* by the time its newline is parsed: parse_line's GDBWIRE_ASSERT(output).
LineHasOutput ==
    status = "MORE" /\ lexed.text = "NEWLINE" /\ ~abandoned =>
        output # NoOutput

\* Error recovery and stack exhaustion never lose a heap value for want of a
\* %destructor, and an output is never overwritten by a second one: the claim
\* of the comment above the %destructor directives.
NoLeak == leaked = {}

\* Every call of push_parse returns: error recovery, which keeps a lookahead
\* the first time it meets it, does not go round in circles.
Returns == status = "RUNNING" ~> status # "RUNNING"

-----------------------------------------------------------------------------
(* The inductive invariant behind them.                                    *)

\* Every symbol of s stands on a state that shifts it or goes to it.
Shaped(s) ==
    /\ s[1] = "bottom"
    /\ \A i \in 1..(Len(s) - 1) :
          s[i + 1] \in Above(IF i = 1 THEN "bottom" ELSE s[i - 1], s[i])

InError == <<"bottom", "output_list", "error">>
ErrorLine == <<"bottom", "output_list", "error", "NEWLINE">>

\* yyerrstatus is told by the stack: recovery begins at InError and the
\* newline ends it.  It never counts down to 1.
ErrStatus(s) == CASE s = InError -> 3 [] s = ErrorLine -> 2 [] OTHER -> 0

\* The parser is through with the line's newline.
LineRead ==
    lookahead = NoToken /\ lexed.text = "NEWLINE" /\
    status \in {"RUNNING", "MORE"}

StackInv ==
    /\ Shaped(stack)
    /\ errstatus = ErrStatus(stack)
    /\ Len(stack) >= 3 /\ stack[3] = "output_variant" => variant \in Kinds
    /\ Len(stack) >= MaxDepth =>
          status = "RUNNING" /\ Top(stack) \notin Owning \ Destructors

TokenInv ==
    /\ lookahead \in {NoToken, TokenOf(lexed.text)}
    /\ status # "RUNNING" => lookahead = NoToken
    /\ status = "MORE" => NeedsLookahead(stack)
    /\ status = "RUNNING" /\ Len(stack) = 1 => lookahead # NoToken
    /\ Top(stack) \in {"NEWLINE", "output"} => LineRead
    /\ LineRead => Top(stack) \in {"NEWLINE", "output", "output_list"}

\* The outputs of a line read, and of a line whose newline is next.
OutputInv ==
    /\ status = "UNINIT" => output = NoOutput
    /\ output # NoOutput =>
          \/ stack \in {InError, ErrorLine}
          \/ status = "NOMEM"
          \/ LineRead /\ Top(stack) # "NEWLINE"
    /\ ~abandoned /\ output = NoOutput =>
          /\ stack \notin {InError, ErrorLine}
          /\ LineRead => Top(stack) = "NEWLINE"

PushInv == PushTypeOK /\ StackInv /\ TokenInv /\ OutputInv /\ NoLeak
=============================================================================
