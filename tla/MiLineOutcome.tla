---------------------------- MODULE MiLineOutcome ----------------------------
(***************************************************************************)
(* What becomes of a line that begins on a clean stack, as a function of   *)
(* the line alone: lexer and push parser, without the streams, pushes and  *)
(* lines around them.  It is what the outputs of the parser are compared   *)
(* with.                                                                   *)
(***************************************************************************)
EXTENDS MiParser

\* The stack between two lines; the initial one becomes this with the first
\* token, by the rule without a right-hand side.
CleanStack == <<"bottom", "output_list">>

\* What of the parser's state decides how a line goes on.  The text is that of
\* the line's last token, the variant that of the output_variant on the stack.
Begin(l) ==
    [unread |-> l, stack |-> CleanStack, lookahead |-> NoToken,
     text |-> "NEWLINE", variant |-> "none", kind |-> NoOutput.kind,
     status |-> "UNINIT"]

\* parse_line is out of its loop.
Over(c) ==
    \/ c.status = "NOMEM"
    \/ c.status # "RUNNING" /\ c.unread = << >>

\* The token at the beginning of s, and what it takes of s.
FirstSize(s) == IF Len(s) > 1 /\ s[1] = "CR" /\ s[2] = "LF" THEN 2 ELSE 1

FirstText(s) == IF s[1] \in Newlines THEN "NEWLINE" ELSE s[1]

AfterBlank(c) == [c EXCEPT !.unread = Tail(c.unread)]

AfterToken(c) ==
    [c EXCEPT !.unread =
                  SubSeq(c.unread, FirstSize(c.unread) + 1, Len(c.unread)),
              !.text = FirstText(c.unread),
              !.lookahead = TokenOf(FirstText(c.unread)),
              !.status = "RUNNING"]

\* The stack is exhausted.
TooDeep(c) ==
    [c EXCEPT !.stack = CleanStack, !.lookahead = NoToken,
              !.variant = "none", !.kind = "PARSE_ERROR", !.status = "NOMEM"]

AfterShift(c) ==
    [c EXCEPT !.stack = Append(c.stack, c.lookahead), !.lookahead = NoToken]

\* The rule r can be applied to s before the token t.
Applies(r, s, t) ==
    /\ IsHandle(r, s)
    /\ \/ ~NeedsLookahead(s)
       \/ /\ t # NoToken
          /\ t \notin Expects(s)
          /\ \/ "error" \notin Expects(s)
             \/ t \in Expects(Append(Pop(s, Len(r.rhs)), r.lhs))

AfterReduce(c, r) ==
    [c EXCEPT !.stack = Append(Pop(c.stack, Len(r.rhs)), r.lhs),
              !.variant = CASE r.lhs = "output_variant" -> KindOf(r)
                            [] r.lhs = "output" -> "none"
                            [] OTHER -> c.variant,
              !.kind = IF r.rhs = <<"output_variant", "NEWLINE">>
                       THEN c.variant ELSE c.kind]

\* Error recovery begins, or goes on: only the first error is the output.
AfterRejected(c) ==
    [c EXCEPT !.stack = InError, !.variant = "none", !.kind = "PARSE_ERROR"]

AfterError(c) ==
    LET e == ErrStatus(c.stack)
    IN [c EXCEPT !.stack = InError, !.variant = "none",
                 !.kind = IF e = 0 THEN "PARSE_ERROR" ELSE c.kind,
                 !.lookahead = IF e = 3 THEN NoToken ELSE c.lookahead]

\* A step of the push parser.
Parsed(c) ==
    LET rules == {r \in Rules : Applies(r, c.stack, c.lookahead)}
        rule == CHOOSE r \in rules : TRUE
    IN IF Len(c.stack) >= MaxDepth THEN TooDeep(c)
       ELSE IF c.lookahead \in Expects(c.stack) THEN AfterShift(c)
       ELSE IF rules # {}
       THEN IF ChecksPrompt(rule) /\ c.text # "gdb" THEN AfterRejected(c)
                                                    ELSE AfterReduce(c, rule)
       ELSE IF c.lookahead = NoToken THEN [c EXCEPT !.status = "MORE"]
                                     ELSE AfterError(c)

\* A step of parse_line.
After(c) ==
    IF c.status = "RUNNING" THEN Parsed(c)
    ELSE IF c.unread[1] = "blank" THEN AfterBlank(c)
    ELSE AfterToken(c)

\* The first n steps of the line l.
IsRun(l, n, run) ==
    /\ DOMAIN run = 0..n
    /\ run[0] = Begin(l)
    /\ \A i \in 0..(n - 1) : ~Over(run[i]) /\ run[i + 1] = After(run[i])

\* The line l ends in c.
EndsIn(l, c) ==
    \E n \in Nat : \E run : IsRun(l, n, run) /\ run[n] = c /\ Over(c)
=============================================================================
