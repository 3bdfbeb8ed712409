----------------------------- MODULE MiGrammar -----------------------------
(***************************************************************************)
(* The GDB/MI grammar of gdbwire_mi_grammar.y and the LR automaton bison   *)
(* builds from it, as data.                                                *)
(*                                                                         *)
(* The parser's stack is a sequence of grammar symbols that starts with    *)
(* "bottom" (the automaton's initial state), so its length is the number   *)
(* of states bison keeps.  In this grammar the two topmost symbols tell    *)
(* which symbols the top state can shift or go to: that is Above.  The     *)
(* language it makes, and where it sees an error, are checked in           *)
(* MiParseTree against the productions (EachToItsCallback, ErrorsAreInTime). *)
(***************************************************************************)
EXTENDS Naturals, Sequences

StreamOps == {"TILDA", "AT_SYMBOL", "AMPERSAND"}

AsyncOps == {"MULT_OP", "ADD_OP", "EQUAL_SIGN"}

\* The %token declarations.
Tokens ==
    StreamOps \cup AsyncOps \cup
    {"OPEN_BRACE", "CLOSED_BRACE", "OPEN_PAREN", "CLOSED_PAREN",
     "OPEN_BRACKET", "CLOSED_BRACKET", "NEWLINE", "INTEGER_LITERAL",
     "STRING_LITERAL", "CSTRING", "COMMA", "CARROT"}

Rule(lhs, rhs) == [lhs |-> lhs, rhs |-> rhs]

\* Mutant: an error does not wait for the newline.
ErrorAlone == Rule("output", <<"error">>)

\* The production that binds an error to its line.
ErrorRule == Rule("output", <<"error", "NEWLINE">>)

\* The productions.  "check" is the mid-rule action of the prompt, the
\* anonymous empty nonterminal bison introduces for it.
Rules ==
    {Rule("output_list", << >>),
     Rule("output_list", <<"output_list", "output">>),
     Rule("output", <<"output_variant", "NEWLINE">>),
     ErrorRule,
     Rule("output_variant", <<"oob_record">>),
     Rule("output_variant", <<"result_record">>),
     Rule("output_variant",
          <<"OPEN_PAREN", "variable", "check", "CLOSED_PAREN">>),
     Rule("check", << >>),
     Rule("result_record", <<"opt_token", "CARROT", "result_class">>),
     Rule("result_record",
          <<"opt_token", "CARROT", "result_class", "COMMA", "result_list">>),
     Rule("oob_record", <<"async_record">>),
     Rule("oob_record", <<"stream_record">>),
     Rule("async_record",
          <<"opt_token", "async_record_class", "async_class">>),
     Rule("async_record",
          <<"opt_token", "async_record_class", "async_class", "COMMA",
            "result_list">>),
     Rule("result_class", <<"STRING_LITERAL">>),
     Rule("async_class", <<"STRING_LITERAL">>),
     Rule("opt_variable", << >>),
     Rule("opt_variable", <<"variable", "EQUAL_SIGN">>),
     Rule("result_list", <<"result">>),
     Rule("result_list", <<"result_list", "COMMA", "result">>),
     Rule("variable", <<"STRING_LITERAL">>),
     Rule("cstring", <<"CSTRING">>),
     Rule("tuple", <<"OPEN_BRACE", "CLOSED_BRACE">>),
     Rule("tuple", <<"OPEN_BRACE", "result_list", "CLOSED_BRACE">>),
     Rule("list", <<"OPEN_BRACKET", "CLOSED_BRACKET">>),
     Rule("list", <<"OPEN_BRACKET", "result_list", "CLOSED_BRACKET">>),
     Rule("stream_record", <<"stream_record_class", "cstring">>),
     Rule("opt_token", << >>),
     Rule("opt_token", <<"token">>),
     Rule("token", <<"INTEGER_LITERAL">>)}
    \cup {Rule("result", <<"opt_variable", value>>) :
            value \in {"cstring", "tuple", "list"}}
    \cup {Rule("stream_record_class", <<op>>) : op \in StreamOps}
    \cup {Rule("async_record_class", <<op>>) : op \in AsyncOps}

Nonterminals ==
    {"output_list", "output", "output_variant", "check", "result_record",
     "oob_record", "async_record", "stream_record", "async_record_class",
     "stream_record_class", "result_class", "async_class", "opt_variable",
     "variable", "result_list", "result", "cstring", "tuple", "list",
     "opt_token", "token"}

Symbols == {"bottom", "error"} \cup Tokens \cup Nonterminals

(***************************************************************************)
(* The automaton.                                                          *)
(***************************************************************************)

\* What a result starts with.
ResultStart == {"result", "opt_variable", "variable", "STRING_LITERAL"}

\* The symbols the state reached by "top", itself reached over "under",
\* can shift (tokens and error) or go to (nonterminals).
Above(under, top) ==
    CASE top = "bottom" -> {"output_list"}
      [] top = "output_list" ->
            {"output", "error", "output_variant", "oob_record",
             "result_record", "async_record", "stream_record",
             "stream_record_class", "opt_token", "token", "OPEN_PAREN",
             "INTEGER_LITERAL"} \cup StreamOps
      [] top \in {"output_variant", "error"} -> {"NEWLINE"}
      [] top = "OPEN_PAREN" -> {"variable", "STRING_LITERAL"}
      [] top = "variable" ->
            IF under = "OPEN_PAREN" THEN {"check"} ELSE {"EQUAL_SIGN"}
      [] top = "check" -> {"CLOSED_PAREN"}
      [] top = "opt_token" -> {"CARROT", "async_record_class"} \cup AsyncOps
      [] top = "CARROT" -> {"result_class", "STRING_LITERAL"}
      [] top = "async_record_class" -> {"async_class", "STRING_LITERAL"}
      [] top \in {"result_class", "async_class"} -> {"COMMA"}
      [] top = "result_list" ->
            CASE under = "OPEN_BRACE" -> {"COMMA", "CLOSED_BRACE"}
              [] under = "OPEN_BRACKET" -> {"COMMA", "CLOSED_BRACKET"}
              [] OTHER -> {"COMMA"}
      [] top = "COMMA" ->
            IF under = "result_list" THEN ResultStart
                                     ELSE ResultStart \cup {"result_list"}
      [] top = "OPEN_BRACE" ->
            ResultStart \cup {"result_list", "CLOSED_BRACE"}
      [] top = "OPEN_BRACKET" ->
            ResultStart \cup {"result_list", "CLOSED_BRACKET"}
      [] top = "opt_variable" ->
            {"cstring", "tuple", "list", "CSTRING", "OPEN_BRACE",
             "OPEN_BRACKET"}
      [] top = "stream_record_class" -> {"cstring", "CSTRING"}
      [] OTHER -> {}

Top(s) == s[Len(s)]

Under(s) == IF Len(s) = 1 THEN "bottom" ELSE s[Len(s) - 1]

\* The symbols that may be pushed on the stack s.
Expects(s) == Above(Under(s), Top(s))

Pop(s, n) == SubSeq(s, 1, Len(s) - n)

\* The right-hand side of the rule r lies on top of s and its left-hand side
\* may take its place.
IsHandle(r, s) ==
    /\ Len(r.rhs) < Len(s)
    /\ SubSeq(s, Len(s) - Len(r.rhs) + 1, Len(s)) = r.rhs
    /\ r.lhs \in Expects(Pop(s, Len(r.rhs)))

\* A state that shifts no token is what bison calls consistent: it reduces
\* without asking for a lookahead.
NeedsLookahead(s) == Expects(s) \cap Tokens # {}

(***************************************************************************)
(* Memory: the symbols whose semantic value is allocated on the heap, and  *)
(* those with a %destructor for the ones error recovery throws away.       *)
(***************************************************************************)
Owning ==
    {"output_variant", "oob_record", "result_record", "async_record",
     "stream_record", "result_list", "result", "opt_variable", "variable",
     "opt_token", "token", "cstring", "tuple", "list"}

\* Mutant: the %destructor of opt_variable is missing.
DestructorsButOne ==
    {"output_variant", "result_list", "result", "variable", "opt_token"}

Destructors ==
    {"output_variant", "result_list", "result", "opt_variable", "variable",
     "opt_token"}
=============================================================================
