------------------------- MODULE MiPushParserProofs -------------------------
(***************************************************************************)
(* For every set of words, every depth of the stack, and every sequence of *)
(* tokens: the push parser's types, its resynchronisation after an error,  *)
(* and its memory.                                                         *)
(***************************************************************************)
EXTENDS MiPushParser, TLAPS

-----------------------------------------------------------------------------
(* The grammar.                                                            *)

\* The symbols whose state expects nothing, and the few states that expect
\* the symbols the invariant speaks of.
LEMMA AboveFacts ==
    ASSUME NEW u, NEW t, NEW y, y \in Above(u, t)
    PROVE  /\ y \in Symbols \ {"bottom"}
           /\ t \notin {"NEWLINE", "output"}
           /\ t \notin Owning \ Destructors
           /\ y = "output_list" => t = "bottom"
           /\ y \in {"error", "output", "output_variant"} => t = "output_list"
           /\ y = "NEWLINE" => t \in {"output_variant", "error"}
           /\ y = "check" => t = "variable"
BY DEF Above, Symbols, Tokens, Nonterminals, StreamOps, AsyncOps, Owning,
       Destructors, ResultStart

\* What the outermost states expect.
LEMMA AboveOutermost ==
    ASSUME NEW u
    PROVE  /\ "error" \in Above(u, "output_list")
           /\ "TILDA" \in Above(u, "output_list") \cap Tokens
           /\ Above(u, "bottom") = {"output_list"}
           /\ Above(u, "error") = {"NEWLINE"}
BY DEF Above, Tokens, StreamOps

EndOf(s) == s[Len(s)]

VariantRule == Rule("output", <<"output_variant", "NEWLINE">>)

\* The rules that end in the symbols the invariant speaks of, and the rules
\* that make them.
LEMMA RuleFacts ==
    ASSUME NEW r \in Rules
    PROVE  /\ r.lhs \in Nonterminals /\ Len(r.rhs) \in Nat
           /\ Len(r.rhs) = 0 => r.lhs \notin Owning \ Destructors
           /\ Len(r.rhs) > 0 =>
                 /\ EndOf(r.rhs) \notin {"bottom", "error", "output_list"}
                 /\ EndOf(r.rhs) = "output" => r.lhs = "output_list"
                 /\ EndOf(r.rhs) = "NEWLINE" => r \in {ErrorRule, VariantRule}
           /\ r.lhs = "output" => r \in {ErrorRule, VariantRule}
           /\ r.lhs = "output_list" =>
                 Len(r.rhs) = 0 \/ (Len(r.rhs) = 2 /\ EndOf(r.rhs) = "output")
           /\ r.lhs = "check" => Len(r.rhs) = 0
<1>1. r.lhs \in Nonterminals /\ Len(r.rhs) \in Nat
  BY SMTT(60) DEF Rules, Rule, ErrorRule, Nonterminals, StreamOps, AsyncOps
<1>2. Len(r.rhs) = 0 =>
        r.lhs \in {"output_list", "check", "opt_variable", "opt_token"}
  BY SMTT(60) DEF Rules, Rule, ErrorRule, StreamOps, AsyncOps
<1>3. Len(r.rhs) > 0 => EndOf(r.rhs) \notin {"bottom", "error", "output_list"}
  BY SMTT(60) DEF Rules, Rule, ErrorRule, StreamOps, AsyncOps, EndOf
<1>4. Len(r.rhs) > 0 /\ EndOf(r.rhs) = "output" => r.lhs = "output_list"
  BY SMTT(60) DEF Rules, Rule, ErrorRule, StreamOps, AsyncOps, EndOf
<1>5. Len(r.rhs) > 0 /\ EndOf(r.rhs) = "NEWLINE" =>
        r \in {ErrorRule, VariantRule}
  BY SMTT(60)
     DEF Rules, Rule, ErrorRule, VariantRule, StreamOps, AsyncOps, EndOf
<1>6. r.lhs = "output" => r \in {ErrorRule, VariantRule}
  BY SMTT(60) DEF Rules, Rule, ErrorRule, VariantRule, StreamOps, AsyncOps
<1>7. r.lhs = "output_list" =>
        r \in {Rule("output_list", << >>),
               Rule("output_list", <<"output_list", "output">>)}
  BY SMTT(60) DEF Rules, Rule, ErrorRule, StreamOps, AsyncOps
<1>8. r.lhs = "output_list" =>
        Len(r.rhs) = 0 \/ (Len(r.rhs) = 2 /\ EndOf(r.rhs) = "output")
  BY <1>7 DEF Rule, EndOf
<1>9. r.lhs = "check" => Len(r.rhs) = 0
  BY SMTT(60) DEF Rules, Rule, ErrorRule, StreamOps, AsyncOps
<1> QED
  BY <1>1, <1>2, <1>3, <1>4, <1>5, <1>6, <1>8, <1>9 DEF Owning, Destructors

-----------------------------------------------------------------------------
(* The stack.                                                              *)

Stack(s) == s \in Seq(Symbols) /\ Len(s) >= 1 /\ Shaped(s)

LEMMA StackLength ==
    ASSUME NEW s, Stack(s)
    PROVE  Len(s) # 1 => Len(s) >= 2
<1> DEFINE n == Len(s)
<1>1. n \in Nat /\ n >= 1
  BY DEF Stack
<1> HIDE DEF n
<1>2. n # 1 => n >= 2
  BY <1>1
<1> QED BY <1>2 DEF n

LEMMA InitialStack == Stack(<<"bottom">>)
BY DEF Stack, Shaped, Symbols

\* What is left of a stack after a pop is a stack.
LEMMA PrefixIsStack ==
    ASSUME NEW s, Stack(s), NEW n \in 1..Len(s)
    PROVE  /\ Stack(SubSeq(s, 1, n))
           /\ Len(SubSeq(s, 1, n)) = n
           /\ \A i \in 1..n : SubSeq(s, 1, n)[i] = s[i]
BY DEF Stack, Shaped

\* What the state below or on top of a stack expects.
LEMMA ExpectsIsAbove ==
    ASSUME NEW s, Stack(s)
    PROVE  Expects(s) =
              Above(IF Len(s) = 1 THEN "bottom" ELSE s[Len(s) - 1], s[Len(s)])
BY DEF Expects, Under, Top

\* Pushing what the top expects keeps a stack a stack.
LEMMA PushIsStack ==
    ASSUME NEW s, Stack(s), NEW y, y \in Expects(s)
    PROVE  /\ Stack(Append(s, y))
           /\ Len(Append(s, y)) = Len(s) + 1
           /\ Top(Append(s, y)) = y
           /\ \A i \in 1..Len(s) : Append(s, y)[i] = s[i]
<1> DEFINE t == Append(s, y)
<1>1. y \in Symbols
  BY ExpectsIsAbove, AboveFacts
<1>2. /\ t \in Seq(Symbols) /\ Len(t) = Len(s) + 1 /\ t[Len(s) + 1] = y
      /\ \A i \in 1..Len(s) : t[i] = s[i]
  BY <1>1 DEF Stack
<1> HIDE DEF t
<1>3. ASSUME NEW i \in 1..(Len(t) - 1)
      PROVE  t[i + 1] \in Above(IF i = 1 THEN "bottom" ELSE t[i - 1], t[i])
  <2>1. CASE i = Len(s)
    <3>1. t[i + 1] = y /\ t[i] = s[i] /\ (i > 1 => t[i - 1] = s[i - 1])
      BY <1>2, <2>1 DEF Stack
    <3>2. y \in Above(IF i = 1 THEN "bottom" ELSE s[i - 1], s[i])
      BY <2>1, ExpectsIsAbove
    <3> QED BY <3>1, <3>2, <1>2 DEF Stack
  <2>2. CASE i # Len(s)
    <3>1. i \in 1..(Len(s) - 1)
      BY <1>2, <2>2 DEF Stack
    <3>2. t[i + 1] = s[i + 1] /\ t[i] = s[i] /\ (i > 1 => t[i - 1] = s[i - 1])
      BY <1>2, <3>1 DEF Stack
    <3> QED BY <3>1, <3>2 DEF Stack, Shaped
  <2> QED BY <2>1, <2>2
<1>4. Stack(t)
  BY <1>2, <1>3 DEF Stack, Shaped
<1> QED BY <1>2, <1>4 DEF Top, t

\* Where the outermost symbols stand.
LEMMA OutermostSymbols ==
    ASSUME NEW s, Stack(s)
    PROVE  /\ s[1] = "bottom"
           /\ Len(s) >= 2 => s[2] = "output_list"
           /\ \A i \in 1..Len(s) :
                 /\ s[i] = "bottom" => i = 1
                 /\ s[i] = "output_list" => i = 2
                 /\ s[i] \in {"error", "output", "output_variant"} => i = 3
                 /\ s[i] = "NEWLINE" =>
                       i = 4 /\ s[3] \in {"output_variant", "error"}
                 /\ i < Len(s) => s[i] \notin Owning \ Destructors
<1>1. \A i \in 1..(Len(s) - 1) :
        s[i + 1] \in Above(IF i = 1 THEN "bottom" ELSE s[i - 1], s[i])
  BY DEF Stack, Shaped
<1>2. s[1] = "bottom"
  BY DEF Stack, Shaped
<1>3. Len(s) >= 2 => s[2] = "output_list"
  BY <1>1, <1>2, AboveOutermost DEF Stack
<1>4. ASSUME NEW i \in 1..Len(s)
      PROVE  s[i] = "bottom" => i = 1
  <2>1. CASE i > 1
    <3>1. i - 1 \in 1..(Len(s) - 1) /\ (i - 1) + 1 = i
      BY <2>1 DEF Stack
    <3> QED BY <3>1, <1>1, AboveFacts
  <2> QED BY <2>1
<1>5. ASSUME NEW i \in 1..Len(s)
      PROVE  s[i] = "output_list" => i = 2
  <2>1. CASE i > 1
    <3>1. i - 1 \in 1..(Len(s) - 1) /\ (i - 1) + 1 = i
      BY <2>1 DEF Stack
    <3> QED BY <3>1, <1>1, <1>4, AboveFacts
  <2> QED BY <2>1, <1>2
<1>6. ASSUME NEW i \in 1..Len(s)
      PROVE  s[i] \in {"error", "output", "output_variant"} => i = 3
  <2>1. CASE i > 1
    <3>1. i - 1 \in 1..(Len(s) - 1) /\ (i - 1) + 1 = i
      BY <2>1 DEF Stack
    <3> QED BY <3>1, <1>1, <1>5, AboveFacts
  <2> QED BY <2>1, <1>2
<1>7. ASSUME NEW i \in 1..Len(s)
      PROVE  s[i] = "NEWLINE" => i = 4 /\ s[3] \in {"output_variant", "error"}
  <2>1. CASE i > 1
    <3>1. i - 1 \in 1..(Len(s) - 1) /\ (i - 1) + 1 = i
      BY <2>1 DEF Stack
    <3> QED BY <3>1, <1>1, <1>6, AboveFacts
  <2> QED BY <2>1, <1>2
<1>8. ASSUME NEW i \in 1..Len(s), i < Len(s)
      PROVE  s[i] \notin Owning \ Destructors
  BY <1>1, <1>8, AboveFacts DEF Stack
<1> QED BY <1>2, <1>3, <1>4, <1>5, <1>6, <1>7, <1>8

\* Error recovery always pops down to the list of outputs.
LEMMA RecoveryIsAtOutputList ==
    ASSUME NEW s, Stack(s), Len(s) >= 2
    PROVE  RecoveryPoints(s) = {2} /\ RecoveryPoint(s) = 2
<1>1. ASSUME NEW n \in 1..Len(s)
      PROVE  "error" \in Expects(SubSeq(s, 1, n)) <=> n = 2
  <2>1. Expects(SubSeq(s, 1, n)) =
          Above(IF n = 1 THEN "bottom" ELSE s[n - 1], s[n])
    <3> DEFINE p == SubSeq(s, 1, n)
    <3>1. /\ Stack(p) /\ Len(p) = n /\ p[n] = s[n]
          /\ n > 1 => p[n - 1] = s[n - 1]
      BY PrefixIsStack DEF Stack
    <3> HIDE DEF p
    <3>2. Expects(p) = Above(IF Len(p) = 1 THEN "bottom" ELSE p[Len(p) - 1],
                             p[Len(p)])
      BY <3>1, ExpectsIsAbove
    <3>3. Expects(p) = Above(IF n = 1 THEN "bottom" ELSE s[n - 1], s[n])
      BY <3>1, <3>2
    <3> QED BY <3>3 DEF p
  <2>2. s[n] = "output_list" <=> n = 2
    BY OutermostSymbols DEF Stack
  <2> QED BY <2>1, <2>2, AboveFacts, AboveOutermost
<1>2. RecoveryPoints(s) = {2}
  BY <1>1 DEF RecoveryPoints, Stack
<1> QED BY <1>2 DEF RecoveryPoint

\* The stack on which the next line begins, and the one on which error
\* recovery does.
LEMMA AfterRecovery ==
    ASSUME NEW s, Stack(s), Len(s) >= 2
    PROVE  /\ Append(SubSeq(s, 1, RecoveryPoint(s)), "error") = InError
           /\ Stack(InError)
<1> DEFINE p == SubSeq(s, 1, 2)
           q == Append(p, "error")
<1>1. /\ Stack(p) /\ Len(p) = 2
      /\ p[1] = "bottom" /\ p[2] = "output_list"
  BY PrefixIsStack, OutermostSymbols DEF Stack
<1> HIDE DEF p
<1>2. "error" \in Expects(p)
  <2>1. Expects(p) = Above("bottom", "output_list")
    BY <1>1, ExpectsIsAbove
  <2> QED BY <2>1, AboveOutermost
<1>3. Stack(q) /\ Len(q) = 3 /\ q[3] = "error"
      /\ q[1] = "bottom" /\ q[2] = "output_list"
  BY <1>1, <1>2, PushIsStack DEF Top
<1> HIDE DEF q
<1>4. q = InError
  BY <1>3 DEF Stack, InError
<1> QED BY <1>3, <1>4, RecoveryIsAtOutputList DEF p, q

\* What a reduction leaves, and what it needed on top.
LEMMA ReducedStack ==
    ASSUME NEW s, Stack(s), NEW r \in Rules, IsHandle(r, s)
    PROVE  LET p == Pop(s, Len(r.rhs))
               t == Append(p, r.lhs)
           IN /\ Stack(p) /\ Len(p) = Len(s) - Len(r.rhs)
              /\ r.lhs \in Expects(p)
              /\ Stack(t) /\ Len(t) = Len(p) + 1 /\ Top(t) = r.lhs
              /\ \A i \in 1..Len(p) : t[i] = s[i]
              /\ Len(r.rhs) > 0 => EndOf(r.rhs) = Top(s)
              /\ Len(r.rhs) > 1 =>
                    r.rhs[Len(r.rhs) - 1] = s[Len(s) - 1]
<1> DEFINE n == Len(r.rhs)
           p == Pop(s, n)
           t == Append(p, r.lhs)
<1>1. n \in Nat /\ n < Len(s) /\ r.lhs \in Expects(p)
      /\ SubSeq(s, Len(s) - n + 1, Len(s)) = r.rhs
  BY RuleFacts DEF IsHandle
<1>2. Stack(p) /\ Len(p) = Len(s) - n /\ \A i \in 1..Len(p) : p[i] = s[i]
  <2> DEFINE k == Len(s) - n
  <2>1. k \in 1..Len(s)
    BY <1>1 DEF Stack
  <2>2. p = SubSeq(s, 1, k)
    BY DEF Pop
  <2> HIDE DEF k, p
  <2>3. Stack(p) /\ Len(p) = k /\ \A i \in 1..k : p[i] = s[i]
    BY <2>1, <2>2, PrefixIsStack
  <2> QED BY <2>3 DEF k
<1>3. Stack(t) /\ Len(t) = Len(p) + 1 /\ Top(t) = r.lhs
      /\ \A i \in 1..Len(p) : t[i] = s[i]
  <2> HIDE DEF p
  <2> QED BY <1>1, <1>2, PushIsStack
<1>4. n > 0 => EndOf(r.rhs) = Top(s)
  BY <1>1 DEF EndOf, Top, Stack
<1>5. n > 1 => r.rhs[n - 1] = s[Len(s) - 1]
  BY <1>1 DEF Stack
<1> HIDE DEF p
<1> QED BY <1>1, <1>2, <1>3, <1>4, <1>5 DEF p

-----------------------------------------------------------------------------
(* At most one rule can be applied.                                        *)

PromptRule == Rule("output_variant",
    <<"OPEN_PAREN", "variable", "check", "CLOSED_PAREN">>)
RecordRule == Rule("result_record", <<"opt_token", "CARROT", "result_class">>)
AsyncRule ==
    Rule("async_record", <<"opt_token", "async_record_class", "async_class">>)
RecordWithList == Rule("result_record",
    <<"opt_token", "CARROT", "result_class", "COMMA", "result_list">>)
AsyncWithList == Rule("async_record",
    <<"opt_token", "async_record_class", "async_class", "COMMA",
      "result_list">>)
NextResult == Rule("result_list", <<"result_list", "COMMA", "result">>)
TupleRule == Rule("tuple", <<"OPEN_BRACE", "result_list", "CLOSED_BRACE">>)
ListRule == Rule("list", <<"OPEN_BRACKET", "result_list", "CLOSED_BRACKET">>)

\* The rules by the length of their right-hand sides.
EmptyRules ==
    {Rule(x, << >>) :
        x \in {"output_list", "check", "opt_variable", "opt_token"}}

UnitRules ==
    {Rule("output_variant", <<"oob_record">>),
     Rule("output_variant", <<"result_record">>),
     Rule("oob_record", <<"async_record">>),
     Rule("oob_record", <<"stream_record">>),
     Rule("result_class", <<"STRING_LITERAL">>),
     Rule("async_class", <<"STRING_LITERAL">>),
     Rule("variable", <<"STRING_LITERAL">>),
     Rule("result_list", <<"result">>),
     Rule("cstring", <<"CSTRING">>),
     Rule("opt_token", <<"token">>),
     Rule("token", <<"INTEGER_LITERAL">>)}
    \cup {Rule("stream_record_class", <<op>>) : op \in StreamOps}
    \cup {Rule("async_record_class", <<op>>) : op \in AsyncOps}

PairRules ==
    {Rule("output_list", <<"output_list", "output">>),
     VariantRule, ErrorRule,
     Rule("opt_variable", <<"variable", "EQUAL_SIGN">>),
     Rule("tuple", <<"OPEN_BRACE", "CLOSED_BRACE">>),
     Rule("list", <<"OPEN_BRACKET", "CLOSED_BRACKET">>),
     Rule("stream_record", <<"stream_record_class", "cstring">>)}
    \cup {Rule("result", <<"opt_variable", value>>) :
            value \in {"cstring", "tuple", "list"}}

LongRules ==
    {PromptRule, RecordRule, AsyncRule, TupleRule, ListRule, RecordWithList,
     AsyncWithList, NextResult}

LEMMA RulesByLength ==
    ASSUME NEW r \in Rules
    PROVE  r \in EmptyRules \cup UnitRules \cup PairRules \cup LongRules
<1> DEFINE Results ==
               {Rule("result", <<"opt_variable", value>>) :
                   value \in {"cstring", "tuple", "list"}}
           Streams == {Rule("stream_record_class", <<op>>) : op \in StreamOps}
           Asyncs == {Rule("async_record_class", <<op>>) : op \in AsyncOps}
<1>1. Results \subseteq PairRules /\ Streams \cup Asyncs \subseteq UnitRules
  BY Zenon DEF PairRules, UnitRules
<1>2. r \notin Results \cup Streams \cup Asyncs =>
        r \in EmptyRules \cup UnitRules \cup PairRules \cup LongRules
  BY SMTT(60) DEF Rules, EmptyRules, UnitRules, PairRules, LongRules,
     VariantRule, PromptRule, RecordRule, AsyncRule, TupleRule, ListRule,
     RecordWithList, AsyncWithList, NextResult
<1> QED BY <1>1, <1>2

\* The symbols that stand for nothing on a line, and take a state all the same.
Empties == {"check", "opt_variable", "opt_token"}

\* Symbols no rule ends in: all those on which a rule without a right-hand side
\* applies, those that it makes, and output_variant.
Openers ==
    {"bottom", "output_list", "output_variant", "variable", "COMMA",
     "OPEN_BRACE", "OPEN_BRACKET"} \cup Empties

\* The symbols that several rules end in, and those rules.
SharedEnds ==
    {"NEWLINE", "result_list", "STRING_LITERAL", "EQUAL_SIGN", "result",
     "CLOSED_BRACE", "CLOSED_BRACKET", "cstring"}

SharedEnding(r, e) ==
    /\ e = "NEWLINE" => r \in {ErrorRule, VariantRule}
    /\ e = "result_list" => r \in {RecordWithList, AsyncWithList}
    /\ e = "STRING_LITERAL" =>
          r \in {Rule("result_class", <<e>>), Rule("async_class", <<e>>),
                 Rule("variable", <<e>>)}
    /\ e = "EQUAL_SIGN" =>
          r \in {Rule("opt_variable", <<"variable", e>>),
                 Rule("async_record_class", <<e>>)}
    /\ e = "result" => r \in {Rule("result_list", <<e>>), NextResult}
    /\ e = "CLOSED_BRACE" =>
          r \in {Rule("tuple", <<"OPEN_BRACE", e>>), TupleRule}
    /\ e = "CLOSED_BRACKET" =>
          r \in {Rule("list", <<"OPEN_BRACKET", e>>), ListRule}
    /\ e = "cstring" =>
          r \in {Rule("stream_record", <<"stream_record_class", e>>),
                 Rule("result", <<"opt_variable", e>>)}

\* Every other symbol that a rule ends in has its own rule.
SoleRule(e) ==
    CASE e = "output" -> Rule("output_list", <<"output_list", e>>)
      [] e \in {"oob_record", "result_record"} -> Rule("output_variant", <<e>>)
      [] e = "CLOSED_PAREN" -> PromptRule
      [] e = "result_class" -> RecordRule
      [] e = "async_class" -> AsyncRule
      [] e \in {"async_record", "stream_record"} -> Rule("oob_record", <<e>>)
      [] e = "CSTRING" -> Rule("cstring", <<e>>)
      [] e \in {"tuple", "list"} -> Rule("result", <<"opt_variable", e>>)
      [] e = "token" -> Rule("opt_token", <<e>>)
      [] e = "INTEGER_LITERAL" -> Rule("token", <<e>>)
      [] e \in StreamOps -> Rule("stream_record_class", <<e>>)
      [] OTHER -> Rule("async_record_class", <<e>>)

EndFacts(r) ==
    LET e == EndOf(r.rhs)
    IN /\ e \notin Openers
       /\ SharedEnding(r, e)
       /\ e \notin SharedEnds => r = SoleRule(e)

\* That is so for the rules of each length.
LEMMA UnitFacts ==
    ASSUME NEW r \in UnitRules
    PROVE  Len(r.rhs) = 1 /\ EndFacts(r)
<1> DEFINE e == EndOf(r.rhs)
<1>1. Len(r.rhs) = 1 /\ e \notin Openers
  BY DEF UnitRules, Rule, EndOf, Openers, Empties, StreamOps, AsyncOps
<1>2. SharedEnding(r, e)
  <2>1. CASE \E op \in StreamOps : r = Rule("stream_record_class", <<op>>)
    BY <2>1 DEF Rule, EndOf, SharedEnding, StreamOps
  <2>2. CASE \E op \in AsyncOps : r = Rule("async_record_class", <<op>>)
    BY <2>2 DEF Rule, EndOf, SharedEnding, AsyncOps
  <2>3. CASE e \in {"STRING_LITERAL", "result"}
    <3>1. /\ e = "result" => r = Rule("result_list", <<"result">>)
          /\ e = "STRING_LITERAL" =>
                r \in {Rule("result_class", <<e>>), Rule("async_class", <<e>>),
                       Rule("variable", <<e>>)}
      BY <2>3 DEF UnitRules, Rule, EndOf, StreamOps, AsyncOps
    <3> QED BY <2>3, <3>1 DEF SharedEnding
  <2>4. CASE e \in {"oob_record", "result_record", "async_record",
                    "stream_record", "CSTRING", "token", "INTEGER_LITERAL"}
    BY <2>4 DEF SharedEnding
  <2>5. \/ \E op \in StreamOps : r = Rule("stream_record_class", <<op>>)
        \/ \E op \in AsyncOps : r = Rule("async_record_class", <<op>>)
        \/ e \in {"STRING_LITERAL", "result", "oob_record", "result_record",
                  "async_record", "stream_record", "CSTRING", "token",
                  "INTEGER_LITERAL"}
    BY DEF UnitRules, Rule, EndOf
  <2> HIDE DEF e
  <2> QED BY <2>1, <2>2, <2>3, <2>4, <2>5
<1>3. e \notin SharedEnds => r = SoleRule(e)
  BY DEF UnitRules, Rule, EndOf, SoleRule, SharedEnds, StreamOps, AsyncOps
<1> QED BY <1>1, <1>2, <1>3, Zenon DEF EndFacts

LEMMA PairFacts ==
    ASSUME NEW r \in PairRules
    PROVE  Len(r.rhs) = 2 /\ EndFacts(r)
<1> DEFINE e == EndOf(r.rhs)
<1>1. Len(r.rhs) = 2 /\ e \notin Openers
  <2>1. /\ Len(r.rhs) = 2
        /\ e \in {"output", "NEWLINE", "EQUAL_SIGN", "CLOSED_BRACE",
                   "CLOSED_BRACKET", "cstring", "tuple", "list"}
    <3>1. CASE \E value \in {"cstring", "tuple", "list"} :
                  r = Rule("result", <<"opt_variable", value>>)
      BY <3>1 DEF Rule, EndOf
    <3>2. CASE r \in {VariantRule, ErrorRule}
      BY <3>2 DEF VariantRule, ErrorRule, Rule, EndOf
    <3>3. CASE r \in {Rule("output_list", <<"output_list", "output">>),
                      Rule("opt_variable", <<"variable", "EQUAL_SIGN">>),
                      Rule("tuple", <<"OPEN_BRACE", "CLOSED_BRACE">>),
                      Rule("list", <<"OPEN_BRACKET", "CLOSED_BRACKET">>),
                      Rule("stream_record",
                           <<"stream_record_class", "cstring">>)}
      <4>1. r.rhs \in {<<"output_list", "output">>,
                       <<"variable", "EQUAL_SIGN">>,
                       <<"OPEN_BRACE", "CLOSED_BRACE">>,
                       <<"OPEN_BRACKET", "CLOSED_BRACKET">>,
                       <<"stream_record_class", "cstring">>}
        BY <3>3 DEF Rule
      <4>2. Len(r.rhs) = 2 /\ e = r.rhs[2]
        BY <4>1 DEF EndOf
      <4> QED BY <4>1, <4>2
    <3> HIDE DEF e
    <3> QED BY <3>1, <3>2, <3>3, Zenon DEF PairRules
  <2> HIDE DEF e
  <2> QED BY <2>1 DEF Openers, Empties
<1>2. SharedEnding(r, e)
  BY DEF PairRules, Rule, EndOf, SharedEnding, ErrorRule, VariantRule
<1>3. e \notin SharedEnds => r = SoleRule(e)
  BY DEF PairRules, Rule, EndOf, SoleRule, SharedEnds, ErrorRule, VariantRule,
         StreamOps
<1> QED BY <1>1, <1>2, <1>3, Zenon DEF EndFacts

LEMMA LongEnds ==
    /\ Len(PromptRule.rhs) = 4 /\ EndOf(PromptRule.rhs) = "CLOSED_PAREN"
    /\ Len(RecordRule.rhs) = 3 /\ EndOf(RecordRule.rhs) = "result_class"
    /\ Len(AsyncRule.rhs) = 3 /\ EndOf(AsyncRule.rhs) = "async_class"
    /\ Len(TupleRule.rhs) = 3 /\ EndOf(TupleRule.rhs) = "CLOSED_BRACE"
    /\ Len(ListRule.rhs) = 3 /\ EndOf(ListRule.rhs) = "CLOSED_BRACKET"
    /\ Len(RecordWithList.rhs) = 5 /\ EndOf(RecordWithList.rhs) = "result_list"
    /\ Len(AsyncWithList.rhs) = 5 /\ EndOf(AsyncWithList.rhs) = "result_list"
    /\ Len(NextResult.rhs) = 3 /\ EndOf(NextResult.rhs) = "result"
<1>1. Len(PromptRule.rhs) = 4 /\ EndOf(PromptRule.rhs) = "CLOSED_PAREN"
  BY DEF PromptRule, Rule, EndOf
<1>2. Len(RecordRule.rhs) = 3 /\ EndOf(RecordRule.rhs) = "result_class"
  BY DEF RecordRule, Rule, EndOf
<1>3. Len(AsyncRule.rhs) = 3 /\ EndOf(AsyncRule.rhs) = "async_class"
  BY DEF AsyncRule, Rule, EndOf
<1>4. Len(TupleRule.rhs) = 3 /\ EndOf(TupleRule.rhs) = "CLOSED_BRACE"
  BY DEF TupleRule, Rule, EndOf
<1>5. Len(ListRule.rhs) = 3 /\ EndOf(ListRule.rhs) = "CLOSED_BRACKET"
  BY DEF ListRule, Rule, EndOf
<1>6. Len(RecordWithList.rhs) = 5 /\ EndOf(RecordWithList.rhs) = "result_list"
  BY DEF RecordWithList, Rule, EndOf
<1>7. Len(AsyncWithList.rhs) = 5 /\ EndOf(AsyncWithList.rhs) = "result_list"
  BY DEF AsyncWithList, Rule, EndOf
<1>8. Len(NextResult.rhs) = 3 /\ EndOf(NextResult.rhs) = "result"
  BY DEF NextResult, Rule, EndOf
<1> QED BY <1>1, <1>2, <1>3, <1>4, <1>5, <1>6, <1>7, <1>8

LEMMA LongFacts ==
    ASSUME NEW r \in LongRules
    PROVE  Len(r.rhs) \in {3, 4, 5} /\ EndFacts(r)
<1> DEFINE e == EndOf(r.rhs)
<1>1. Len(r.rhs) \in {3, 4, 5} /\ e \notin Openers /\ SharedEnding(r, e)
  BY LongEnds DEF LongRules, Openers, Empties, SharedEnding
<1>2. /\ PromptRule = SoleRule("CLOSED_PAREN")
      /\ RecordRule = SoleRule("result_class")
      /\ AsyncRule = SoleRule("async_class")
  BY Zenon DEF SoleRule, StreamOps
<1>3. e \notin SharedEnds => r = SoleRule(e)
  BY <1>2, LongEnds DEF LongRules, SharedEnds
<1> QED BY <1>1, <1>3, Zenon DEF EndFacts

LEMMA EmptyFacts ==
    ASSUME NEW r \in EmptyRules
    PROVE  /\ Len(r.rhs) = 0 /\ r = Rule(r.lhs, << >>)
           /\ r.lhs \in {"output_list", "check", "opt_variable", "opt_token"}
BY DEF EmptyRules, Rule

\* A rule by its end.
LEMMA RuleEnds ==
    ASSUME NEW r \in Rules
    PROVE  IF Len(r.rhs) = 0
           THEN /\ r = Rule(r.lhs, << >>)
                /\ r.lhs \in {"output_list", "check", "opt_variable",
                             "opt_token"}
           ELSE Len(r.rhs) > 0 /\ EndFacts(r)
BY RulesByLength, EmptyFacts, UnitFacts, PairFacts, LongFacts

\* Where a symbol that several rules make is expected.
LEMMA AboveMakes ==
    ASSUME NEW u, NEW t, NEW y \in Above(u, t)
    PROVE  /\ y = "output_list" => t = "bottom"
           /\ y = "check" => t = "variable"
           /\ y = "opt_variable" =>
                 t \in {"COMMA", "OPEN_BRACE", "OPEN_BRACKET"}
           /\ y = "opt_token" => t = "output_list"
           /\ y = "result_class" => t = "CARROT"
           /\ y = "async_class" => t = "async_record_class"
           /\ y = "variable" =>
                 t \in {"OPEN_PAREN", "COMMA", "OPEN_BRACE", "OPEN_BRACKET"}
           /\ y = "async_record_class" => t = "opt_token"
           /\ y = "result_list" /\ t = "COMMA" => u # "result_list"
BY DEF Above, StreamOps, AsyncOps, ResultStart

\* What lies on the stack under a handle.
LEMMA HandleFacts ==
    ASSUME NEW s, Stack(s), NEW r \in Rules, IsHandle(r, s)
    PROVE  LET n == Len(r.rhs)
           IN /\ n \in Nat /\ n < Len(s)
              /\ n > 0 => EndOf(r.rhs) = Top(s)
              /\ n > 1 => r.rhs[n - 1] = s[Len(s) - 1]
              /\ n > 2 => r.rhs[n - 2] = s[Len(s) - 2]
              /\ n = 0 => r.lhs \in Expects(s)
              /\ n = 1 => /\ Len(s) > 1
                          /\ r.lhs \in Above(IF Len(s) = 2 THEN "bottom"
                                                        ELSE s[Len(s) - 2],
                                            s[Len(s) - 1])
<1> DEFINE n == Len(r.rhs)
           p == Pop(s, n)
<1>1. /\ n \in Nat /\ n < Len(s) /\ r.lhs \in Expects(p)
      /\ Stack(p) /\ Len(p) = Len(s) - n
      /\ SubSeq(s, Len(s) - n + 1, Len(s)) = r.rhs
  BY ReducedStack, RuleFacts DEF IsHandle
<1>2. \A i \in 1..n : r.rhs[i] = s[Len(s) - n + i]
  <2>1. s \in Seq(Symbols) /\ Len(s) \in Nat
    BY DEF Stack
  <2> HIDE DEF n, p
  <2> QED BY <1>1, <2>1
<1>3. /\ n > 0 => r.rhs[n] = s[Len(s)]
      /\ n > 1 => r.rhs[n - 1] = s[Len(s) - 1]
      /\ n > 2 => r.rhs[n - 2] = s[Len(s) - 2]
  <2>1. Len(s) \in Nat
    BY DEF Stack
  <2> HIDE DEF n, p
  <2>2. n > 0 => n \in 1..n /\ Len(s) - n + n = Len(s)
    BY <1>1, <2>1
  <2>3. n > 1 => n - 1 \in 1..n /\ Len(s) - n + (n - 1) = Len(s) - 1
    BY <1>1, <2>1
  <2>4. n > 2 => n - 2 \in 1..n /\ Len(s) - n + (n - 2) = Len(s) - 2
    BY <1>1, <2>1
  <2> QED BY <1>2, <2>2, <2>3, <2>4, Zenon
<1>5. n = 0 => p = s
  BY DEF Pop, Stack
<1>6. ASSUME n = 1
      PROVE  r.lhs \in Above(IF Len(s) = 2 THEN "bottom" ELSE s[Len(s) - 2],
                             s[Len(s) - 1])
  <2>1. Expects(p) =
          Above(IF Len(p) = 1 THEN "bottom" ELSE p[Len(p) - 1], p[Len(p)])
    BY <1>1, ExpectsIsAbove
  <2>2. /\ Len(p) = Len(s) - 1 /\ Len(s) - 1 >= 1
        /\ \A i \in 1..Len(p) : p[i] = s[i]
    BY <1>1, <1>6, PrefixIsStack DEF Pop, Stack
  <2> HIDE DEF p
  <2>3. /\ p[Len(p)] = s[Len(s) - 1]
        /\ Len(p) # 1 => p[Len(p) - 1] = s[Len(s) - 2]
    BY <2>2 DEF Stack
  <2>4. Len(p) = 1 <=> Len(s) = 2
    BY <2>2 DEF Stack
  <2> QED BY <1>1, <2>1, <2>3, <2>4
<1> HIDE DEF p
<1> QED BY <1>1, <1>3, <1>5, <1>6 DEF Stack, EndOf, Top

\* However the stack came about, one rule at most has its right-hand side on top
\* of it and its left-hand side expected below: which reduction is made does not
\* depend on the lookahead, which only tells whether one is.
THEOREM AtMostOneHandle ==
    ASSUME NEW s, Stack(s), NEW r \in Rules, NEW q \in Rules,
           IsHandle(r, s), IsHandle(q, s)
    PROVE  r = q
<1> DEFINE e == Top(s)
           x == s[Len(s) - 1]
           below == IF Len(s) = 2 THEN "bottom" ELSE s[Len(s) - 2]
<1>0. ASSUME NEW a \in {r, q}
      PROVE  /\ Len(a.rhs) < Len(s)
             /\ Len(a.rhs) = 1 => /\ Len(s) > 1
                                  /\ a.lhs \in Above(below, x)
             /\ Len(a.rhs) = 2 => a.rhs[1] = x
             /\ Len(a.rhs) = 3 => a.rhs[2] = x /\ a.rhs[1] = s[Len(s) - 2]
  <2>1. a \in Rules /\ IsHandle(a, s) /\ Stack(s)
    OBVIOUS
  <2> DEFINE n == Len(a.rhs)
  <2>2. /\ n < Len(s)
        /\ n > 1 => a.rhs[n - 1] = s[Len(s) - 1]
        /\ n > 2 => a.rhs[n - 2] = s[Len(s) - 2]
        /\ n = 1 => Len(s) > 1 /\ a.lhs \in Above(below, x)
    BY <2>1, HandleFacts
  <2> HIDE DEF n
  <2>3. /\ n = 2 => n - 1 = 1 /\ n > 1
        /\ n = 3 => n - 1 = 2 /\ n - 2 = 1 /\ n > 1 /\ n > 2
    OBVIOUS
  <2>4. /\ n = 2 => a.rhs[1] = x
        /\ n = 3 => a.rhs[2] = x /\ a.rhs[1] = s[Len(s) - 2]
    BY <2>2, <2>3
  <2> QED BY <2>2, <2>4 DEF n
<1>1. CASE Len(r.rhs) = 0 \/ Len(q.rhs) = 0
  <2>1. ASSUME NEW a \in {r, q}, NEW b \in {r, q}, Len(a.rhs) = 0
        PROVE  Len(b.rhs) = 0
    <3>1. /\ a.lhs \in {"output_list", "check", "opt_variable", "opt_token"}
          /\ a.lhs \in Expects(s)
      BY <2>1, RuleEnds, HandleFacts
    <3>2. Top(s) \in Openers
      BY <3>1, ExpectsIsAbove, AboveMakes DEF Openers, Top
    <3>3. Len(b.rhs) > 0 => EndOf(b.rhs) = Top(s) /\ EndOf(b.rhs) \notin Openers
      BY RuleEnds, HandleFacts DEF EndFacts
    <3> QED BY <3>2, <3>3, RuleFacts
  <2>2. Len(r.rhs) = 0 /\ Len(q.rhs) = 0
    BY <1>1, <2>1
  <2>3. r.lhs \in Expects(s) /\ q.lhs \in Expects(s)
    BY <2>2, HandleFacts
  <2>4. /\ r.lhs \in {"output_list", "check", "opt_variable", "opt_token"}
        /\ q.lhs \in {"output_list", "check", "opt_variable", "opt_token"}
        /\ r = Rule(r.lhs, << >>) /\ q = Rule(q.lhs, << >>)
    BY <2>2, RuleEnds
  <2>5. r.lhs = q.lhs
    BY <2>3, <2>4, ExpectsIsAbove, AboveMakes
  <2> QED BY <2>4, <2>5
<1>2. CASE Len(r.rhs) > 0 /\ Len(q.rhs) > 0
  <2>1. /\ EndFacts(r) /\ EndOf(r.rhs) = e
        /\ EndFacts(q) /\ EndOf(q.rhs) = e
    BY <1>2, RuleEnds, HandleFacts
  <2>2. /\ SharedEnding(r, e) /\ SharedEnding(q, e)
        /\ e \notin SharedEnds => r = SoleRule(e) /\ q = SoleRule(e)
    BY <2>1, Zenon DEF EndFacts
  <2>3. CASE e = "NEWLINE" \/ e = "result_list" \/ e = "cstring"
    <3>1. Len(r.rhs) = Len(q.rhs)
      BY <2>2, <2>3, LongEnds DEF SharedEnding, Rule, ErrorRule, VariantRule
    <3>2. r.rhs = q.rhs
      BY <3>1 DEF IsHandle
    <3> QED BY <2>2, <2>3, <3>2
         DEF SharedEnding, Rule, ErrorRule, VariantRule, RecordWithList,
             AsyncWithList
  <2>4. CASE e = "STRING_LITERAL"
    <3>1. Len(r.rhs) = 1 /\ Len(q.rhs) = 1
      BY <2>2, <2>4 DEF SharedEnding, Rule
    <3>2. \A a \in {r, q} : a.lhs \in Above(below, x)
      BY <1>0, <3>1
    <3>3. r.lhs = q.lhs /\ r.rhs = q.rhs
      BY <2>2, <2>4, <3>2, AboveMakes DEF SharedEnding, Rule
    <3> QED BY <2>2, <2>4, <3>3 DEF SharedEnding, Rule
  <2>5. CASE e = "EQUAL_SIGN"
    <3>1. ASSUME NEW a \in {r, q}
          PROVE  /\ a = Rule("opt_variable", <<"variable", e>>) =>
                       x = "variable"
                 /\ a = Rule("async_record_class", <<e>>) => x = "opt_token"
      <4>1. a = Rule("opt_variable", <<"variable", e>>) =>
              Len(a.rhs) = 2 /\ a.rhs[1] = "variable"
        BY DEF Rule
      <4>2. a = Rule("async_record_class", <<e>>) =>
              Len(a.rhs) = 1 /\ a.lhs = "async_record_class"
        BY DEF Rule
      <4> QED BY <1>0, <4>1, <4>2, AboveMakes
    <3> QED BY <2>2, <2>5, <3>1 DEF SharedEnding
  <2>6. CASE e = "result"
    <3>1. ASSUME NEW a \in {r, q}
          PROVE  /\ a = NextResult =>
                       /\ Len(s) > 2 /\ x = "COMMA"
                       /\ s[Len(s) - 2] = "result_list"
                 /\ a = Rule("result_list", <<e>>) =>
                       "result_list" \in Above(below, x)
      <4>1. a = NextResult =>
              Len(a.rhs) = 3 /\ a.rhs[2] = "COMMA" /\ a.rhs[1] = "result_list"
        BY DEF Rule, NextResult
      <4>2. a = Rule("result_list", <<e>>) =>
              Len(a.rhs) = 1 /\ a.lhs = "result_list"
        BY DEF Rule
      <4>3. Len(a.rhs) = 3 => Len(s) > 2
        BY <1>0 DEF Stack
      <4> QED BY <1>0, <4>1, <4>2, <4>3
    <3>2. ~(NextResult \in {r, q} /\ Rule("result_list", <<e>>) \in {r, q})
      <4> DEFINE n == Len(s)
      <4>1. n \in Nat
        BY DEF Stack
      <4> HIDE DEF n
      <4>2. n > 2 => n # 2
        BY <4>1
      <4> QED BY <3>1, <4>2, AboveMakes DEF n
    <3> QED BY <2>2, <2>6, <3>2 DEF SharedEnding
  <2>7. CASE e = "CLOSED_BRACE" \/ e = "CLOSED_BRACKET"
    <3>1. ASSUME NEW a \in {r, q}
          PROVE  /\ a \in {TupleRule, ListRule} => x = "result_list"
                 /\ a = Rule("tuple", <<"OPEN_BRACE", e>>) => x = "OPEN_BRACE"
                 /\ a = Rule("list", <<"OPEN_BRACKET", e>>) =>
                       x = "OPEN_BRACKET"
      <4>1. a \in {TupleRule, ListRule} =>
              Len(a.rhs) = 3 /\ a.rhs[2] = "result_list"
        BY DEF Rule, TupleRule, ListRule
      <4>2. a = Rule("tuple", <<"OPEN_BRACE", e>>) =>
              Len(a.rhs) = 2 /\ a.rhs[1] = "OPEN_BRACE"
        BY DEF Rule
      <4>3. a = Rule("list", <<"OPEN_BRACKET", e>>) =>
              Len(a.rhs) = 2 /\ a.rhs[1] = "OPEN_BRACKET"
        BY DEF Rule
      <4> QED BY <1>0, <4>1, <4>2, <4>3
    <3> QED BY <2>2, <2>7, <3>1 DEF SharedEnding
  <2> QED BY <2>2, <2>3, <2>4, <2>5, <2>6, <2>7 DEF SharedEnds
<1> QED BY <1>1, <1>2, RuleFacts

-----------------------------------------------------------------------------
(* Every action keeps the invariant.                                       *)

LEMMA TypeStack == PushInv => Stack(stack)
BY DEF PushInv, PushTypeOK, StackInv, Stack

LEMMA StatusFacts ==
    /\ InError # ErrorLine
    /\ Len(InError) = 3 /\ Len(ErrorLine) = 4
    /\ Top(InError) = "error" /\ Top(ErrorLine) = "NEWLINE"
    /\ InError[3] = "error" /\ ErrorLine[3] = "error"
    /\ ErrStatus(InError) = 3 /\ ErrStatus(ErrorLine) = 2
    /\ \A s : s \notin {InError, ErrorLine} => ErrStatus(s) = 0
<1>1. Len(InError) = 3 /\ Len(ErrorLine) = 4
  BY DEF InError, ErrorLine
<1>2. InError # ErrorLine
  BY <1>1
<1>3. /\ Top(InError) = "error" /\ Top(ErrorLine) = "NEWLINE"
      /\ InError[3] = "error" /\ ErrorLine[3] = "error"
  BY DEF InError, ErrorLine, Top
<1> HIDE DEF InError, ErrorLine
<1>4. /\ ErrStatus(InError) = 3 /\ ErrStatus(ErrorLine) = 2
      /\ \A s : s \notin {InError, ErrorLine} => ErrStatus(s) = 0
  BY <1>2 DEF ErrStatus
<1> QED BY <1>1, <1>2, <1>3, <1>4

\* The stacks of error recovery, by their symbols.
LEMMA ErrorStacks ==
    ASSUME NEW s, Stack(s)
    PROVE  /\ Top(s) = "error" <=> s = InError
           /\ Len(s) >= 3 /\ s[3] = "error" /\ Top(s) = "NEWLINE"
                 <=> s = ErrorLine
<1>1. Top(s) = "error" => s = InError
  <2>1. SUFFICES ASSUME Top(s) = "error" PROVE s = InError
    OBVIOUS
  <2>2. Len(s) = 3 /\ s[1] = "bottom" /\ s[2] = "output_list" /\ s[3] = "error"
    <3>1. Len(s) \in 1..Len(s) /\ s[Len(s)] = "error"
      BY <2>1 DEF Stack, Top
    <3>2. Len(s) = 3
      BY <3>1, OutermostSymbols
    <3> QED BY <3>1, <3>2, OutermostSymbols
  <2>3. s = <<s[1], s[2], s[3]>>
    BY <2>2 DEF Stack
  <2> QED BY <2>2, <2>3 DEF InError
<1>2. Len(s) >= 3 /\ s[3] = "error" /\ Top(s) = "NEWLINE" => s = ErrorLine
  <2>1. SUFFICES ASSUME Len(s) >= 3, s[3] = "error", Top(s) = "NEWLINE"
                 PROVE  s = ErrorLine
    OBVIOUS
  <2>2. Len(s) = 4 /\ s[1] = "bottom" /\ s[2] = "output_list" /\ s[3] = "error"
        /\ s[4] = "NEWLINE"
    <3>1. Len(s) \in 1..Len(s) /\ s[Len(s)] = "NEWLINE"
      BY <2>1 DEF Stack, Top
    <3>2. Len(s) = 4
      BY <3>1, OutermostSymbols
    <3> QED BY <2>1, <3>1, <3>2, OutermostSymbols
  <2>3. s = <<s[1], s[2], s[3], s[4]>>
    BY <2>2 DEF Stack
  <2> QED BY <2>2, <2>3 DEF ErrorLine
<1> QED BY <1>1, <1>2, StatusFacts

\* A stack that waits for a token is not topped by what error recovery cannot
\* free, nor by the end of a line.
LEMMA WaitingStack ==
    ASSUME NEW s, Stack(s), NeedsLookahead(s)
    PROVE  Top(s) \notin {"NEWLINE", "output"} \cup (Owning \ Destructors)
BY ExpectsIsAbove, AboveFacts DEF NeedsLookahead, Top

LEMMA InitInv == PushInit => PushInv
<1> SUFFICES ASSUME PushInit PROVE PushInv
  OBVIOUS
<1>1. stack \in Seq(Symbols) /\ Len(stack) = 1 /\ Top(stack) = "bottom"
  BY DEF PushInit, Symbols, Top
<1>2. PushTypeOK
  <2>1. lexed \in Lexed
    BY PositionsAssumption DEF PushInit, Lexed, Lexemes, Tokens
  <2>2. Len(stack) \in 1..MaxDepth
    BY <1>1, MaxDepthAssumption
  <2>3. abandoned \in BOOLEAN
    BY Zenon DEF PushInit
  <2> QED BY <1>1, <2>1, <2>2, <2>3 DEF PushInit, PushTypeOK, Outputs, Statuses
<1>3. StackInv
  BY <1>1, StatusFacts, MaxDepthAssumption DEF PushInit, StackInv, Shaped
<1>4. TokenInv /\ OutputInv /\ NoLeak
  BY <1>1, StatusFacts DEF PushInit, TokenInv, OutputInv, NoLeak, LineRead
<1> QED BY <1>2, <1>3, <1>4 DEF PushInv

LEMMA BeginLineInv == PushInv /\ BeginLine => PushInv'
<1> SUFFICES ASSUME PushInv, BeginLine PROVE PushInv'
  OBVIOUS
<1>1. PushTypeOK'
  BY DEF PushInv, PushTypeOK, BeginLine, Outputs, Statuses
<1>2. StackInv'
  BY DEF PushInv, StackInv, BeginLine, ErrStatus, Shaped, Top
<1>3. TokenInv'
  <2>1. Top(stack) \notin {"NEWLINE", "output"}
    <3>1. CASE status = "MORE"
      BY <3>1, TypeStack, WaitingStack DEF PushInv, TokenInv
    <3>2. CASE status # "MORE"
      BY <3>2 DEF BeginLine, PushInv, TokenInv, LineRead
    <3> QED BY <3>1, <3>2
  <2> QED BY <2>1 DEF PushInv, TokenInv, BeginLine, LineRead, Top
<1>4. OutputInv' /\ NoLeak'
  <2>1. Resynced => stack \notin {InError, ErrorLine}
    BY StatusFacts DEF Resynced
  <2> QED BY <2>1 DEF PushInv, OutputInv, BeginLine, NoLeak, LineRead
<1> QED BY <1>1, <1>2, <1>3, <1>4 DEF PushInv

\* A lexeme's token is a token, and only the newline is NEWLINE.
LEMMA TokenFacts ==
    ASSUME NEW x \in Lexemes
    PROVE  /\ TokenOf(x) \in Tokens
           /\ TokenOf(x) = "NEWLINE" <=> x = "NEWLINE"
           /\ TokenOf(x) # NoToken
<1>1. TokenOf(x) \in Tokens
  BY DEF TokenOf, Lexemes, Tokens
<1>2. NoToken \notin Tokens
  BY DEF Tokens, StreamOps, AsyncOps, NoToken
<1>3. TokenOf(x) = "NEWLINE" <=> x = "NEWLINE"
  <2>1. "NEWLINE" \in Tokens /\ "NEWLINE" \notin Words
    BY WordsAssumption DEF Tokens
  <2> QED BY <2>1 DEF TokenOf
<1> QED BY <1>1, <1>2, <1>3

LEMMA TokenSymbols ==
    /\ NoToken \notin Tokens
    /\ Tokens \subseteq Symbols /\ Nonterminals \subseteq Symbols
    /\ Tokens \cap (Owning \cup {"error", "output", "output_variant"}) = {}
    /\ Nonterminals \cap (Tokens \cup {"error", "bottom"}) = {}
    /\ "output_list" \in Nonterminals
BY DEF Tokens, Nonterminals, Symbols, Owning, NoToken, StreamOps, AsyncOps

LEMMA GiveTokenInv ==
    ASSUME NEW x \in Lexemes, NEW p \in Positions
    PROVE  PushInv /\ GiveToken(x, p) => PushInv'
<1> SUFFICES ASSUME PushInv, GiveToken(x, p) PROVE PushInv'
  OBVIOUS
<1>1. /\ lookahead' = TokenOf(x) /\ lookahead' \in Tokens
      /\ lookahead' # NoToken
      /\ lexed' = [text |-> x, pos |-> p] /\ lexed'.text = x
  BY TokenFacts DEF GiveToken
<1>2. /\ status \in {"UNINIT", "MORE"} /\ status' = "RUNNING"
      /\ ~LineRead /\ ~LineRead'
  BY <1>1 DEF GiveToken, LineRead
<1>3. PushTypeOK'
  BY <1>1, <1>2 DEF GiveToken, PushInv, PushTypeOK, Lexed, Statuses
<1>4. StackInv'
  BY DEF GiveToken, PushInv, StackInv, Shaped, ErrStatus, Top
<1>5. TokenInv'
  BY <1>1, <1>2 DEF GiveToken, PushInv, TokenInv, Top
<1>6. OutputInv' /\ NoLeak'
  BY <1>1, <1>2 DEF GiveToken, PushInv, OutputInv, NoLeak, Top
<1> QED BY <1>3, <1>4, <1>5, <1>6 DEF PushInv

LEMMA NeedTokenInv == PushInv /\ NeedToken => PushInv'
<1> SUFFICES ASSUME PushInv, NeedToken PROVE PushInv'
  OBVIOUS
<1>1. status = "RUNNING" /\ status' = "MORE" /\ lookahead = NoToken
      /\ Len(stack) < MaxDepth /\ NeedsLookahead(stack) /\ stack' = stack
  BY DEF NeedToken, Parsing
<1>2. LineRead' <=> LineRead
  BY <1>1 DEF NeedToken, LineRead
<1>3. Top(stack) \notin {"NEWLINE", "output"}
  BY <1>1, TypeStack, WaitingStack
<1>4. PushTypeOK'
  BY <1>1 DEF NeedToken, PushInv, PushTypeOK, Statuses
<1>5. StackInv'
  BY <1>1, MaxDepthAssumption DEF NeedToken, PushInv, PushTypeOK, StackInv
<1>6. TokenInv'
  BY <1>1, <1>2, <1>3 DEF NeedToken, PushInv, TokenInv, Top, NeedsLookahead,
                          Expects, Under
<1>7. OutputInv' /\ NoLeak'
  BY <1>1, <1>2 DEF NeedToken, PushInv, OutputInv, NoLeak, Top
<1> QED BY <1>4, <1>5, <1>6, <1>7 DEF PushInv

LEMMA ShiftInv == PushInv /\ Shift => PushInv'
<1> SUFFICES ASSUME PushInv, Shift PROVE PushInv'
  OBVIOUS
<1>1. Stack(stack)
  BY TypeStack
<1>2. /\ status = "RUNNING" /\ Len(stack) < MaxDepth
      /\ lookahead # NoToken /\ lookahead \in Expects(stack)
      /\ lookahead' = NoToken /\ stack' = Append(stack, lookahead)
      /\ UNCHANGED <<lexed, variant, output, status, leaked, abandoned>>
  BY DEF Shift, Parsing
<1>3. /\ lookahead = TokenOf(lexed.text) /\ lookahead \in Tokens
      /\ lookahead = "NEWLINE" <=> lexed.text = "NEWLINE"
  <2>1. lexed.text \in Lexemes
    BY DEF PushInv, PushTypeOK, Lexed
  <2> QED BY <1>2, <2>1, TokenFacts DEF PushInv, TokenInv
<1>4. /\ Stack(stack') /\ Len(stack') = Len(stack) + 1
      /\ Top(stack') = lookahead
      /\ \A i \in 1..Len(stack) : stack'[i] = stack[i]
  BY <1>1, <1>2, PushIsStack
<1>5. ~LineRead /\ (LineRead' <=> Top(stack') = "NEWLINE")
  BY <1>2, <1>3, <1>4 DEF LineRead
<1>6. stack # ErrorLine
  BY <1>5, StatusFacts DEF PushInv, TokenInv
<1>7. stack' # InError
  BY <1>3, <1>4, StatusFacts, TokenSymbols
<1>8. stack' = ErrorLine <=> stack = InError
  <2>1. ASSUME stack = InError PROVE stack' = ErrorLine
    <3>1. lookahead = "NEWLINE"
      BY <1>1, <1>2, <2>1, ExpectsIsAbove, AboveOutermost, StatusFacts DEF Top
    <3> QED BY <1>1, <1>4, <2>1, <3>1, ErrorStacks, StatusFacts
  <2>2. ASSUME stack' = ErrorLine PROVE stack = InError
    <3>1. Len(stack') = 4 /\ stack'[3] = "error"
      BY <2>2, StatusFacts
    <3>2. Len(stack) = 3
      <4> DEFINE n == Len(stack)
                 m == Len(stack')
      <4>1. n \in Nat
        BY <1>1 DEF Stack
      <4>2. m = 4
        BY <3>1
      <4>3. m = n + 1
        BY <1>4
      <4> HIDE DEF n, m
      <4>4. n = 3
        BY <4>1, <4>2, <4>3
      <4> QED BY <4>4 DEF n
    <3>3. stack[3] = "error"
      BY <1>4, <3>1, <3>2
    <3> QED BY <1>1, <3>2, <3>3, ErrorStacks DEF Top
  <2> QED BY <2>1, <2>2
<1>9. PushTypeOK'
  <2>1. errstatus' \in 0..3
    BY DEF Shift, PushInv, PushTypeOK
  <2>2. Len(stack') \in 1..MaxDepth
    BY <1>1, <1>2, <1>4, MaxDepthAssumption DEF Stack
  <2> QED BY <1>2, <1>4, <2>1, <2>2 DEF PushInv, PushTypeOK, Stack
<1>10. StackInv'
  <2>1. errstatus' = ErrStatus(stack')
    <3>1. errstatus' = IF errstatus > 0 THEN errstatus - 1 ELSE 0
      BY DEF Shift
    <3>2. errstatus = ErrStatus(stack)
      BY DEF PushInv, StackInv
    <3>3. CASE stack = InError
      BY <1>8, <3>1, <3>2, <3>3, StatusFacts
    <3>4. CASE stack # InError
      BY <1>6, <1>7, <1>8, <3>1, <3>2, <3>4, StatusFacts
    <3> QED BY <3>3, <3>4
  <2>2. Len(stack') >= 3 /\ stack'[3] = "output_variant" => variant' \in Kinds
    <3>1. CASE Len(stack) >= 3
      BY <1>2, <1>4, <3>1 DEF PushInv, StackInv
    <3>2. CASE Len(stack) < 3
      BY <1>1, <1>3, <1>4, <3>2, TokenSymbols DEF Top, Stack
    <3> QED BY <1>1, <3>1, <3>2 DEF Stack
  <2>3. Top(stack') \notin Owning \ Destructors
    BY <1>3, <1>4, TokenSymbols
  <2> QED BY <1>2, <1>4, <2>1, <2>2, <2>3 DEF StackInv, Stack
<1>11. TokenInv'
  <2>1. Top(stack') # "output"
    BY <1>3, <1>4, TokenSymbols
  <2> QED BY <1>1, <1>2, <1>4, <1>5, <2>1 DEF TokenInv, Stack
<1>12. OutputInv' /\ NoLeak'
  BY <1>2, <1>5, <1>6, <1>7, <1>8 DEF PushInv, OutputInv, NoLeak
<1> QED BY <1>9, <1>10, <1>11, <1>12 DEF PushInv

\* A reduction and the symbols the invariant speaks of.
LEMMA ReduceFacts ==
    ASSUME NEW s, Stack(s), NEW r \in Rules, IsHandle(r, s)
    PROVE  LET n == Len(r.rhs)
               t == Append(Pop(s, n), r.lhs)
           IN /\ s # InError
              /\ s = ErrorLine <=> r = ErrorRule
              /\ r = VariantRule => s[3] = "output_variant" /\ Len(s) >= 3
              /\ Top(s) = "NEWLINE" => r \in {ErrorRule, VariantRule}
              /\ r.lhs = "output" => Top(s) = "NEWLINE"
              /\ Top(s) = "output" => r.lhs = "output_list"
              /\ r.lhs = "check" => Top(s) = "variable"
              /\ t \notin {InError, ErrorLine}
<1> DEFINE n == Len(r.rhs)
           p == Pop(s, n)
           t == Append(p, r.lhs)
<1>1. /\ Stack(p) /\ Len(p) = Len(s) - n /\ r.lhs \in Expects(p)
      /\ Stack(t) /\ Len(t) = Len(p) + 1 /\ Top(t) = r.lhs
      /\ \A i \in 1..Len(p) : t[i] = s[i]
      /\ n > 0 => EndOf(r.rhs) = Top(s)
      /\ n > 1 => r.rhs[n - 1] = s[Len(s) - 1]
  BY ReducedStack
<1>2. n \in Nat /\ r.lhs \in Nonterminals
  BY RuleFacts
<1>3. ASSUME n = 0 PROVE p = s
  BY <1>3 DEF Pop, Stack
<1>4. ASSUME n = 0
      PROVE  \E u : r.lhs \in Above(u, Top(s))
  BY <1>1, <1>3, <1>4, ExpectsIsAbove DEF Top
<1> HIDE DEF p, t
<1>5. s # InError
  <2>1. SUFFICES ASSUME Top(s) = "error" PROVE FALSE
    BY StatusFacts
  <2>2. CASE n = 0
    BY <1>2, <1>4, <2>1, <2>2, AboveOutermost, TokenSymbols DEF Nonterminals
  <2>3. CASE n > 0
    BY <1>1, <2>1, <2>3, RuleFacts
  <2> QED BY <1>2, <2>2, <2>3 DEF n
<1>6. Top(s) \in {"NEWLINE", "output"} => n > 0
  BY <1>2, <1>4, AboveFacts DEF n
<1>7. Top(s) = "NEWLINE" => r \in {ErrorRule, VariantRule}
  BY <1>1, <1>6, RuleFacts DEF n
<1>8. r = ErrorRule => Top(s) = "NEWLINE" /\ s[3] = "error" /\ Len(s) >= 3
  <2>1. SUFFICES ASSUME r = ErrorRule
                 PROVE  Top(s) = "NEWLINE" /\ s[3] = "error" /\ Len(s) >= 3
    OBVIOUS
  <2>2. n = 2 /\ EndOf(r.rhs) = "NEWLINE" /\ r.rhs[n - 1] = "error"
    BY <2>1 DEF ErrorRule, Rule, EndOf
  <2>3. Top(s) = "NEWLINE" /\ s[Len(s) - 1] = "error"
    BY <1>1, <2>2
  <2>4. Len(s) \in 1..Len(s) /\ s[Len(s)] = "NEWLINE"
    BY <2>3 DEF Top, Stack
  <2>5. Len(s) = 4
    BY <2>4, OutermostSymbols
  <2> QED BY <2>3, <2>5
<1>9. r = VariantRule =>
        Top(s) = "NEWLINE" /\ s[3] = "output_variant" /\ Len(s) >= 3
  <2>1. SUFFICES ASSUME r = VariantRule
                 PROVE  Top(s) = "NEWLINE" /\ s[3] = "output_variant"
                        /\ Len(s) >= 3
    OBVIOUS
  <2>2. n = 2 /\ EndOf(r.rhs) = "NEWLINE" /\ r.rhs[n - 1] = "output_variant"
    BY <2>1 DEF VariantRule, Rule, EndOf
  <2>3. Top(s) = "NEWLINE" /\ s[Len(s) - 1] = "output_variant"
    BY <1>1, <2>2
  <2>4. Len(s) \in 1..Len(s) /\ s[Len(s)] = "NEWLINE"
    BY <2>3 DEF Top, Stack
  <2>5. Len(s) = 4
    BY <2>4, OutermostSymbols
  <2> QED BY <2>3, <2>5
<1>10. s = ErrorLine <=> r = ErrorRule
  <2>1. r = ErrorRule => s = ErrorLine
    BY <1>8, ErrorStacks
  <2>2. s = ErrorLine => r = ErrorRule
    <3>1. SUFFICES ASSUME s = ErrorLine PROVE r = ErrorRule
      OBVIOUS
    <3>2. Top(s) = "NEWLINE" /\ s[3] = "error"
      BY <3>1, StatusFacts
    <3> QED BY <1>7, <1>9, <3>2
  <2> QED BY <2>1, <2>2
<1>11. r.lhs = "output" => Top(s) = "NEWLINE"
  BY <1>8, <1>9, RuleFacts
<1>12. Top(s) = "output" => r.lhs = "output_list"
  BY <1>1, <1>6, RuleFacts DEF n
<1>13. r.lhs = "check" => Top(s) = "variable"
  BY <1>4, RuleFacts, AboveFacts DEF n
<1>14. t \notin {InError, ErrorLine}
  BY <1>1, <1>2, StatusFacts, TokenSymbols DEF Nonterminals
<1> QED
  BY <1>5, <1>7, <1>9, <1>10, <1>11, <1>12, <1>13, <1>14 DEF p, t

\* The rule of a complete line, told by its right-hand side, and what a rule
\* makes of a line's output.
LEMMA VariantFacts ==
    /\ \A r \in Rules :
          r.rhs = <<"output_variant", "NEWLINE">> <=> r = VariantRule
    /\ VariantRule # ErrorRule
    /\ VariantRule.lhs = "output" /\ ErrorRule.lhs = "output"
    /\ \A r : KindOf(r) \in Kinds
    /\ \A k \in Kinds : [kind |-> k] \in Outputs /\ [kind |-> k] # NoOutput
    /\ \A l \in Lexed : ParseError(l) \in Outputs /\ ParseError(l) # NoOutput
    /\ NoOutput \in Outputs
<1>1. VariantRule # ErrorRule /\ VariantRule.lhs = "output"
      /\ ErrorRule.lhs = "output"
  BY DEF VariantRule, ErrorRule, Rule
<1>2. ASSUME NEW r \in Rules
      PROVE  r.rhs = <<"output_variant", "NEWLINE">> <=> r = VariantRule
  <2>1. r = VariantRule => r.rhs = <<"output_variant", "NEWLINE">>
    BY DEF VariantRule, Rule
  <2>2. ASSUME r.rhs = <<"output_variant", "NEWLINE">> PROVE r = VariantRule
    <3>1. Len(r.rhs) > 0 /\ EndOf(r.rhs) = "NEWLINE" /\ r.rhs[1] # "error"
      BY <2>2 DEF EndOf
    <3>2. r # ErrorRule
      BY <3>1 DEF ErrorRule, Rule
    <3> QED BY <3>1, <3>2, RuleFacts
  <2> QED BY <2>1, <2>2
<1>3. \A r : KindOf(r) \in Kinds
  BY DEF KindOf, Kinds
<1>4. \A k \in Kinds : [kind |-> k] \in Outputs /\ [kind |-> k] # NoOutput
  BY DEF Kinds, Outputs, NoOutput
<1>5. ASSUME NEW l \in Lexed
      PROVE  ParseError(l) \in Outputs /\ ParseError(l) # NoOutput
  <2>1. ParseError(l) \in Outputs
    BY DEF Lexed, ParseError, Outputs
  <2>2. ParseError(l).kind # NoOutput.kind
    BY DEF ParseError, NoOutput
  <2> QED BY <2>1, <2>2
<1> QED BY <1>1, <1>2, <1>3, <1>4, <1>5 DEF Outputs

LEMMA ReduceInv ==
    ASSUME NEW r \in Rules
    PROVE  PushInv /\ Reduce(r) => PushInv'
<1> SUFFICES ASSUME PushInv, Reduce(r) PROVE PushInv'
  OBVIOUS
<1> DEFINE n == Len(r.rhs)
           p == Pop(stack, n)
<1>1. Stack(stack)
  BY TypeStack
<1>2. /\ status = "RUNNING" /\ status' = "RUNNING" /\ Len(stack) < MaxDepth
      /\ Reducible(r) /\ IsHandle(r, stack)
      /\ stack' = Append(p, r.lhs)
      /\ UNCHANGED <<lookahead, lexed, abandoned>>
  BY DEF Reduce, Parsing, Reducible
<1>3. /\ Stack(p) /\ Len(p) = Len(stack) - n
      /\ Stack(stack') /\ Len(stack') = Len(p) + 1 /\ Top(stack') = r.lhs
      /\ \A i \in 1..Len(p) : stack'[i] = stack[i]
  BY <1>1, <1>2, ReducedStack
<1>4. /\ stack # InError
      /\ stack = ErrorLine <=> r = ErrorRule
      /\ r = VariantRule => stack[3] = "output_variant" /\ Len(stack) >= 3
      /\ Top(stack) = "NEWLINE" => r \in {ErrorRule, VariantRule}
      /\ r.lhs = "output" => Top(stack) = "NEWLINE"
      /\ Top(stack) = "output" => r.lhs = "output_list"
      /\ stack' \notin {InError, ErrorLine}
  BY <1>1, <1>2, ReduceFacts
<1>5. n \in Nat /\ r.lhs \in Nonterminals
  BY RuleFacts
<1>6. LineRead' <=> LineRead
  BY <1>2 DEF LineRead
<1>7. r = VariantRule => variant \in Kinds /\ output = NoOutput
  <2>1. r = VariantRule => variant \in Kinds
    BY <1>4 DEF PushInv, StackInv
  <2>2. r = VariantRule => Top(stack) = "NEWLINE" /\ stack # ErrorLine
    BY <1>4, VariantFacts
  <2>3. r = VariantRule => output = NoOutput
    BY <1>2, <1>4, <2>2 DEF PushInv, OutputInv
  <2> QED BY <2>1, <2>3
<1>8. /\ r = VariantRule => output' = [kind |-> variant]
      /\ r # VariantRule => output' = output
      /\ leaked' = {}
  <2>1. leaked = {}
    BY DEF PushInv, NoLeak
  <2>2. CASE r = VariantRule
    BY <1>7, <2>1, <2>2, VariantFacts DEF Reduce, Emits
  <2>3. CASE r # VariantRule
    BY <2>1, <2>3, VariantFacts DEF Reduce
  <2> QED BY <2>2, <2>3
<1> HIDE DEF p, n
<1>9. PushTypeOK'
  <2>1. Len(stack') \in 1..MaxDepth
    BY <1>2, <1>3, <1>5, MaxDepthAssumption DEF Stack
  <2>2. errstatus' \in 0..3
    BY DEF Reduce, Yyerrok, PushInv, PushTypeOK
  <2>3. variant' \in Kinds \cup {"none"}
    BY VariantFacts DEF Reduce, PushInv, PushTypeOK
  <2>4. output' \in Outputs
    BY <1>7, <1>8, VariantFacts DEF PushInv, PushTypeOK
  <2> QED BY <1>2, <1>3, <1>8, <2>1, <2>2, <2>3, <2>4
          DEF PushInv, PushTypeOK, Stack, Statuses
<1>10. StackInv'
  <2>1. errstatus' = ErrStatus(stack')
    <3>1. errstatus = ErrStatus(stack)
      BY DEF PushInv, StackInv
    <3> QED BY <1>4, <3>1, StatusFacts DEF Reduce, Yyerrok
  <2>2. Len(stack') >= 3 /\ stack'[3] = "output_variant" => variant' \in Kinds
    <3>1. SUFFICES ASSUME Len(stack') >= 3, stack'[3] = "output_variant"
                   PROVE  variant' \in Kinds
      OBVIOUS
    <3>2. CASE r.lhs = "output_variant"
      BY <3>2, VariantFacts DEF Reduce
    <3>3. CASE r.lhs # "output_variant"
      <4>1. Len(stack') \in 1..Len(stack') /\ stack'[Len(stack')] = r.lhs
        BY <1>3 DEF Top, Stack
      <4>2. Len(stack') # 3
        BY <3>1, <3>3, <4>1
      <4>3. r.lhs # "output"
        BY <1>3, <4>1, <4>2, OutermostSymbols
      <4>4. Len(p) >= 3 /\ Len(stack) >= 3
        BY <1>1, <1>3, <1>5, <3>1, <4>2 DEF Stack
      <4>5. stack[3] = "output_variant"
        BY <1>3, <3>1, <4>4 DEF Stack
      <4>6. variant' = variant
        BY <3>3, <4>3 DEF Reduce
      <4> QED BY <4>4, <4>5, <4>6 DEF PushInv, StackInv
    <3> QED BY <3>2, <3>3
  <2>3. Len(stack') >= MaxDepth => r.lhs \notin Owning \ Destructors
    <3>1. Len(stack') >= MaxDepth => n = 0
      BY <1>1, <1>2, <1>3, <1>5, MaxDepthAssumption DEF Stack
    <3> QED BY <3>1, RuleFacts DEF n
  <2> QED BY <1>2, <1>3, <2>1, <2>2, <2>3 DEF StackInv, Stack
<1>11. TokenInv'
  <2>1. Top(stack') \in {"NEWLINE", "output"} => LineRead'
    BY <1>3, <1>4, <1>5, <1>6, TokenSymbols
       DEF PushInv, TokenInv, Nonterminals
  <2>2. LineRead' => Top(stack') \in {"output", "output_list"}
    <3>1. LineRead => Top(stack) \in {"NEWLINE", "output", "output_list"}
      BY DEF PushInv, TokenInv
    <3>2. LineRead => Top(stack) # "output_list"
      <4>1. LineRead => ~NeedsLookahead(stack)
        BY <1>2 DEF LineRead, Reducible
      <4>2. Top(stack) = "output_list" => NeedsLookahead(stack)
        BY <1>1, ExpectsIsAbove, AboveOutermost DEF NeedsLookahead, Top
      <4> QED BY <4>1, <4>2
    <3> QED BY <1>3, <1>4, <1>6, <3>1, <3>2, VariantFacts
  <2>3. Len(stack') # 1
    BY <1>3 DEF Stack
  <2> QED BY <1>2, <2>1, <2>2, <2>3 DEF PushInv, TokenInv
<1>12. OutputInv' /\ NoLeak'
  <2>1. Top(stack') # "NEWLINE"
    BY <1>3, <1>5, TokenSymbols DEF Tokens
  <2>2. Top(stack) = "NEWLINE" => LineRead
    BY DEF PushInv, TokenInv
  <2>3. output' # NoOutput => LineRead'
    <3>1. CASE r \in {VariantRule, ErrorRule}
      BY <1>4, <1>6, <2>2, <3>1, VariantFacts
    <3>2. CASE r \notin {VariantRule, ErrorRule}
      BY <1>2, <1>4, <1>6, <1>8, <3>2 DEF PushInv, OutputInv
    <3> QED BY <3>1, <3>2
  <2>4. ~abandoned' /\ output' = NoOutput => ~LineRead'
    <3>1. CASE r = VariantRule
      BY <1>7, <1>8, <3>1, VariantFacts
    <3>2. CASE r # VariantRule
      BY <1>2, <1>4, <1>6, <1>8, <3>2 DEF PushInv, OutputInv
    <3> QED BY <3>1, <3>2
  <2> QED BY <1>2, <1>4, <1>8, <2>1, <2>3, <2>4 DEF OutputInv, NoLeak
<1> QED BY <1>9, <1>10, <1>11, <1>12 DEF PushInv

\* Error recovery, from a line with nothing to lose: what it pops has a
\* destructor, and the line has no output before the first error nor after a
\* newline.
LEMMA RecoversInv ==
    /\ PushInv /\ Parsing /\ Recovers
    /\ Len(stack) >= 2 /\ Popped = {}
    /\ ~LineRead /\ ~LineRead'
    /\ lookahead' \in {lookahead, NoToken} /\ variant' = "none"
    /\ \/ stack \notin {InError, ErrorLine} /\ Emits(ParseError(lexed), Popped)
       \/ stack = InError /\ leaked' = leaked \cup Popped /\ UNCHANGED output
    /\ UNCHANGED <<lexed, status, abandoned>>
    => PushInv'
<1> SUFFICES
      ASSUME PushInv, Parsing, Recovers, Len(stack) >= 2, Popped = {},
             ~LineRead, ~LineRead', lookahead' \in {lookahead, NoToken},
             variant' = "none",
             \/ stack \notin {InError, ErrorLine}
                /\ Emits(ParseError(lexed), Popped)
             \/ stack = InError /\ leaked' = leaked \cup Popped
                /\ UNCHANGED output,
             UNCHANGED <<lexed, status, abandoned>>
      PROVE  PushInv'
  OBVIOUS
<1>1. Stack(stack)
  BY TypeStack
<1>2. /\ stack' = InError /\ Stack(stack') /\ Len(stack') = 3
      /\ Top(stack') = "error" /\ stack'[3] = "error"
      /\ errstatus' = 3 /\ ErrStatus(stack') = 3
      /\ status = "RUNNING" /\ status' = "RUNNING"
  BY <1>1, AfterRecovery, StatusFacts DEF Recovers, Parsing
<1>3. /\ leaked' = {} /\ output' \in Outputs
      /\ ~abandoned => output' # NoOutput
  <2>1. leaked = {} /\ output \in Outputs /\ lexed \in Lexed
    BY DEF PushInv, NoLeak, PushTypeOK
  <2>2. CASE stack = InError
    BY <2>1, <2>2 DEF PushInv, OutputInv
  <2>3. CASE stack \notin {InError, ErrorLine}
    <3>1. output = NoOutput
      BY <1>2, <2>3 DEF PushInv, OutputInv
    <3>2. output' = ParseError(lexed) /\ leaked' = {}
      BY <2>1, <2>3, <3>1 DEF Emits
    <3> QED BY <2>1, <3>2, VariantFacts
  <2> QED BY <2>1, <2>2, <2>3
<1>4. PushTypeOK'
  <2>1. Len(stack') \in 1..MaxDepth
    BY <1>2, MaxDepthAssumption
  <2> QED BY <1>2, <1>3, <2>1 DEF PushInv, PushTypeOK, Stack, Statuses
<1>5. StackInv'
  BY <1>2, MaxDepthAssumption DEF StackInv, Stack
<1>6. TokenInv'
  BY <1>2 DEF PushInv, TokenInv
<1>7. OutputInv' /\ NoLeak'
  BY <1>2, <1>3 DEF OutputInv, NoLeak
<1> QED BY <1>4, <1>5, <1>6, <1>7 DEF PushInv

\* What recovery pops of a stack has a destructor, if its top has.
LEMMA NothingUnfreed ==
    ASSUME NEW s, Stack(s), NEW n \in Nat, Top(s) \notin Owning \ Destructors
    PROVE  Unfreed(s, n) = {}
<1>1. ASSUME NEW i \in (n + 1)..Len(s) PROVE s[i] \notin Owning \ Destructors
  <2>1. i \in 1..Len(s)
    BY DEF Stack
  <2>2. CASE i = Len(s)
    BY <2>2 DEF Top
  <2>3. CASE i # Len(s)
    <3>1. i < Len(s)
      BY <2>1, <2>3 DEF Stack
    <3> QED BY <2>1, <3>1, OutermostSymbols
  <2> QED BY <2>2, <2>3
<1> QED BY <1>1 DEF Unfreed

LEMMA RejectPromptInv ==
    ASSUME NEW r \in Rules
    PROVE  PushInv /\ RejectPrompt(r) => PushInv'
<1> SUFFICES ASSUME PushInv, RejectPrompt(r) PROVE PushInv'
  OBVIOUS
<1>1. Stack(stack) /\ IsHandle(r, stack) /\ r.lhs = "check"
  BY TypeStack DEF RejectPrompt, Reducible, ChecksPrompt
<1>2. Top(stack) = "variable" /\ stack # InError /\ stack # ErrorLine
  BY <1>1, ReduceFacts, StatusFacts
<1>3. Len(stack) >= 2
  <2>1. Len(stack) # 1
    BY <1>1, <1>2, OutermostSymbols DEF Top
  <2> QED BY <1>1, <2>1, StackLength
<1>4. Popped = {}
  BY <1>1, <1>2, <1>3, NothingUnfreed, RecoveryIsAtOutputList
     DEF Popped, Owning, Destructors
<1>5. ~LineRead /\ ~LineRead'
  BY <1>2 DEF PushInv, TokenInv, RejectPrompt, LineRead
<1> QED BY <1>2, <1>3, <1>4, <1>5, RecoversInv DEF RejectPrompt

LEMMA SyntaxErrorInv == PushInv /\ SyntaxError => PushInv'
<1> SUFFICES ASSUME PushInv, SyntaxError PROVE PushInv'
  OBVIOUS
<1>1. /\ Stack(stack) /\ NeedsLookahead(stack)
      /\ lookahead # NoToken /\ lookahead \notin Expects(stack)
  BY TypeStack DEF SyntaxError
<1>2. Top(stack) \notin {"NEWLINE", "output"} \cup (Owning \ Destructors)
  BY <1>1, WaitingStack
<1>3. Len(stack) >= 2
  <2>1. Len(stack) # 1
    <3>1. Len(stack) = 1 => Expects(stack) = {"output_list"}
      BY <1>1, ExpectsIsAbove, AboveOutermost, OutermostSymbols
    <3> QED BY <1>1, <3>1, TokenSymbols DEF NeedsLookahead
  <2> QED BY <1>1, <2>1, StackLength
<1>4. Popped = {}
  BY <1>1, <1>2, <1>3, NothingUnfreed, RecoveryIsAtOutputList DEF Popped
<1>5. stack # ErrorLine /\ (stack # InError <=> errstatus = 0)
      /\ (stack = InError <=> errstatus = 3)
  BY <1>2, StatusFacts DEF PushInv, StackInv
<1>6. ~LineRead /\ ~LineRead'
  <2>1. stack = InError => lookahead # "NEWLINE"
    <3>1. stack = InError => "NEWLINE" \in Expects(stack)
      BY <1>1, ExpectsIsAbove, AboveOutermost, StatusFacts DEF Top
    <3> QED BY <1>1, <3>1
  <2>2. lookahead = TokenOf(lexed.text) /\ lexed.text \in Lexemes
    BY <1>1 DEF PushInv, TokenInv, PushTypeOK, Lexed
  <2>3. lexed.text = "NEWLINE" => lookahead = "NEWLINE"
    BY <2>2, TokenFacts
  <2> QED BY <1>1, <1>5, <2>1, <2>3
          DEF SyntaxError, LookaheadAfterError, LineRead
<1> QED BY <1>3, <1>4, <1>5, <1>6, RecoversInv
       DEF SyntaxError, LookaheadAfterError

LEMMA ExhaustedInv == PushInv /\ Exhausted => PushInv'
<1> SUFFICES ASSUME PushInv, Exhausted PROVE PushInv'
  OBVIOUS
<1>1. Stack(stack) /\ Len(stack) >= 6 /\ status = "RUNNING"
  BY TypeStack, MaxDepthAssumption DEF Exhausted, Stack
<1>2. Unfreed(stack, 1) = {}
  BY <1>1, NothingUnfreed DEF Exhausted, PushInv, StackInv
<1>3. output = NoOutput
  <2>1. stack \notin {InError, ErrorLine}
    <3>1. ~(3 >= 6) /\ ~(4 >= 6)
      OBVIOUS
    <3>2. stack # InError
      BY <1>1, <3>1, StatusFacts
    <3>3. stack # ErrorLine
      BY <1>1, <3>1, StatusFacts
    <3> QED BY <3>2, <3>3
  <2>2. Top(stack) \notin {"NEWLINE", "output", "output_list"}
    <3>1. Len(stack) \in 1..Len(stack)
      BY <1>1 DEF Stack
    <3> QED BY <1>1, <3>1, OutermostSymbols DEF Top
  <2> QED BY <1>1, <2>1, <2>2 DEF PushInv, OutputInv, TokenInv
<1>4. output' = ParseError(lexed) /\ leaked' = {}
  BY <1>2, <1>3 DEF Exhausted, Emits, PushInv, NoLeak
<1>5. output' \in Outputs /\ output' # NoOutput
  BY <1>4, VariantFacts DEF PushInv, PushTypeOK
<1>6. /\ stack' = <<"bottom">> /\ Stack(stack') /\ Len(stack') = 1
      /\ Top(stack') = "bottom" /\ stack' \notin {InError, ErrorLine}
      /\ lookahead' = NoToken /\ status' = "NOMEM" /\ errstatus' = 0
      /\ variant' = "none" /\ UNCHANGED <<lexed, abandoned>>
  BY InitialStack, StatusFacts DEF Exhausted, Top
<1>7. PushTypeOK'
  <2>1. Len(stack') \in 1..MaxDepth
    BY <1>6, MaxDepthAssumption
  <2> QED BY <1>4, <1>5, <1>6, <2>1 DEF PushInv, PushTypeOK, Stack, Statuses
<1>8. StackInv'
  BY <1>6, StatusFacts, MaxDepthAssumption DEF StackInv, Stack
<1>9. TokenInv' /\ OutputInv' /\ NoLeak'
  BY <1>4, <1>5, <1>6 DEF TokenInv, OutputInv, NoLeak, LineRead
<1> QED BY <1>7, <1>8, <1>9 DEF PushInv

LEMMA StutterInv == PushInv /\ UNCHANGED pushVars => PushInv'
<1> SUFFICES ASSUME PushInv, UNCHANGED pushVars PROVE PushInv'
  OBVIOUS
<1>1. PushTypeOK'
  BY DEF PushInv, PushTypeOK, pushVars
<1>2. StackInv'
  BY DEF PushInv, StackInv, pushVars, Shaped, ErrStatus, Top
<1>3. TokenInv'
  BY DEF PushInv, TokenInv, pushVars, NeedsLookahead, Expects, Under, Top,
         LineRead
<1>4. OutputInv' /\ NoLeak'
  BY DEF PushInv, OutputInv, NoLeak, pushVars, LineRead, Top
<1> QED BY <1>1, <1>2, <1>3, <1>4 DEF PushInv

-----------------------------------------------------------------------------
(* The theorems.                                                           *)

LEMMA PushInvStep == PushInv /\ [PushNext]_pushVars => PushInv'
<1> SUFFICES ASSUME PushInv, [PushNext]_pushVars PROVE PushInv'
  OBVIOUS
<1>1. CASE BeginLine
  BY <1>1, BeginLineInv
<1>2. ASSUME NEW x \in Lexemes, NEW p \in Positions, GiveToken(x, p)
      PROVE  PushInv'
  BY <1>2, GiveTokenInv
<1>3. CASE Shift
  BY <1>3, ShiftInv
<1>4. ASSUME NEW r \in Rules, Reduce(r) PROVE PushInv'
  BY <1>4, ReduceInv
<1>5. ASSUME NEW r \in Rules, RejectPrompt(r) PROVE PushInv'
  BY <1>5, RejectPromptInv
<1>6. CASE SyntaxError
  BY <1>6, SyntaxErrorInv
<1>7. CASE NeedToken
  BY <1>7, NeedTokenInv
<1>8. CASE Exhausted
  BY <1>8, ExhaustedInv
<1>9. CASE UNCHANGED pushVars
  BY <1>9, StutterInv
<1> QED BY <1>1, <1>2, <1>3, <1>4, <1>5, <1>6, <1>7, <1>8, <1>9
        DEF PushNext, PushStep

\* The inductive invariant of the push parser, whatever tokens the lexer
\* hands to gdbwire_mi_push_parse and wherever parse_line breaks off.
THEOREM Invariance == PushSpec => []PushInv
BY InitInv, PushInvStep, PTL DEF PushSpec

\* The parser's stack never holds more than YYMAXDEPTH states, every error
\* names a token the lexer returned, and the rest has its type.
THEOREM TypeCorrectness == PushSpec => []PushTypeOK
<1>1. PushInv => PushTypeOK
  BY DEF PushInv
<1> QED BY Invariance, <1>1, PTL

\* A stack that waits for the token after a newline is the one every line
\* begins with.
LEMMA StackAfterNewline ==
    ASSUME NEW s, Stack(s), Top(s) = "output_list"
    PROVE  s = <<"bottom", "output_list">>
<1>1. Len(s) = 2
  <2>1. Len(s) \in 1..Len(s)
    BY DEF Stack
  <2> QED BY <2>1, OutermostSymbols DEF Top
<1>2. s = <<s[1], s[2]>>
  BY <1>1 DEF Stack
<1> QED BY <1>1, <1>2, OutermostSymbols

LEMMA ResyncOfInv == PushInv => Resync
<1> SUFFICES ASSUME PushInv, status = "MORE", lexed.text = "NEWLINE"
             PROVE  stack = <<"bottom", "output_list">> /\ errstatus = 0
  BY DEF Resync
<1>1. Stack(stack)
  BY TypeStack
<1>2. LineRead /\ NeedsLookahead(stack)
  BY DEF PushInv, TokenInv, LineRead
<1>3. Top(stack) = "output_list"
  BY <1>1, <1>2, WaitingStack DEF PushInv, TokenInv
<1>4. stack = <<"bottom", "output_list">>
  BY <1>1, <1>3, StackAfterNewline
<1>5. stack \notin {InError, ErrorLine}
  BY <1>3, StatusFacts
<1> QED BY <1>4, <1>5, StatusFacts DEF PushInv, StackInv

\* When the newline of a line has been parsed, the parser is in the state it
\* began the line in, whatever was wrong with the line and however deep in it
\* the error was.
THEOREM Resynchronises == PushSpec => []Resync
BY Invariance, ResyncOfInv, PTL

LEMMA OutputOfInv == PushInv => LineHasOutput
<1> SUFFICES ASSUME PushInv, status = "MORE", lexed.text = "NEWLINE",
                    ~abandoned
             PROVE  output # NoOutput
  BY DEF LineHasOutput
<1>1. LineRead /\ NeedsLookahead(stack)
  BY DEF PushInv, TokenInv, LineRead
<1>2. Top(stack) # "NEWLINE"
  BY <1>1, TypeStack, WaitingStack
<1> QED BY <1>1, <1>2 DEF PushInv, OutputInv

\* gdbwire_mi_parser_parse_line's assertion on its output holds after every
\* newline the parser accepts, unless an earlier line was left half parsed.
THEOREM EveryLineHasOutput == PushSpec => []LineHasOutput
BY Invariance, OutputOfInv, PTL

\* The %destructor directives are complete: no parse, no error and no stack
\* exhaustion loses a heap value, and no second output overwrites a first.
THEOREM NothingLeaks == PushSpec => []NoLeak
<1>1. PushInv => NoLeak
  BY DEF PushInv
<1> QED BY Invariance, <1>1, PTL

-----------------------------------------------------------------------------
(* How deep a line can be.                                                 *)

OnEmpty(s) == IF Top(s) \in Empties THEN 1 ELSE 0

\* A reduction makes the stack higher only for one of them, and it never puts
\* two of them on top of each other.
LEMMA ReducedDepth ==
    ASSUME NEW s, Stack(s), NEW r \in Rules, IsHandle(r, s)
    PROVE  LET t == Append(Pop(s, Len(r.rhs)), r.lhs)
           IN Len(t) <= 3 \/ Len(t) + OnEmpty(s) <= Len(s) + OnEmpty(t)
<1> DEFINE n == Len(r.rhs)
           t == Append(Pop(s, n), r.lhs)
<1> SUFFICES Len(t) <= 3 \/ Len(t) + OnEmpty(s) <= Len(s) + OnEmpty(t)
  OBVIOUS
<1>1. /\ Len(s) \in Nat /\ Len(s) >= 1 /\ n \in Nat /\ n < Len(s)
      /\ Len(t) = Len(s) - n + 1 /\ Top(t) = r.lhs
      /\ n > 0 => EndOf(r.rhs) = Top(s)
      /\ n = 0 => r.lhs \in Expects(s)
  <2>1. Len(s) \in Nat /\ Len(s) >= 1 /\ n \in Nat
    BY RuleFacts DEF Stack
  <2> QED BY <2>1, ReducedStack, HandleFacts
<1>2. CASE n = 0
  <2>1. r.lhs \in {"output_list", "check", "opt_variable", "opt_token"}
    BY <1>2, RuleEnds
  <2>2. r.lhs \in Expects(s)
    BY <1>1, <1>2
  <2>3. CASE r.lhs = "output_list"
    <3>1. s[Len(s)] = "bottom"
      BY <2>2, <2>3, ExpectsIsAbove, AboveMakes
    <3>2. Len(s) = 1
      <4>1. Len(s) \in 1..Len(s)
        BY <1>1
      <4> QED BY <3>1, <4>1, OutermostSymbols
    <3> HIDE DEF t, n
    <3> QED BY <1>1, <1>2, <3>2
  <2>4. CASE r.lhs # "output_list"
    <3>1. Top(s) \notin Empties
      BY <2>1, <2>2, <2>4, ExpectsIsAbove, AboveMakes DEF Empties, Top
    <3>2. OnEmpty(s) = 0 /\ OnEmpty(t) = 1
      BY <1>1, <2>1, <2>4, <3>1 DEF OnEmpty, Empties
    <3> HIDE DEF t, n
    <3> QED BY <1>1, <1>2, <3>2
  <2> QED BY <2>3, <2>4
<1>3. CASE n > 0
  <2>1. EndOf(r.rhs) \notin Empties
    BY <1>3, RuleEnds DEF EndFacts, Openers
  <2>2. OnEmpty(s) = 0 /\ OnEmpty(t) \in {0, 1}
    BY <1>1, <1>3, <2>1 DEF OnEmpty
  <2> HIDE DEF t, n
  <2> QED BY <1>1, <1>3, <2>2
<1> HIDE DEF t, n
<1> QED BY <1>1, <1>2, <1>3

\* Every token makes room for at most one of them: what a line takes of the
\* stack is at most twice the tokens shifted, and the stack is exhausted only
\* by a line with half as many tokens as the stack has states.
LEMMA StepDepth ==
    ASSUME PushInv, PushStep, NEW k \in Nat,
           Len(stack) <= 3 + OnEmpty(stack) + 2 * k
    PROVE  /\ lookahead = NoToken => lookahead' = NoToken
           /\ IF lookahead' = lookahead
              THEN Len(stack') <= 3 + OnEmpty(stack') + 2 * k
              ELSE Len(stack') <= 3 + OnEmpty(stack') + 2 * (k + 1)
           /\ status' = "NOMEM" => MaxDepth <= 4 + 2 * k
<1>1. /\ Stack(stack) /\ Len(stack) \in Nat /\ MaxDepth \in Nat
      /\ OnEmpty(stack) \in {0, 1} /\ OnEmpty(stack') \in {0, 1}
      /\ lookahead \in {NoToken, TokenOf(lexed.text)}
      /\ lexed.text \in Lexemes
  BY TypeStack, MaxDepthAssumption
     DEF Stack, OnEmpty, PushInv, PushTypeOK, TokenInv, Lexed
<1> DEFINE e == OnEmpty(stack)
           f == OnEmpty(stack')
<1> HIDE DEF e, f
<1>0. e \in {0, 1} /\ f \in {0, 1} /\ Len(stack) <= 3 + e + 2 * k
  BY <1>1 DEF e, f
<1>2. CASE Shift
  <2>1. /\ lookahead \in Expects(stack) /\ stack' = Append(stack, lookahead)
        /\ status' = "RUNNING"
        /\ lookahead # NoToken /\ lookahead' = NoToken
    BY <1>2 DEF Shift, Parsing
  <2>2. Len(stack') = Len(stack) + 1
    BY <1>1, <2>1, PushIsStack
  <2> QED BY <1>1, <1>0, <2>1, <2>2
<1>3. ASSUME NEW r \in Rules, Reduce(r)
      PROVE  /\ Len(stack') \in Nat
             /\ Len(stack') <= 3 + f + 2 * k
             /\ lookahead' = lookahead /\ status' = "RUNNING"
  <2>1. /\ IsHandle(r, stack) /\ lookahead' = lookahead /\ status' = "RUNNING"
        /\ stack' = Append(Pop(stack, Len(r.rhs)), r.lhs)
    BY <1>3 DEF Reduce, Reducible, Parsing
  <2>2. \/ Len(stack') <= 3
        \/ Len(stack') + e <= Len(stack) + f
    BY <1>1, <2>1, ReducedDepth DEF e, f
  <2>3. Len(stack') \in Nat
    BY <1>1, <2>1, ReducedStack DEF Stack
  <2> QED BY <1>1, <1>0, <2>1, <2>2, <2>3
<1>4. ASSUME Recovers PROVE Len(stack') = 3
  <2>1. PICK n \in 1..Len(stack) : "error" \in Expects(SubSeq(stack, 1, n))
    BY <1>4 DEF Recovers, RecoveryPoints
  <2>2. n # 1
    <3> DEFINE p == SubSeq(stack, 1, n)
    <3>1. ASSUME n = 1 PROVE Expects(p) = {"output_list"}
      <4>1. Stack(p) /\ Len(p) = 1 /\ p[1] = "bottom"
        BY <1>1, <3>1, PrefixIsStack, OutermostSymbols
      <4> HIDE DEF p
      <4> QED BY <4>1, ExpectsIsAbove, AboveOutermost
    <3> QED BY <2>1, <3>1
  <2>3. Len(stack) >= 2
    BY <1>1, <2>1, <2>2
  <2> QED BY <1>1, <1>4, <2>3, AfterRecovery, StatusFacts DEF Recovers
<1>5. ASSUME NEW r \in Rules, RejectPrompt(r)
      PROVE  /\ Len(stack') <= 3 + f + 2 * k
             /\ lookahead' = lookahead /\ status' = "RUNNING"
  <2>1. Recovers /\ lookahead' = lookahead /\ status' = "RUNNING"
    BY <1>5 DEF RejectPrompt, Parsing
  <2>2. Len(stack') = 3
    BY <1>4, <2>1, Zenon
  <2> QED BY <1>0, <2>1, <2>2
<1>6. CASE SyntaxError
  <2>1. /\ Recovers /\ lookahead' \in {lookahead, NoToken}
        /\ lookahead # NoToken /\ status' = "RUNNING"
    BY <1>6 DEF SyntaxError, Parsing, LookaheadAfterError
  <2>2. Len(stack') = 3
    BY <1>4, <2>1, Zenon
  <2> QED BY <1>0, <2>1, <2>2 DEF f
<1>7. CASE NeedToken
  BY <1>1, <1>7 DEF NeedToken
<1>8. CASE Exhausted
  <2>1. /\ Len(stack) >= MaxDepth /\ stack' = <<"bottom">>
        /\ lookahead' = NoToken
    BY <1>8 DEF Exhausted
  <2>2. Len(stack') = 1
    BY <2>1
  <2> QED BY <1>1, <1>0, <2>1, <2>2 DEF f
<1> QED BY <1>2, <1>3, <1>5, <1>6, <1>7, <1>8 DEF PushStep, f
=============================================================================
