--------------------------- MODULE MiLexerProofs ---------------------------
(***************************************************************************)
(* Theorems about the lexer, for every text and every line: its columns    *)
(* tile the text, a line ends in its only newline token, and a string that *)
(* GDB writes on a line is what the client gets, however long it is.       *)
(*                                                                         *)
(* Induction is by a least counterexample: a set of naturals that is not   *)
(* empty has a least element (Least).  What a recursive function computes  *)
(* is the solution of its equation, once a solution is known to exist      *)
(* (BodyIs, FromIs, Flattening).                                           *)
(***************************************************************************)
EXTENDS MiStrings, WellFoundedInduction, TLAPS

-----------------------------------------------------------------------------
(* The match of flex exists.                                               *)

\* A set of naturals has a least element: a finite set of matches has a
\* longest one.
LEMMA Least ==
    ASSUME NEW T \in SUBSET Nat, T # {}
    PROVE  \E x \in T : \A y \in T : x <= y
<1> DEFINE R == OpToRel(<, Nat)
<1>1. IsWellFoundedOn(R, Nat)
  BY NatLessThanWellFounded DEF R
<1>2. \A x, y \in Nat : y < x => <<y, x>> \in R
  BY DEF OpToRel
<1> HIDE DEF R
<1>3. PICK x \in T : \A y \in T : ~ (<<y, x>> \in R)
  BY <1>1, WFMin
<1>4. ASSUME NEW y \in T PROVE x <= y
  <2>1. ~ (y < x)
    BY <1>2, <1>3, Zenon
  <2> QED BY <2>1
<1> QED BY <1>4

LEMMA PatternsSeq ==
    /\ Len(Patterns) = 7
    /\ Patterns[1] = "punctuation" /\ Patterns[2] = "newline"
    /\ Patterns[3] = "integer" /\ Patterns[4] = "white"
    /\ Patterns[5] = "identifier" /\ Patterns[6] = "any"
    /\ Patterns[7] = "cstring"
BY DEF Patterns

LEMMA PrefixProps ==
    ASSUME NEW s \in Seq(Chars), NEW n \in 1..Len(s)
    PROVE  /\ SubSeq(s, 1, n) \in Seq(Chars)
           /\ Len(SubSeq(s, 1, n)) = n
           /\ \A i \in 1..n : SubSeq(s, 1, n)[i] = s[i]
OBVIOUS

LEMMA ShortSeqs ==
    ASSUME NEW s \in Seq(Chars)
    PROVE  /\ Len(s) = 1 => s = <<s[1]>>
           /\ Len(s) = 2 => s = <<s[1], s[2]>>
OBVIOUS

LEMMA ShortPrefixes ==
    ASSUME NEW s \in Seq(Chars)
    PROVE  /\ Len(s) >= 1 => SubSeq(s, 1, 1) = <<s[1]>>
           /\ Len(s) >= 2 => SubSeq(s, 1, 2) = <<s[1], s[2]>>
<1> DEFINE one == SubSeq(s, 1, 1)
           two == SubSeq(s, 1, 2)
<1>1. Len(s) >= 1 => one \in Seq(Chars) /\ Len(one) = 1 /\ one[1] = s[1]
  BY PrefixProps
<1>2. Len(s) >= 2 => /\ two \in Seq(Chars) /\ Len(two) = 2
                     /\ two[1] = s[1] /\ two[2] = s[2]
  <2> SUFFICES ASSUME Len(s) >= 2
               PROVE  /\ two \in Seq(Chars) /\ Len(two) = 2
                      /\ two[1] = s[1] /\ two[2] = s[2]
    OBVIOUS
  <2>1. 2 \in 1..Len(s)
    OBVIOUS
  <2> QED BY <2>1, PrefixProps
<1> HIDE DEF one, two
<1>3. (Len(s) >= 1 => one = <<s[1]>>) /\ (Len(s) >= 2 => two = <<s[1], s[2]>>)
  BY <1>1, <1>2, ShortSeqs
<1> QED BY <1>3 DEF one, two

LEMMA LastElement ==
    ASSUME NEW S, NEW s \in Seq(S), Len(s) # 0
    PROVE  s[Len(s)] \in S
<1>1. Len(s) \in 1..Len(s)
  OBVIOUS
<1> QED BY <1>1

\* Some pattern matches whatever comes next: flex's default rule is never used.
LEMMA SomethingMatches ==
    ASSUME NEW s \in Seq(Chars), s # << >>
    PROVE  Matching(s) # {}
<1> DEFINE one == SubSeq(s, 1, 1)
<1>1. 1 \in 1..Len(s)
  OBVIOUS
<1>2. Len(one) = 1 /\ one[1] = s[1] /\ one \in Seq(Chars)
  BY <1>1, PrefixProps
<1>3. CASE s[1] = "LF"
  <2>1. one = <<"LF">>
    <3> HIDE DEF one
    <3> QED BY <1>2, <1>3, ShortSeqs
  <2>2. Matches("newline", one)
    BY <2>1 DEF Matches, IsNewline
  <2>3. <<1, 2>> \in Matching(s)
    BY <1>1, <2>2, PatternsSeq DEF Matching
  <2> QED BY <2>3
<1>4. CASE s[1] # "LF"
  <2>1. Matches("any", one)
    BY <1>2, <1>4 DEF Matches
  <2>2. <<1, 6>> \in Matching(s)
    BY <1>1, <2>1, PatternsSeq DEF Matching
  <2> QED BY <2>2
<1> QED BY <1>3, <1>4

Longest(m, s) ==
    \A o \in Matching(s) : m[1] > o[1] \/ (m[1] = o[1] /\ m[2] <= o[2])

LEMMA MatchingType ==
    ASSUME NEW s \in Seq(Chars), NEW m \in Matching(s)
    PROVE  /\ m = <<m[1], m[2]>>
           /\ m[1] \in 1..Len(s) /\ m[2] \in 1..7
           /\ Matches(Patterns[m[2]], SubSeq(s, 1, m[1]))
BY PatternsSeq DEF Matching

LEMMA MatchIsLongest ==
    ASSUME NEW s \in Seq(Chars), s # << >>
    PROVE  Match(s) \in Matching(s) /\ Longest(Match(s), s)
<1> DEFINE shortBy == {k \in Nat : \E o \in Matching(s) : k = Len(s) - o[1]}
<1>1. shortBy # {}
  <2>1. PICK o \in Matching(s) : TRUE
    BY SomethingMatches
  <2>2. Len(s) - o[1] \in Nat
    BY <2>1, MatchingType
  <2> QED BY <2>1, <2>2
<1>2. PICK k \in shortBy : \A j \in shortBy : k <= j
  <2> HIDE DEF shortBy
  <2> SUFFICES shortBy \in SUBSET Nat
    BY <1>1, Least
  <2> QED BY DEF shortBy
<1>3. PICK longest \in Matching(s) : k = Len(s) - longest[1]
  BY <1>2
<1> DEFINE rules == {p \in Nat : <<longest[1], p>> \in Matching(s)}
<1>4. rules # {}
  <2>1. longest = <<longest[1], longest[2]>> /\ longest[2] \in Nat
    BY <1>3, MatchingType
  <2> QED BY <2>1, <1>3
<1>5. PICK p \in rules : \A q \in rules : p <= q
  <2> HIDE DEF rules
  <2> SUFFICES rules \in SUBSET Nat
    BY <1>4, Least
  <2> QED BY DEF rules
<1> DEFINE m == <<longest[1], p>>
<1>6. m \in Matching(s)
  BY <1>5
<1>7. Longest(m, s)
  <2> SUFFICES ASSUME NEW o \in Matching(s), ~ (m[1] > o[1])
               PROVE  m[1] = o[1] /\ m[2] <= o[2]
    BY DEF Longest
  <2>1. o = <<o[1], o[2]>> /\ o[1] \in 1..Len(s) /\ o[2] \in 1..7
    BY MatchingType
  <2>2. longest[1] \in 1..Len(s)
    BY MatchingType
  <2>3. Len(s) - o[1] \in shortBy
    BY <2>1
  <2>4. k <= Len(s) - o[1]
    BY <1>2, <2>3
  <2>5. longest[1] = o[1]
    BY <1>3, <2>1, <2>2, <2>4
  <2>6. o[2] \in rules
    BY <2>1, <2>5
  <2> QED BY <1>5, <2>5, <2>6
<1> HIDE DEF m
<1> QED BY <1>6, <1>7 DEF Match, Longest

-----------------------------------------------------------------------------
(* A step of the lexer.                                                    *)

LInv ==
    /\ TypeOK
    /\ column = at + 1
    /\ ColumnsTile

\* What is matched next.
LEMMA LexProps ==
    ASSUME LInv, at < Len(text)
    PROVE  /\ Rest \in Seq(Chars) /\ Rest # << >>
           /\ Len(Rest) = Len(text) - at
           /\ \A i \in 1..Len(Rest) : Rest[i] = text[at + i]
           /\ Match(Rest) \in Matching(Rest) /\ Longest(Match(Rest), Rest)
           /\ Match(Rest)[1] \in 1..(Len(text) - at)
           /\ Match(Rest)[2] \in 1..7
           /\ Matches(Patterns[Match(Rest)[2]], SubSeq(Rest, 1, Match(Rest)[1]))
<1>1. /\ Rest \in Seq(Chars) /\ Len(Rest) = Len(text) - at /\ Len(Rest) > 0
      /\ \A i \in 1..Len(Rest) : Rest[i] = text[at + i]
  BY DEF LInv, TypeOK, Rest
<1>2. Match(Rest) \in Matching(Rest) /\ Longest(Match(Rest), Rest)
  BY <1>1, MatchIsLongest
<1> HIDE DEF Matching
<1>3. /\ Match(Rest)[1] \in 1..Len(Rest) /\ Match(Rest)[2] \in 1..7
      /\ Matches(Patterns[Match(Rest)[2]], SubSeq(Rest, 1, Match(Rest)[1]))
  BY <1>1, <1>2, MatchingType
<1> QED BY <1>1, <1>2, <1>3

Kinds ==
    {Punctuation(c) : c \in PunctuationChars} \cup
    {"NEWLINE", "INTEGER_LITERAL", "STRING_LITERAL", "CSTRING"}

\* Every pattern but the one of white space returns a token.
LEMMA ReturnsToken ==
    ASSUME NEW p \in 1..7, NEW s, Matches(Patterns[p], s)
    PROVE  /\ p = 4 => /\ Returns(Patterns[p], s) = NoToken
                       /\ Len(s) = 1 /\ s[1] \in Whitespace
           /\ p # 4 => Returns(Patterns[p], s) \in Kinds
           /\ Returns(Patterns[p], s) = "NEWLINE" <=> p = 2
           /\ Returns(Patterns[p], s) = "CSTRING" <=> p = 7
           /\ NoToken \notin Kinds
<1> DEFINE names == {Punctuation(c) : c \in PunctuationChars}
<1>1. \A c \in PunctuationChars : Punctuation(c) \notin {"NEWLINE", "CSTRING", NoToken}
  BY DEF PunctuationChars, Punctuation, NoToken
<1>2. /\ "NEWLINE" \notin names /\ "CSTRING" \notin names
      /\ NoToken \notin Kinds
  BY <1>1 DEF NoToken, Kinds
<1>3. CASE p = 1
  <2>1. Patterns[p] = "punctuation"
    BY <1>3, PatternsSeq
  <2>2. s[1] \in PunctuationChars
    BY <2>1 DEF Matches
  <2>3. Returns(Patterns[p], s) = Punctuation(s[1])
    BY <2>1 DEF Returns
  <2>4. Returns(Patterns[p], s) \in names
    BY <2>2, <2>3
  <2> QED BY <1>2, <1>3, <2>4 DEF Kinds
<1>4. CASE p = 2
  <2>1. Patterns[p] = "newline"
    BY <1>4, PatternsSeq
  <2>2. Returns(Patterns[p], s) = "NEWLINE"
    BY <2>1 DEF Returns
  <2> QED BY <1>2, <1>4, <2>2 DEF Kinds
<1>5. CASE p = 3
  <2>1. Patterns[p] = "integer"
    BY <1>5, PatternsSeq
  <2>2. Returns(Patterns[p], s) = "INTEGER_LITERAL"
    BY <2>1 DEF Returns
  <2> QED BY <1>2, <1>5, <2>2 DEF Kinds
<1>6. CASE p = 4
  <2>1. Patterns[p] = "white"
    BY <1>6, PatternsSeq
  <2>2. Returns(Patterns[p], s) = NoToken
    BY <2>1 DEF Returns
  <2>3. Len(s) = 1 /\ s[1] \in Whitespace
    BY <2>1 DEF Matches
  <2>4. NoToken # "NEWLINE" /\ NoToken # "CSTRING"
    BY DEF NoToken
  <2> QED BY <1>2, <1>6, <2>2, <2>3, <2>4
<1>7. CASE p \in {5, 6}
  <2>1. Patterns[p] \in {"identifier", "any"}
    BY <1>7, PatternsSeq
  <2>2. Returns(Patterns[p], s) = "STRING_LITERAL"
    BY <2>1 DEF Returns
  <2> QED BY <1>2, <1>7, <2>2 DEF Kinds
<1>8. CASE p = 7
  <2>1. Patterns[p] = "cstring"
    BY <1>8, PatternsSeq
  <2>2. Returns(Patterns[p], s) = "CSTRING"
    BY <2>1 DEF Returns
  <2> QED BY <1>2, <1>8, <2>2 DEF Kinds
<1> QED BY <1>3, <1>4, <1>5, <1>6, <1>7, <1>8

\* Lex, with its pattern and its length named.
LEMMA LexStep ==
    ASSUME LInv, Lex
    PROVE  \E p \in 1..7, n \in 1..(Len(text) - at) :
            LET s == SubSeq(Rest, 1, n) IN
            /\ Match(Rest)[1] = n /\ Match(Rest)[2] = p
            /\ Matches(Patterns[p], s)
            /\ s \in Seq(Chars) /\ Len(s) = n
            /\ \A i \in 1..n : s[i] = text[at + i]
            /\ at' = at + n
            /\ extra' = <<at + 1, at + n>>
            /\ column' = at + n + 1
            /\ text' = text
            /\ p = 4 => /\ tokens' = tokens
                        /\ n = 1 /\ text[at + 1] \in Whitespace
            /\ p # 4 => \E t \in Kinds :
                            /\ tokens' = Append(tokens, [token |-> t,
                                                pos |-> <<at + 1, at + n>>])
                            /\ t = "NEWLINE" <=> p = 2
                            /\ t = "CSTRING" <=> p = 7
<1> DEFINE n == Match(Rest)[1]
           p == Match(Rest)[2]
           s == SubSeq(Rest, 1, n)
           token == Returns(Patterns[p], s)
<1>1. at < Len(text)
  BY DEF Lex
<1>2. /\ Rest \in Seq(Chars) /\ Len(Rest) = Len(text) - at
      /\ \A i \in 1..Len(Rest) : Rest[i] = text[at + i]
      /\ n \in 1..(Len(text) - at) /\ p \in 1..7
      /\ Matches(Patterns[p], s)
  BY <1>1, LexProps
<1>3. s \in Seq(Chars) /\ Len(s) = n /\ \A i \in 1..n : s[i] = text[at + i]
  <2>1. n \in 1..Len(Rest)
    BY <1>2
  <2>2. s \in Seq(Chars) /\ Len(s) = n /\ \A i \in 1..n : s[i] = Rest[i]
    BY <1>2, <2>1, PrefixProps
  <2> QED BY <1>2, <2>2
<1>4. column = at + 1 /\ at \in Nat
  BY DEF LInv, TypeOK
<1>5. /\ at' = at + n /\ extra' = <<column, column + n - 1>>
      /\ column' = column + n /\ text' = text
      /\ tokens' = IF token = NoToken THEN tokens
                   ELSE Append(tokens, [token |-> token, pos |-> extra'])
  BY DEF Lex, UserAction
<1> HIDE DEF n, p, s, token
<1>6. extra' = <<at + 1, at + n>> /\ column' = at + n + 1
  BY <1>2, <1>4, <1>5
<1>7. /\ p = 4 => token = NoToken /\ Len(s) = 1 /\ s[1] \in Whitespace
      /\ p # 4 => token \in Kinds /\ token # NoToken
      /\ token = "NEWLINE" <=> p = 2
      /\ token = "CSTRING" <=> p = 7
  BY <1>2, ReturnsToken, ZenonT(30) DEF token
<1>8. p = 4 => tokens' = tokens /\ n = 1 /\ text[at + 1] \in Whitespace
  BY <1>2, <1>3, <1>5, <1>7
<1>9. p # 4 => tokens' = Append(tokens, [token |-> token,
                                         pos |-> <<at + 1, at + n>>])
  BY <1>5, <1>6, <1>7
<1> QED BY <1>2, <1>3, <1>5, <1>6, <1>7, <1>8, <1>9 DEF n, p, s

-----------------------------------------------------------------------------
(* The columns.                                                            *)

LEMMA ScanInv ==
    ASSUME NEW line \in Seq(Chars), Scan(line)
    PROVE  LInv
<1>1. text \in Seq(Chars) /\ at = 0 /\ column = 1 /\ extra = <<0, 0>>
      /\ tokens = << >>
  BY DEF Scan
<1>2. TypeOK
  BY <1>1 DEF TypeOK
<1>3. ColumnsTile
  BY <1>1 DEF ColumnsTile
<1> QED BY <1>1, <1>2, <1>3 DEF LInv

LEMMA InitInv == Init => LInv
BY ScanInv, TextsAssumption DEF Init

LEMMA LexInv == LInv /\ Lex => LInv'
<1> SUFFICES ASSUME LInv, Lex PROVE LInv'
  OBVIOUS
<1>1. PICK p \in 1..7, n \in 1..(Len(text) - at) :
        /\ at' = at + n
        /\ extra' = <<at + 1, at + n>>
        /\ column' = at + n + 1
        /\ text' = text
        /\ p = 4 => /\ tokens' = tokens
                    /\ n = 1 /\ text[at + 1] \in Whitespace
        /\ p # 4 => \E t \in Kinds :
                        tokens' = Append(tokens, [token |-> t,
                                            pos |-> <<at + 1, at + n>>])
  BY LexStep
<1>2. text \in Seq(Chars) /\ at \in 0..Len(text) /\ Len(text) \in Nat
  BY DEF LInv, TypeOK
<1>3. tokens \in Seq([token : Kinds, pos : Nat \X Nat])
  BY DEF LInv, TypeOK, Kinds
<1> DEFINE End(ts, k) == IF k = 0 THEN 0 ELSE ts[k].pos[2]
           Gap(end, begin) ==
            /\ end < begin
            /\ \A i \in (end + 1)..(begin - 1) : text[i] \in Whitespace
           Tiles(ts) == \A k \in 1..Len(ts) :
            /\ Gap(End(ts, k - 1), ts[k].pos[1])
            /\ ts[k].pos[1] <= ts[k].pos[2]
<1>4. Tiles(tokens) /\ Gap(End(tokens, Len(tokens)), at + 1)
  BY DEF LInv, ColumnsTile
<1>5. SUFFICES /\ tokens' \in Seq([token : Kinds, pos : Nat \X Nat])
               /\ Tiles(tokens') /\ Gap(End(tokens', Len(tokens')), at + n + 1)
  <2>1. TypeOK'
    BY <1>1, <1>2, <1>5 DEF TypeOK, Kinds
  <2>2. ColumnsTile'
    BY <1>1, <1>5 DEF ColumnsTile
  <2> QED BY <1>1, <2>1, <2>2 DEF LInv
<1>6. CASE p = 4
  <2>1. Gap(End(tokens, Len(tokens)), at + 2)
    <3>1. End(tokens, Len(tokens)) \in Nat
      <4>1. Len(tokens) # 0 => tokens[Len(tokens)] \in [token : Kinds, pos : Nat \X Nat]
        BY <1>3, LastElement
      <4> QED BY <4>1
    <3> QED BY <1>1, <1>2, <1>4, <1>6, <3>1
  <2>2. tokens' = tokens /\ at + n + 1 = at + 2
    BY <1>1, <1>2, <1>6
  <2> HIDE DEF Gap, End
  <2> QED BY <1>3, <1>4, <2>1, <2>2
<1>7. CASE p # 4
  <2>1. PICK t \in Kinds : tokens' = Append(tokens, [token |-> t,
                                               pos |-> <<at + 1, at + n>>])
    BY <1>1, <1>7
  <2> DEFINE new == [token |-> t, pos |-> <<at + 1, at + n>>]
             m == Len(tokens)
  <2>2. new \in [token : Kinds, pos : Nat \X Nat]
    BY <1>2
  <2>3. /\ m \in Nat /\ Len(tokens') = m + 1
        /\ tokens' \in Seq([token : Kinds, pos : Nat \X Nat])
        /\ \A k \in 1..m : tokens'[k] = tokens[k]
        /\ tokens'[m + 1].pos[1] = at + 1 /\ tokens'[m + 1].pos[2] = at + n
    BY <1>3, <2>1, <2>2
  <2>4. ASSUME NEW k \in 0..m PROVE End(tokens', k) = End(tokens, k)
    <3>1. k # 0 => tokens'[k] = tokens[k]
      <4> HIDE DEF m
      <4> QED BY <2>3
    <3> QED BY <3>1
  <2> HIDE DEF new, m
  <2>5. ASSUME NEW k \in 1..Len(tokens')
        PROVE  /\ Gap(End(tokens', k - 1), tokens'[k].pos[1])
               /\ tokens'[k].pos[1] <= tokens'[k].pos[2]
    <3> HIDE DEF End, Gap
    <3>1. k - 1 \in 0..m /\ End(tokens', k - 1) = End(tokens, k - 1)
      BY <2>3, <2>4
    <3>2. CASE k \in 1..m
      <4>1. /\ Gap(End(tokens, k - 1), tokens[k].pos[1])
            /\ tokens[k].pos[1] <= tokens[k].pos[2]
        BY <1>4, <3>2 DEF m
      <4> QED BY <2>3, <3>1, <3>2, <4>1
    <3>3. CASE k = m + 1
      <4>1. Gap(End(tokens, m), at + 1)
        BY <1>4 DEF m
      <4>2. k - 1 = m
        BY <2>3, <3>3
      <4>3. at + 1 <= at + n
        BY <1>2
      <4> QED BY <2>3, <3>1, <3>3, <4>1, <4>2, <4>3
    <3> QED BY <2>3, <3>2, <3>3
  <2>6. End(tokens', Len(tokens')) = at + n
    BY <2>3
  <2>7. Gap(at + n, at + n + 1)
    BY <1>2
  <2> HIDE DEF End, Gap
  <2> QED BY <2>3, <2>5, <2>6, <2>7
<1> QED BY <1>6, <1>7

LEMMA StutterInv == LInv /\ UNCHANGED vars => LInv'
BY DEF vars, LInv, TypeOK, ColumnsTile

THEOREM LexerInvariance == Spec => []LInv
<1>1. LInv /\ [Next]_vars => LInv'
  BY LexInv, StutterInv DEF Next, EndOfText
<1> QED BY InitInv, <1>1, PTL DEF Spec

\* The lexer of gdbwire_mi_lexer.l keeps its types.
THEOREM LexerTypes == Spec => []TypeOK
<1>1. LInv => TypeOK
  BY DEF LInv
<1> QED BY LexerInvariance, <1>1, PTL

\* YY_USER_ACTION: whatever the text, the columns of its tokens tile it.
THEOREM ColumnsAlwaysTile == Spec => []ColumnsTile
<1>1. LInv => ColumnsTile
  BY DEF LInv
<1> QED BY LexerInvariance, <1>1, PTL

-----------------------------------------------------------------------------
(* The newline of a line.                                                  *)

Ends == {"CR", "LF"}

\* What a line is, in terms of its last characters: n of them.
LineEnd(n) ==
    /\ n \in 1..Len(text)
    /\ text[Len(text)] \in Ends
    /\ \A i \in 1..(Len(text) - n) : text[i] \notin Ends
    /\ \/ n = 1
       \/ n = 2 /\ text[Len(text) - 1] = "CR" /\ text[Len(text)] = "LF"

LEMMA LineShape ==
    ASSUME text \in Seq(Chars), IsLine(text)
    PROVE  \E n \in {1, 2} : LineEnd(n)
<1>1. PICK n \in {1, 2} :
        /\ n <= Len(text)
        /\ SubSeq(text, Len(text) - n + 1, Len(text)) \in
                {<<"LF">>, <<"CR", "LF">>, <<"CR">>}
        /\ \A i \in 1..(Len(text) - n) : text[i] \notin Ends
  BY DEF IsLine, Ends
<1> DEFINE end == SubSeq(text, Len(text) - n + 1, Len(text))
<1>2. Len(end) = n /\ \A i \in 1..n : end[i] = text[Len(text) - n + i]
  BY <1>1
<1> HIDE DEF end
<1>3. end \in {<<"LF">>, <<"CR", "LF">>, <<"CR">>}
  BY <1>1 DEF end
<1>4. CASE n = 1
  <2>1. end[1] \in Ends
    BY <1>2, <1>3, <1>4 DEF Ends
  <2>2. text[Len(text)] \in Ends
    BY <1>2, <1>4, <2>1
  <2> QED BY <1>1, <1>4, <2>2 DEF LineEnd
<1>5. CASE n = 2
  <2>1. end = <<"CR", "LF">>
    <3>1. Len(<<"LF">>) = 1 /\ Len(<<"CR">>) = 1
      OBVIOUS
    <3>2. Len(end) # 1
      BY <1>2, <1>5
    <3>3. end # <<"LF">> /\ end # <<"CR">>
      BY <3>1, <3>2, Zenon
    <3> QED BY <1>3, <3>3
  <2>2. text[Len(text) - 1] = "CR" /\ text[Len(text)] = "LF"
    BY <1>1, <1>2, <1>5, <2>1
  <2> QED BY <1>1, <1>5, <2>2 DEF LineEnd, Ends
<1> QED BY <1>1, <1>4, <1>5

\* A match that ends in a line end is a newline token, and it begins with one.
LEMMA NewlineMatch ==
    ASSUME NEW s \in Seq(Chars), NEW p \in 1..7, Matches(Patterns[p], s)
    PROVE  /\ Len(s) > 0
           /\ s[Len(s)] \in Ends => p \in {2, 6}
           /\ p = 2 => s[1] \in Ends /\ s[Len(s)] \in Ends
           /\ p = 6 => Len(s) = 1
<1>1. CASE p = 1
  <2>1. Matches("punctuation", s)
    BY <1>1, PatternsSeq
  <2>2. Len(s) = 1 /\ s[1] \in PunctuationChars
    BY <2>1 DEF Matches
  <2>3. PunctuationChars \cap Ends = {}
    BY DEF PunctuationChars, Ends
  <2> QED BY <1>1, <2>2, <2>3
<1>2. CASE p = 2
  <2>1. Matches("newline", s)
    BY <1>2, PatternsSeq
  <2>2. s \in {<<"LF">>, <<"CR", "LF">>, <<"CR">>}
    BY <2>1 DEF Matches, IsNewline
  <2> QED BY <1>2, <2>2, SMTT(20) DEF Ends
<1>3. CASE p = 3
  <2>1. Matches("integer", s)
    BY <1>3, PatternsSeq
  <2>2. s # << >> /\ \A i \in 1..Len(s) : s[i] \in Digits
    BY <2>1 DEF Matches, IsInteger, Over
  <2>3. Len(s) \in 1..Len(s)
    BY <2>2
  <2>4. Digits \cap Ends = {}
    BY DEF Digits, Ends
  <2> QED BY <1>3, <2>2, <2>3, <2>4
<1>4. CASE p = 4
  <2>1. Matches("white", s)
    BY <1>4, PatternsSeq
  <2>2. Len(s) = 1 /\ s[1] \in Whitespace
    BY <2>1 DEF Matches
  <2>3. Whitespace \cap Ends = {}
    BY DEF Whitespace, Ends
  <2> QED BY <1>4, <2>2, <2>3
<1>5. CASE p = 5
  <2>1. Matches("identifier", s)
    BY <1>5, PatternsSeq
  <2>2. s # << >> /\ \A i \in 1..Len(s) : s[i] \in Letters \cup Digits \cup {"-"}
    BY <2>1 DEF Matches, IsIdentifier, Over
  <2>3. Len(s) \in 1..Len(s)
    BY <2>2
  <2>4. (Letters \cup Digits \cup {"-"}) \cap Ends = {}
    BY DEF Letters, Digits, Ends
  <2> QED BY <1>5, <2>2, <2>3, <2>4
<1>6. CASE p = 6
  <2>1. Matches("any", s)
    BY <1>6, PatternsSeq
  <2> QED BY <1>6, <2>1 DEF Matches
<1>7. CASE p = 7
  <2>1. Matches("cstring", s)
    BY <1>7, PatternsSeq
  <2>2. Len(s) >= 2 /\ s[Len(s)] = Quote
    BY <2>1 DEF Matches, IsCstring
  <2>3. Quote \notin Ends
    BY DEF Quote, Ends
  <2> QED BY <1>7, <2>2, <2>3
<1> QED BY <1>1, <1>2, <1>3, <1>4, <1>5, <1>6, <1>7

\* The step that scans a newline of a line scans all of it, and the one that
\* scans the end of a line scans a newline.
LEMMA NewlineStep ==
    ASSUME LInv, IsLine(text), at < Len(text),
           NEW p \in 1..7, NEW n \in 1..(Len(text) - at),
           Match(Rest)[1] = n, Match(Rest)[2] = p
    PROVE  /\ p = 2 => at + n = Len(text)
           /\ at + n = Len(text) => p = 2
<1>1. PICK e \in {1, 2} : LineEnd(e)
  BY LineShape DEF LInv, TypeOK
<1> DEFINE s == SubSeq(Rest, 1, n)
<1>2. /\ Rest \in Seq(Chars) /\ Len(Rest) = Len(text) - at
      /\ at \in Nat /\ Len(text) \in Nat
      /\ \A i \in 1..Len(Rest) : Rest[i] = text[at + i]
      /\ Longest(<<n, p>>, Rest)
      /\ Matches(Patterns[p], s)
  <2>1. /\ Match(Rest) \in Matching(Rest) /\ Longest(Match(Rest), Rest)
        /\ Rest \in Seq(Chars) /\ Len(Rest) = Len(text) - at
        /\ \A i \in 1..Len(Rest) : Rest[i] = text[at + i]
        /\ Matches(Patterns[p], s)
    BY LexProps
  <2>2. Match(Rest) = <<n, p>>
    BY <2>1, MatchingType
  <2> QED BY <2>1, <2>2 DEF LInv, TypeOK
<1>3. s \in Seq(Chars) /\ Len(s) = n /\ \A i \in 1..n : s[i] = text[at + i]
  <2>1. n \in 1..Len(Rest)
    BY <1>2
  <2>2. s \in Seq(Chars) /\ Len(s) = n /\ \A i \in 1..n : s[i] = Rest[i]
    BY <1>2, <2>1, PrefixProps
  <2> QED BY <1>2, <2>2
<1> HIDE DEF s
<1>4. /\ s[n] \in Ends => p \in {2, 6}
      /\ p = 2 => s[1] \in Ends
      /\ p = 6 => n = 1
  BY <1>2, <1>3, NewlineMatch
<1>5. ASSUME NEW m \in {1, 2}, m <= Len(Rest),
             IsNewline(SubSeq(Rest, 1, m))
      PROVE  n > m \/ (n = m /\ p <= 2)
  <2>1. Matches(Patterns[2], SubSeq(Rest, 1, m))
    BY <1>5, PatternsSeq DEF Matches
  <2>2. <<m, 2>> \in Matching(Rest)
    <3>1. m \in 1..Len(Rest) /\ 2 \in 1..Len(Patterns)
      BY <1>2, <1>5, PatternsSeq
    <3>2. /\ <<m, 2>> \in (1..Len(Rest)) \X (1..Len(Patterns))
          /\ <<m, 2>>[1] = m /\ <<m, 2>>[2] = 2
      BY <3>1
    <3> QED BY <2>1, <3>2, Zenon DEF Matching
  <2> QED BY <1>2, <2>2 DEF Longest
<1>6. ASSUME p = 2 PROVE at + n = Len(text)
  <2>1. text[at + 1] \in Ends
    BY <1>3, <1>4, <1>6
  <2>2. at + 1 > Len(text) - e
    BY <1>1, <1>2, <2>1 DEF LineEnd
  <2>3. CASE at + 1 = Len(text)
    BY <1>2, <2>3
  <2>4. CASE at + 1 # Len(text)
    <3>1. e = 2 /\ at + 2 = Len(text) /\ Len(Rest) = 2
      BY <1>1, <1>2, <2>2, <2>4
    <3>2. Rest[1] = "CR" /\ Rest[2] = "LF"
      BY <1>1, <1>2, <3>1 DEF LineEnd
    <3>3. SubSeq(Rest, 1, 2) = <<"CR", "LF">>
      BY <1>2, <3>1, <3>2, ShortPrefixes
    <3>4. n > 2 \/ n = 2
      BY <1>5, <3>1, <3>3 DEF IsNewline
    <3> QED BY <1>2, <3>1, <3>4
  <2> QED BY <2>3, <2>4
<1>7. ASSUME at + n = Len(text) PROVE p = 2
  <2>1. s[n] \in Ends
    BY <1>1, <1>3, <1>7 DEF LineEnd
  <2>2. SUFFICES ASSUME p = 6 PROVE FALSE
    BY <1>4, <2>1
  <2>3. n = 1 /\ Len(Rest) = 1 /\ Rest[1] \in Ends
    BY <1>2, <1>3, <1>4, <1>7, <2>1, <2>2
  <2>4. SubSeq(Rest, 1, 1) = <<Rest[1]>>
    BY <1>2, <2>3, ShortPrefixes
  <2>5. IsNewline(SubSeq(Rest, 1, 1))
    BY <2>3, <2>4 DEF IsNewline, Ends
  <2> QED BY <1>5, <2>2, <2>3, <2>5
<1> QED BY <1>6, <1>7

LEMMA InitNewline == Init => NewlineEndsLine
<1> SUFFICES ASSUME NEW line \in Texts, Scan(line), IsLine(text)
             PROVE  NewlineEndsLine
  BY DEF Init, NewlineEndsLine
<1>1. text \in Seq(Chars) /\ at = 0 /\ tokens = << >>
  BY TextsAssumption DEF Scan
<1>2. ~Done
  BY <1>1, LineShape DEF LineEnd, Done
<1> QED BY <1>1, <1>2 DEF NewlineEndsLine

LEMMA LexNewline == LInv /\ NewlineEndsLine /\ Lex => NewlineEndsLine'
<1> SUFFICES ASSUME LInv, NewlineEndsLine, Lex, IsLine(text)
             PROVE  /\ \A k \in 1..Len(tokens') :
                        tokens'[k].token = "NEWLINE" =>
                            k = Len(tokens') /\ Done'
                    /\ Done' => /\ tokens' # << >>
                                /\ tokens'[Len(tokens')].token = "NEWLINE"
  <2>1. Lex => text' = text
    BY DEF Lex
  <2>2. Lex => (IsLine(text) <=> IsLine(text'))
    BY <2>1
  <2> QED BY <2>2 DEF NewlineEndsLine
<1>1. at < Len(text) /\ text \in Seq(Chars) /\ at \in Nat
  BY DEF Lex, LInv, TypeOK
<1>2. PICK p \in 1..7, n \in 1..(Len(text) - at) :
        /\ Match(Rest)[1] = n /\ Match(Rest)[2] = p
        /\ at' = at + n
        /\ text' = text
        /\ p = 4 => tokens' = tokens
        /\ p # 4 => \E t \in Kinds :
                        /\ tokens' = Append(tokens, [token |-> t,
                                            pos |-> <<at + 1, at + n>>])
                        /\ t = "NEWLINE" <=> p = 2
  BY LexStep
<1>3. Done' <=> p = 2
  BY <1>1, <1>2, NewlineStep DEF Done
<1>4. tokens \in Seq([token : Kinds, pos : Nat \X Nat])
  BY DEF LInv, TypeOK, Kinds
<1>5. \A k \in 1..Len(tokens) : tokens[k].token # "NEWLINE"
  BY <1>1 DEF NewlineEndsLine, Done
<1>6. CASE p = 4
  BY <1>2, <1>3, <1>5, <1>6
<1>7. CASE p # 4
  <2>1. PICK t \in Kinds :
            /\ tokens' = Append(tokens, [token |-> t, pos |-> <<at + 1, at + n>>])
            /\ t = "NEWLINE" <=> p = 2
    BY <1>2, <1>7
  <2> DEFINE new == [token |-> t, pos |-> <<at + 1, at + n>>]
             m == Len(tokens)
  <2>2. new \in [token : Kinds, pos : Nat \X Nat] /\ new.token = t
    BY <1>1
  <2> HIDE DEF new
  <2>3. /\ m \in Nat /\ Len(tokens') = m + 1
        /\ \A k \in 1..m : tokens'[k] = tokens[k]
        /\ tokens'[m + 1] = new
    BY <1>4, <2>1, <2>2 DEF new
  <2> HIDE DEF m
  <2>4. \A k \in 1..m : tokens'[k].token # "NEWLINE"
    BY <1>5, <2>3 DEF m
  <2>5. tokens'[m + 1].token = t
    BY <2>2, <2>3
  <2> QED BY <1>3, <2>1, <2>3, <2>4, <2>5
<1> QED BY <1>6, <1>7

\* The rules for newlines and c-strings: on every line as
\* gdbwire_mi_parser_get_next_line cuts it, whatever is on it, the newline is
\* one token and the last one.
THEOREM EveryLineEndsInNewline == Spec => []NewlineEndsLine
<1> DEFINE NInv == LInv /\ NewlineEndsLine
<1>1. Init => NInv
  BY InitInv, InitNewline
<1>2. NInv /\ [Next]_vars => NInv'
  <2>1. NInv /\ UNCHANGED vars => NewlineEndsLine'
    BY DEF vars, NewlineEndsLine, Done
  <2> QED BY <2>1, LexInv, LexNewline, StutterInv DEF Next, EndOfText
<1>3. NInv => NewlineEndsLine
  OBVIOUS
<1> QED BY <1>1, <1>2, <1>3, PTL DEF Spec

-----------------------------------------------------------------------------
(* The escapes.                                                            *)

LEMMA EscapeFacts ==
    /\ DOMAIN Escapes = {"n", "b", "t", "f", "r", "e", "a", Quote, Backslash}
    /\ Escapes["n"] = "LF" /\ Escapes["b"] = "BS" /\ Escapes["t"] = "TAB"
    /\ Escapes["f"] = "FF" /\ Escapes["r"] = "CR" /\ Escapes["e"] = "ESC"
    /\ Escapes["a"] = "BEL" /\ Escapes[Quote] = Quote
    /\ Escapes[Backslash] = Backslash
BY DEF Escapes, Quote, Backslash

-----------------------------------------------------------------------------
(* Where a c-string ends.                                                  *)

\* What IsCstring builds on: whether the second to the n-th character of s are
\* a sequence of escaped characters and of plain ones.
Body(s) ==
    LET Plain(c) == c \notin {Quote, Backslash}
        body[n \in Nat] ==
            \/ n = 1
            \/ n > 1 /\ Plain(s[n]) /\ body[n - 1]
            \/ n > 2 /\ s[n] # "LF" /\ s[n - 1] = Backslash /\ body[n - 2]
    IN body

LEMMA CstringHasBody ==
    ASSUME NEW s
    PROVE  IsCstring(s) <=> /\ Len(s) >= 2
                            /\ s[1] = Quote /\ s[Len(s)] = Quote
                            /\ Body(s)[Len(s) - 1]
BY DEF IsCstring, Body

\* The n-th character goes on with what the places in S end.
GoesOn(s, S, n) ==
    \/ n = 1
    \/ n > 1 /\ s[n] \notin {Quote, Backslash} /\ n - 1 \in S
    \/ n > 2 /\ s[n] # "LF" /\ s[n - 1] = Backslash /\ n - 2 \in S

\* The recursion of Body has a solution: the least set that is closed under it.
LEMMA BodyIs ==
    ASSUME NEW s
    PROVE  \A n \in Nat :
              Body(s)[n] <=>
                 \/ n = 1
                 \/ n > 1 /\ s[n] \notin {Quote, Backslash} /\ Body(s)[n - 1]
                 \/ /\ n > 2 /\ s[n] # "LF" /\ s[n - 1] = Backslash
                    /\ Body(s)[n - 2]
<1> DEFINE Closed(S) == \A n \in Nat : GoesOn(s, S, n) => n \in S
           B == {n \in Nat : \A S \in SUBSET Nat : Closed(S) => n \in S}
           Next1(f, n) ==
                \/ n = 1
                \/ n > 1 /\ s[n] \notin {Quote, Backslash} /\ f[n - 1]
                \/ n > 2 /\ s[n] # "LF" /\ s[n - 1] = Backslash /\ f[n - 2]
           Solves(f) == f = [n \in Nat |-> Next1(f, n)]
           f0 == [n \in Nat |-> n \in B]
<1>1. \A n \in Nat : GoesOn(s, B, n) => n \in B
  <2> SUFFICES ASSUME NEW n \in Nat, GoesOn(s, B, n),
                      NEW S \in SUBSET Nat, Closed(S)
               PROVE  n \in S
    OBVIOUS
  <2>1. B \subseteq S
    OBVIOUS
  <2> HIDE DEF B
  <2>2. GoesOn(s, S, n)
    BY <2>1 DEF GoesOn
  <2> QED BY <2>2
<1>2. \A n \in Nat : n \in B => GoesOn(s, B, n)
  <2> SUFFICES ASSUME NEW n \in Nat, n \in B, ~GoesOn(s, B, n)
               PROVE  FALSE
    OBVIOUS
  <2> DEFINE S == B \ {n}
  <2>1. S \in SUBSET Nat
    OBVIOUS
  <2>2. ASSUME NEW k \in Nat, GoesOn(s, S, k) PROVE k \in S
    <3> HIDE DEF B
    <3>1. GoesOn(s, B, k)
      BY <2>2 DEF GoesOn
    <3> QED BY <1>1, <3>1
  <2>3. n \in S
    <3> HIDE DEF S
    <3> QED BY <2>1, <2>2
  <2> QED BY <2>3
<1> HIDE DEF B
<1>3. Solves(f0)
  <2>1. ASSUME NEW n \in Nat PROVE (n \in B) = Next1(f0, n)
    <3>1. n > 1 => f0[n - 1] = (n - 1 \in B)
      OBVIOUS
    <3>2. n > 2 => f0[n - 2] = (n - 2 \in B)
      OBVIOUS
    <3> HIDE DEF f0
    <3>3. (n \in B) <=> Next1(f0, n)
      BY <1>1, <1>2, <3>1, <3>2 DEF GoesOn
    <3>4. CASE n \in B
      <4>1. Next1(f0, n) = TRUE
        BY <3>3, <3>4, Zenon
      <4> HIDE DEF Next1
      <4> QED BY <3>4, <4>1
    <3>5. CASE n \notin B
      <4>1. Next1(f0, n) = FALSE
        BY <3>3, <3>5, Zenon
      <4>2. (n \in B) = FALSE
        BY <3>5
      <4> QED BY <4>1, <4>2, Zenon
    <3> QED BY <3>4, <3>5
  <2> DEFINE f1 == f0
  <2>2. f1 = f0
    OBVIOUS
  <2> HIDE DEF Next1, f1
  <2>3. [n \in Nat |-> n \in B] = [n \in Nat |-> Next1(f1, n)]
    BY <2>1, <2>2
  <2> QED BY <2>2, <2>3
<1>4. Solves(Body(s))
  <2>1. Body(s) = CHOOSE f : Solves(f)
    BY DEF Body
  <2> HIDE DEF Solves, f0
  <2> QED BY <1>3, <2>1
<1> DEFINE b == Body(s)
<1>5. Solves(b)
  BY <1>4
<1>6. \A n \in Nat : b[n] = Next1(b, n)
  <2> HIDE DEF Next1, b
  <2> QED BY <1>5
<1> HIDE DEF b
<1> QED BY <1>6 DEF b

\* What ends a character cannot be the backslash that begins the next one.
LEMMA BackslashDecides ==
    ASSUME NEW s
    PROVE  \A n \in Nat :
              n > 1 /\ s[n] = Backslash => ~(Body(s)[n - 1] /\ Body(s)[n])
<1> DEFINE b == Body(s)
           T == {n \in Nat : n > 1 /\ s[n] = Backslash /\ b[n - 1] /\ b[n]}
<1>1. SUFFICES ASSUME T # {} PROVE FALSE
  OBVIOUS
<1>2. PICK n \in T : \A k \in T : n <= k
  <2>1. T \in SUBSET Nat
    OBVIOUS
  <2> HIDE DEF T
  <2> QED BY <1>1, <2>1, Least
<1>3. n \in Nat /\ n > 1 /\ s[n] = Backslash /\ b[n - 1] /\ b[n]
  BY <1>2
<1> HIDE DEF b
<1>4. n > 2 /\ s[n - 1] = Backslash /\ b[n - 2]
  BY <1>3, BodyIs DEF b
<1>5. n - 1 \in T
  <2>1. n - 1 \in Nat /\ n - 1 > 1 /\ (n - 1) - 1 = n - 2
    BY <1>3, <1>4
  <2> QED BY <1>3, <1>4, <2>1
<1> HIDE DEF T
<1>6. n <= n - 1
  BY <1>2, <1>5
<1> QED BY <1>3, <1>6

\* After two places that end no character there is none that does.
LEMMA DeadBody ==
    ASSUME NEW s, NEW k \in Nat, ~Body(s)[k], ~Body(s)[k + 1]
    PROVE  \A n \in Nat : n >= k => ~Body(s)[n]
<1> DEFINE b == Body(s)
           T == {n \in Nat : n >= k /\ b[n]}
<1>1. SUFFICES ASSUME T # {} PROVE FALSE
  OBVIOUS
<1>2. PICK n \in T : \A j \in T : n <= j
  <2>1. T \in SUBSET Nat
    OBVIOUS
  <2> HIDE DEF T
  <2> QED BY <1>1, <2>1, Least
<1>3. n \in Nat /\ n >= k /\ b[n] /\ ~b[k] /\ ~b[k + 1]
  BY <1>2
<1> HIDE DEF b
<1>4. n # k /\ n # k + 1
  BY <1>3
<1>5. n >= k + 2 /\ n - 1 \in Nat /\ n - 2 \in Nat
  BY <1>3, <1>4
<1>6. b[n - 1] \/ b[n - 2]
  BY <1>3, <1>5, BodyIs DEF b
<1>7. n - 1 \in T \/ n - 2 \in T
  BY <1>5, <1>6
<1> HIDE DEF T
<1> QED BY <1>2, <1>3, <1>7

\* A quote that is not escaped ends the body.
LEMMA QuoteEnds ==
    ASSUME NEW s, NEW k \in Nat, k >= 1, Body(s)[k], s[k + 1] = Quote
    PROVE  \A n \in Nat : n > k => ~Body(s)[n]
<1> DEFINE b == Body(s)
<1>1. Quote # Backslash
  BY DEF Quote, Backslash
<1>2. k + 1 \in Nat /\ (k + 1) - 1 = k /\ (k + 1) - 2 = k - 1 /\ k + 1 # 1
  OBVIOUS
<1>3. k + 2 \in Nat /\ (k + 2) - 1 = k + 1 /\ (k + 2) - 2 = k /\ k + 2 # 1
  OBVIOUS
<1>4. ~b[k + 1]
  <2>1. b[k + 1] => k > 1 /\ s[k] = Backslash /\ b[k - 1]
    <3> HIDE DEF b
    <3> QED BY <1>2, BodyIs DEF b
  <2> QED BY <2>1, BackslashDecides
<1>5. ~b[k + 2]
  <2> HIDE DEF b
  <2> QED BY <1>1, <1>3, <1>4, BodyIs DEF b
<1>6. k + 1 \in Nat /\ (k + 1) + 1 = k + 2
  OBVIOUS
<1>7. \A n \in Nat : n >= k + 1 => ~b[n]
  BY <1>4, <1>5, <1>6, DeadBody
<1> QED BY <1>7

\* A newline that is escaped ends no c-string either.
LEMMA EscapedNewlineEnds ==
    ASSUME NEW s, NEW k \in Nat, k >= 1, Body(s)[k],
           s[k + 1] = Backslash, s[k + 2] = "LF"
    PROVE  \A n \in Nat : n > k => ~Body(s)[n]
<1> DEFINE b == Body(s)
<1>1. k + 1 \in Nat /\ (k + 1) - 1 = k /\ k + 1 > 1
  OBVIOUS
<1>2. ~b[k + 1]
  BY <1>1, BackslashDecides
<1>3. k + 2 \in Nat /\ (k + 2) - 1 = k + 1 /\ (k + 2) - 2 = k /\ k + 2 # 1
  OBVIOUS
<1>4. ~b[k + 2]
  <2> HIDE DEF b
  <2> QED BY <1>2, <1>3, BodyIs DEF b
<1>5. (k + 1) + 1 = k + 2
  OBVIOUS
<1>6. \A n \in Nat : n >= k + 1 => ~b[n]
  BY <1>1, <1>2, <1>4, <1>5, DeadBody
<1> QED BY <1>6

\* Texts that begin alike have bodies that begin alike.
LEMMA BodiesAgree ==
    ASSUME NEW s, NEW t, NEW m \in Nat, \A i \in 1..m : s[i] = t[i]
    PROVE  \A n \in 0..m : Body(s)[n] <=> Body(t)[n]
<1> DEFINE b == Body(s)
           c == Body(t)
           T == {n \in Nat : n <= m /\ ~(b[n] <=> c[n])}
<1>1. SUFFICES ASSUME T # {} PROVE FALSE
  OBVIOUS
<1>2. PICK n \in T : \A j \in T : n <= j
  <2>1. T \in SUBSET Nat
    OBVIOUS
  <2> HIDE DEF T
  <2> QED BY <1>1, <2>1, Least
<1>3. n \in Nat /\ n <= m /\ ~(b[n] <=> c[n])
  BY <1>2
<1>4. \A j \in Nat : j < n => (b[j] <=> c[j])
  <2> SUFFICES ASSUME NEW j \in Nat, j < n, ~(b[j] <=> c[j]) PROVE FALSE
    OBVIOUS
  <2>1. j \in T
    BY <1>3
  <2> HIDE DEF T
  <2> QED BY <1>2, <1>3, <2>1
<1> HIDE DEF T, b, c
<1>5. n > 1 => s[n] = t[n] /\ n - 1 \in Nat /\ (b[n - 1] <=> c[n - 1])
  BY <1>3, <1>4
<1>6. n > 2 => s[n - 1] = t[n - 1] /\ n - 2 \in Nat /\ (b[n - 2] <=> c[n - 2])
  BY <1>3, <1>4
<1>7. b[n] <=> \/ n = 1
               \/ n > 1 /\ s[n] \notin {Quote, Backslash} /\ b[n - 1]
               \/ n > 2 /\ s[n] # "LF" /\ s[n - 1] = Backslash /\ b[n - 2]
  BY <1>3, BodyIs DEF b
<1>8. c[n] <=> \/ n = 1
               \/ n > 1 /\ t[n] \notin {Quote, Backslash} /\ c[n - 1]
               \/ n > 2 /\ t[n] # "LF" /\ t[n - 1] = Backslash /\ c[n - 2]
  BY <1>3, BodyIs DEF c
<1> QED BY <1>3, <1>5, <1>6, <1>7, <1>8

\* What begins with a quote is a c-string in one way at most.
LEMMA OneCstring ==
    ASSUME NEW s \in Seq(Chars), NEW m \in 1..Len(s), NEW n \in 1..Len(s),
           IsCstring(SubSeq(s, 1, m)), IsCstring(SubSeq(s, 1, n))
    PROVE  m = n
<1>1. ASSUME NEW k \in 1..Len(s), IsCstring(SubSeq(s, 1, k))
      PROVE  /\ k >= 2 /\ s[k] = Quote
             /\ \A i \in 0..k : Body(SubSeq(s, 1, k))[i] <=> Body(s)[i]
             /\ Body(s)[k - 1]
  <2> DEFINE t == SubSeq(s, 1, k)
  <2>1. t \in Seq(Chars) /\ Len(t) = k /\ \A i \in 1..k : t[i] = s[i]
    BY PrefixProps
  <2>2. Len(t) >= 2 /\ t[Len(t)] = Quote /\ Body(t)[Len(t) - 1]
    BY <1>1, CstringHasBody
  <2> HIDE DEF t
  <2>3. k \in Nat
    OBVIOUS
  <2>4. \A i \in 0..k : Body(t)[i] <=> Body(s)[i]
    BY <2>1, <2>3, BodiesAgree
  <2>5. k >= 2 /\ k - 1 \in 0..k /\ k \in 1..k
    BY <2>1, <2>2
  <2> QED BY <2>1, <2>2, <2>4, <2>5 DEF t
<1>2. ASSUME NEW j \in 1..Len(s), NEW k \in 1..Len(s), j < k,
             IsCstring(SubSeq(s, 1, j)), IsCstring(SubSeq(s, 1, k))
      PROVE  FALSE
  <2>1. j >= 2 /\ s[j] = Quote /\ Body(s)[j - 1]
    BY <1>1, <1>2
  <2>2. k >= 2 /\ Body(s)[k - 1]
    BY <1>1, <1>2
  <2>3. j - 1 \in Nat /\ j - 1 >= 1 /\ (j - 1) + 1 = j
    BY <2>1
  <2>4. k - 1 \in Nat /\ k - 1 > j - 1
    BY <1>2, <2>2
  <2> QED BY <2>1, <2>2, <2>3, <2>4, QuoteEnds
<1> QED BY <1>2

\* The c-string at the beginning of s is what flex matches.
LEMMA CstringIsMatched ==
    ASSUME NEW s \in Seq(Chars), NEW n \in 1..Len(s),
           IsCstring(SubSeq(s, 1, n))
    PROVE  Match(s) = <<n, 7>>
<1> DEFINE m == Match(s)
<1>1. s # << >> /\ n \in Nat /\ n >= 2 /\ s[1] = Quote
  <2>1. n \in Nat /\ n >= 1 /\ s # << >>
    OBVIOUS
  <2>2. 1 \in 1..n
    BY <2>1
  <2>3. Len(SubSeq(s, 1, n)) = n /\ SubSeq(s, 1, n)[1] = s[1]
    BY <2>2, PrefixProps
  <2> QED BY <2>1, <2>3, CstringHasBody
<1>2. m \in Matching(s) /\ Longest(m, s)
  BY <1>1, MatchIsLongest
<1>3. <<n, 7>> \in Matching(s)
  <2>1. Matches("cstring", SubSeq(s, 1, n))
    BY DEF Matches
  <2> QED BY <2>1, PatternsSeq DEF Matching
<1>4. /\ m = <<m[1], m[2]>> /\ m[1] \in 1..Len(s) /\ m[2] \in 1..7
      /\ Matches(Patterns[m[2]], SubSeq(s, 1, m[1]))
  BY <1>2, MatchingType
<1> HIDE DEF m
<1> DEFINE t == SubSeq(s, 1, m[1])
<1>5. t # << >> /\ Len(t) = m[1] /\ t[1] = Quote
  BY <1>1, <1>4, PrefixProps
<1>6. m[1] >= n
  <2>1. m[1] > <<n, 7>>[1] \/ m[1] = <<n, 7>>[1]
    BY <1>2, <1>3 DEF Longest
  <2> QED BY <1>4, <2>1
<1>7. Patterns[m[2]] \notin {"punctuation", "newline", "integer", "white",
                            "identifier", "any"}
  <2>1. Len(t) # 1
    BY <1>1, <1>4, <1>5, <1>6
  <2>2. ~IsNewline(t)
    <3>1. /\ <<"LF">>[1] = "LF" /\ <<"CR", "LF">>[1] = "CR"
          /\ <<"CR">>[1] = "CR"
      OBVIOUS
    <3>2. Quote # "LF" /\ Quote # "CR"
      BY DEF Quote
    <3> HIDE DEF t
    <3> QED BY <1>5, <3>1, <3>2, Zenon DEF IsNewline
  <2>3. ~IsInteger(t)
    <3>1. 1 \in 1..Len(t)
      BY <1>4, <1>5
    <3> HIDE DEF t
    <3> QED BY <1>5, <3>1 DEF IsInteger, Over, Digits, Quote
  <2>4. ~IsIdentifier(t)
    BY <1>5 DEF IsIdentifier, Letters, Quote
  <2> HIDE DEF t
  <2> QED BY <1>4, <2>1, <2>2, <2>3, <2>4 DEF Matches, t
<1>8. m[2] = 7
  BY <1>4, <1>7, PatternsSeq
<1>9. IsCstring(t)
  BY <1>4, <1>8, PatternsSeq DEF Matches
<1>10. m[1] = n
  BY <1>4, <1>9, OneCstring
<1> QED BY <1>4, <1>8, <1>10 DEF m

-----------------------------------------------------------------------------
(* What unescaping makes of a c-string.                                    *)

IsEscape(str, s) == str[s] = Backslash /\ str[s + 1] \in DOMAIN Escapes

After(str, s) == IF IsEscape(str, s) THEN s + 2 ELSE s + 1

Char(str, s) == IF IsEscape(str, s) THEN Escapes[str[s + 1]] ELSE str[s]

\* What the loop makes of str from s on.
From(str) ==
    LET from[s \in Nat] ==
            IF s >= Len(str) THEN [text |-> << >>, stop |-> s]
            ELSE LET escape == str[s] = Backslash
                               /\ str[s + 1] \in DOMAIN Escapes
                     rest == from[IF escape THEN s + 2 ELSE s + 1]
                 IN [text |-> <<IF escape THEN Escapes[str[s + 1]]
                                ELSE str[s]>> \o rest.text,
                     stop |-> rest.stop]
    IN from

LEMMA UnescapeIsFrom == ASSUME NEW str PROVE Unescape(str) = From(str)[2]
BY DEF Unescape, From

LEMMA FromIs ==
    ASSUME NEW str, Len(str) \in Nat
    PROVE  \A s \in Nat :
              From(str)[s] =
                 IF s >= Len(str) THEN [text |-> << >>, stop |-> s]
                 ELSE [text |-> <<Char(str, s)>>
                                \o From(str)[After(str, s)].text,
                       stop |-> From(str)[After(str, s)].stop]
<1> DEFINE n == Len(str)
           Makes(f, s) ==
              IF s >= n THEN [text |-> << >>, stop |-> s]
              ELSE [text |-> <<Char(str, s)>> \o f[After(str, s)].text,
                    stop |-> f[After(str, s)].stop]
           Solves(f, m) ==
              /\ f = [s \in Nat |-> f[s]]
              /\ \A s \in Nat : s + m >= n => f[s] = Makes(f, s)
           T == {m \in Nat : m <= n /\ ~ \E f : Solves(f, m)}
<1>1. \A s \in Nat : After(str, s) \in Nat /\ After(str, s) > s
  BY DEF After
<1>2. T = {}
  <2>1. SUFFICES ASSUME T # {} PROVE FALSE
    OBVIOUS
  <2>2. PICK m \in T : \A j \in T : m <= j
    <3>1. T \in SUBSET Nat
      OBVIOUS
    <3> HIDE DEF T
    <3> QED BY <2>1, <3>1, Least
  <2>3. m # 0
    <3> DEFINE f == [s \in Nat |-> [text |-> << >>, stop |-> s]]
    <3>1. f = [s \in Nat |-> f[s]]
      OBVIOUS
    <3>2. ASSUME NEW s \in Nat, s + 0 >= n PROVE f[s] = Makes(f, s)
      BY <3>2
    <3>3. Solves(f, 0)
      <4> HIDE DEF f, Makes
      <4> QED BY <3>1, <3>2
    <3> HIDE DEF Solves
    <3> QED BY <2>2, <3>3
  <2>4. m - 1 \in Nat /\ m - 1 <= n /\ m \in Nat /\ m <= n
    BY <2>2, <2>3
  <2>5. PICK f : Solves(f, m - 1)
    <3>1. m - 1 \notin T
      <4> HIDE DEF T
      <4> QED BY <2>2, <2>4
    <3> HIDE DEF Solves
    <3> QED BY <2>4, <3>1
  <2> DEFINE p == n - m
             g == [s \in Nat |-> IF s = p THEN Makes(f, p) ELSE f[s]]
  <2>6. p \in Nat
    BY <2>4
  <2>7. \A s \in Nat : s > p => g[s] = f[s]
    <3> HIDE DEF Makes
    <3> QED BY <2>6
  <2>8. \A s \in Nat : s >= p => Makes(g, s) = Makes(f, s)
    <3> SUFFICES ASSUME NEW s \in Nat, s >= p PROVE Makes(g, s) = Makes(f, s)
      OBVIOUS
    <3>1. After(str, s) \in Nat /\ After(str, s) > p
      BY <1>1, <2>6
    <3>2. g[After(str, s)] = f[After(str, s)]
      BY <2>7, <3>1
    <3> HIDE DEF g
    <3> QED BY <3>2
  <2>9. ASSUME NEW s \in Nat, s + m >= n PROVE g[s] = Makes(g, s)
    <3>1. s >= p
      BY <2>4, <2>9
    <3>2. CASE s = p
      <4>1. g[s] = Makes(f, p)
        <5> HIDE DEF Makes
        <5> QED BY <3>2
      <4> HIDE DEF g, Makes
      <4> QED BY <2>8, <3>1, <3>2, <4>1
    <3>3. CASE s # p
      <4>1. s > p /\ s + (m - 1) >= n
        BY <2>4, <2>6, <3>1, <3>3
      <4>2. f[s] = Makes(f, s)
        <5> HIDE DEF Makes
        <5> QED BY <2>5, <4>1
      <4> HIDE DEF g, Makes
      <4> QED BY <2>7, <2>8, <3>1, <4>1, <4>2
    <3> QED BY <3>2, <3>3
  <2>10. g = [s \in Nat |-> g[s]]
    <3> HIDE DEF Makes, p
    <3> QED OBVIOUS
  <2>11. Solves(g, m)
    <3> HIDE DEF g, Makes
    <3> QED BY <2>9, <2>10
  <2> HIDE DEF Solves, g
  <2> QED BY <2>2, <2>11
<1>3. PICK f : Solves(f, n)
  <2>1. n \in Nat /\ n <= n
    OBVIOUS
  <2>2. n \notin T
    <3> HIDE DEF T
    <3> QED BY <1>2
  <2> HIDE DEF Solves, n
  <2> QED BY <2>1, <2>2
<1>4. f = [s \in Nat |-> Makes(f, s)]
  <2>1. \A s \in Nat : f[s] = Makes(f, s)
    <3>1. \A s \in Nat : s + n >= n
      OBVIOUS
    <3> HIDE DEF Makes, n
    <3> QED BY <1>3, <3>1
  <2>2. f = [s \in Nat |-> f[s]]
    <3> HIDE DEF Makes
    <3> QED BY <1>3
  <2> HIDE DEF Makes
  <2> QED BY <2>1, <2>2
<1> DEFINE Fixed(h) == h = [s \in Nat |-> Makes(h, s)]
<1>5. From(str) = CHOOSE h : Fixed(h)
  BY Zenon DEF From, Char, After, IsEscape
<1>6. Fixed(From(str))
  <2>1. Fixed(f)
    BY <1>4
  <2> HIDE DEF Fixed
  <2> QED BY <1>5, <2>1
<1> DEFINE b == From(str)
<1>7. \A s \in Nat : b[s] = Makes(b, s)
  <2>1. Fixed(b)
    BY <1>6
  <2> HIDE DEF Makes, b
  <2> QED BY <2>1
<1> QED BY <1>7

\* The loop of gdbwire_mi_unescape_cstring stops at the closing quote, whatever
\* is escaped before it.
LEMMA CstringStops ==
    ASSUME NEW x \in Seq(Chars), IsCstring(x)
    PROVE  Unescape(x).stop = Len(x)
<1> DEFINE n == Len(x)
           b == Body(x)
           from == From(x)
           T == {m \in Nat : \E s \in Nat : /\ m = n - s /\ s >= 2 /\ b[s - 1]
                                            /\ from[s].stop # n}
<1>1. n \in Nat /\ n >= 2 /\ x[n] = Quote /\ b[n - 1]
  BY CstringHasBody
<1>2. \A s \in Nat : s >= n => ~b[s]
  <2>1. n - 1 \in Nat /\ n - 1 >= 1 /\ (n - 1) + 1 = n
    BY <1>1
  <2>2. \A s \in Nat : s > n - 1 => ~b[s]
    BY <1>1, <2>1, QuoteEnds
  <2> QED BY <1>1, <2>2
<1>3. \A s \in Nat :
        /\ s >= n => from[s].stop = s
        /\ s < n => from[s].stop = from[After(x, s)].stop
  <2> SUFFICES ASSUME NEW s \in Nat
               PROVE  /\ s >= n => from[s].stop = s
                      /\ s < n => from[s].stop = from[After(x, s)].stop
    OBVIOUS
  <2>1. from[s] = IF s >= Len(x) THEN [text |-> << >>, stop |-> s]
                  ELSE [text |-> <<Char(x, s)>> \o from[After(x, s)].text,
                        stop |-> from[After(x, s)].stop]
    BY FromIs
  <2> HIDE DEF from
  <2> QED BY <2>1
<1>4. SUFFICES ASSUME T # {} PROVE FALSE
  <2>1. n - 2 \notin T
    BY <1>4, Zenon
  <2>2. n - 2 \in Nat /\ b[2 - 1]
    BY <1>1, BodyIs
  <2>3. from[2].stop = n
    <3> HIDE DEF n, b, from
    <3> QED BY <2>1, <2>2
  <2> QED BY <2>3, UnescapeIsFrom
<1>5. PICK m \in T : \A j \in T : m <= j
  <2>1. T \in SUBSET Nat
    OBVIOUS
  <2> HIDE DEF T
  <2> QED BY <1>4, <2>1, Least
<1>6. PICK s \in Nat : /\ m = n - s /\ s >= 2 /\ b[s - 1]
                       /\ from[s].stop # n
  BY <1>5
<1>7. ASSUME NEW t \in Nat, t > s, b[t - 1] PROVE from[t].stop = n
  <2>1. t - 1 < n
    <3> HIDE DEF b, n
    <3> QED BY <1>1, <1>2, <1>6, <1>7
  <2>2. n - t \in Nat /\ t >= 2 /\ n - t < m
    <3> HIDE DEF n
    <3> QED BY <1>1, <1>6, <1>7, <2>1
  <2>3. n - t \notin T
    <3> SUFFICES ASSUME n - t \in T PROVE FALSE
      OBVIOUS
    <3>1. m <= n - t
      <4> HIDE DEF T, n
      <4> QED BY <1>5
    <3>2. m \in Nat
      BY <1>5
    <3> HIDE DEF T, n
    <3> QED BY <2>2, <3>1, <3>2
  <2> HIDE DEF n, b, from
  <2> QED BY <1>7, <2>2, <2>3
<1> HIDE DEF T, b, from, n
<1>8. s < n
  <2>1. s # n
    BY <1>1, <1>3, <1>6
  <2>2. s - 1 < n
    BY <1>1, <1>2, <1>6
  <2> QED BY <1>1, <2>1, <2>2
<1>9. /\ s - 1 \in Nat /\ s - 1 >= 1 /\ (s - 1) + 1 = s /\ (s - 1) + 2 = s + 1
      /\ n - 1 \in Nat /\ n - 1 > s - 1
      /\ (s + 1) - 1 = s /\ (s + 2) - 1 = s + 1
  BY <1>1, <1>6, <1>8
<1>10. x[s] # Quote
  BY <1>1, <1>6, <1>9, QuoteEnds DEF b
<1>11. from[s].stop = from[After(x, s)].stop
  BY <1>3, <1>8
<1>12. CASE x[s] # Backslash
  <2>1. b[s]
    BY <1>6, <1>9, <1>10, <1>12, BodyIs DEF b
  <2>2. After(x, s) = s + 1
    BY <1>12 DEF After, IsEscape
  <2> QED BY <1>6, <1>7, <1>9, <1>11, <2>1, <2>2
<1>13. CASE x[s] = Backslash
  <2>1. ~b[s]
    BY <1>6, <1>13, BackslashDecides DEF b
  <2>2. s + 1 < n
    BY <1>1, <1>6, <1>8, <2>1
  <2>3. x[s + 1] # "LF"
    BY <1>1, <1>6, <1>9, <1>13, EscapedNewlineEnds DEF b
  <2>4. b[s + 1]
    <3>1. s + 1 \in Nat /\ s + 1 > 2 /\ (s + 1) - 1 = s /\ (s + 1) - 2 = s - 1
      BY <1>6
    <3> QED BY <1>6, <1>13, <2>3, <3>1, BodyIs DEF b
  <2>5. from[s + 2].stop = n
    <3>1. s + 2 \in Nat /\ s + 2 > s
      OBVIOUS
    <3> QED BY <1>7, <1>9, <2>4, <3>1
  <2>6. CASE x[s + 1] \in DOMAIN Escapes
    <3>1. After(x, s) = s + 2
      BY <1>13, <2>6 DEF After, IsEscape
    <3> QED BY <1>6, <1>11, <2>5, <3>1
  <2>7. CASE x[s + 1] \notin DOMAIN Escapes
    <3>1. After(x, s) = s + 1
      BY <2>7 DEF After, IsEscape
    <3>2. x[s + 1] # Backslash
      BY <2>7, EscapeFacts
    <3>3. After(x, s + 1) = s + 2
      BY <3>2 DEF After, IsEscape
    <3>4. from[s + 1].stop = from[s + 2].stop
      BY <1>3, <2>2, <3>3
    <3> QED BY <1>6, <1>11, <2>5, <3>1, <3>4
  <2> QED BY <2>6, <2>7
<1> QED BY <1>12, <1>13

-----------------------------------------------------------------------------
(* What FlattenSeq makes of strings.                                       *)

Strings == Seq(Chars)

LEMMA Concatenation ==
    /\ \A a \in Strings : a \o << >> = a /\ << >> \o a = a
    /\ \A a, b \in Strings :
          /\ a \o b \in Strings /\ Len(a \o b) = Len(a) + Len(b)
          /\ \A i \in 1..Len(a) : (a \o b)[i] = a[i]
          /\ \A i \in 1..Len(b) : (a \o b)[Len(a) + i] = b[i]
BY DEF Strings

\* FlattenSeq adds one string after the other to what it has so far.
LEMMA Flattening ==
    ASSUME NEW n \in Nat, NEW e \in [1..n -> Strings]
    PROVE  \E g \in [0..n -> Strings] :
              /\ g[0] = << >>
              /\ \A i \in 1..n : g[i] = g[i - 1] \o e[i]
              /\ g[n] = FlattenSeq(e)
<1> DEFINE Adds(f, i) == IF i = 1 THEN e[i] ELSE f[i - 1] \o e[i]
           Upto(f, m) == \A i \in 1..m : f[i] = Adds(f, i)
           T == {m \in Nat : m <= n /\ ~ \E f \in [1..n -> Strings] : Upto(f, m)}
<1>1. n \notin T
  <2> SUFFICES ASSUME T # {} PROVE FALSE
    OBVIOUS
  <2>1. PICK m \in T : \A j \in T : m <= j
    <3>1. T \in SUBSET Nat
      OBVIOUS
    <3> HIDE DEF T
    <3> QED BY <3>1, Least
  <2>2. m \in Nat /\ m <= n /\ \A f \in [1..n -> Strings] : ~Upto(f, m)
    <3> HIDE DEF Upto
    <3> QED BY <2>1
  <2>3. m # 0
    <3>1. e \in [1..n -> Strings] /\ Upto(e, 0)
      OBVIOUS
    <3> HIDE DEF Upto
    <3> QED BY <2>2, <3>1
  <2>4. m - 1 \in Nat /\ m - 1 <= n /\ m \in 1..n /\ m - 1 < m
    BY <2>2, <2>3
  <2>5. PICK f \in [1..n -> Strings] : Upto(f, m - 1)
    <3>1. m - 1 \notin T
      <4> SUFFICES ASSUME m - 1 \in T PROVE FALSE
        OBVIOUS
      <4>1. m <= m - 1
        <5> HIDE DEF T
        <5> QED BY <2>1
      <4> HIDE DEF T
      <4> QED BY <2>4, <4>1
    <3> HIDE DEF Upto
    <3> QED BY <2>4, <3>1
  <2> DEFINE a == Adds(f, m)
             h == [i \in 1..n |-> IF i = m THEN a ELSE f[i]]
  <2>6. a \in Strings
    <3>1. m # 1 => m - 1 \in 1..n
      BY <2>4
    <3>2. m # 1 => f[m - 1] \o e[m] \in Strings
      BY <2>4, <3>1, Concatenation
    <3> QED BY <2>4, <3>2
  <2> HIDE DEF a
  <2>7. h \in [1..n -> Strings]
    BY <2>6
  <2>8. ASSUME NEW i \in 1..m PROVE h[i] = Adds(h, i)
    <3>1. i \in 1..n /\ (i # 1 => i - 1 \in 1..n /\ i - 1 # m)
      BY <2>4
    <3>2. Adds(h, i) = Adds(f, i)
      BY <3>1
    <3>3. CASE i = m
      <4>1. h[i] = a
        BY <3>1, <3>3
      <4> HIDE DEF h, Adds
      <4> QED BY <3>2, <3>3, <4>1 DEF a
    <3>4. CASE i # m
      <4>1. i \in 1..(m - 1) /\ h[i] = f[i]
        BY <2>4, <3>1, <3>4
      <4>2. f[i] = Adds(f, i)
        <5> HIDE DEF Adds
        <5> QED BY <2>5, <4>1
      <4> HIDE DEF h, Adds
      <4> QED BY <3>2, <4>1, <4>2
    <3> QED BY <3>3, <3>4
  <2>9. Upto(h, m)
    <3> HIDE DEF h, Adds
    <3> QED BY <2>8
  <2> HIDE DEF Upto, h
  <2> QED BY <2>2, <2>7, <2>9
<1>2. PICK f \in [1..n -> Strings] : Upto(f, n)
  <2>1. n \in Nat /\ n <= n
    OBVIOUS
  <2> HIDE DEF Upto
  <2> QED BY <1>1, <2>1
<1> DEFINE g == [i \in 0..n |-> IF i = 0 THEN << >> ELSE f[i]]
<1>3. g \in [0..n -> Strings] /\ g[0] = << >>
  <2>1. << >> \in Strings
    BY DEF Strings
  <2>2. \A i \in 0..n : i # 0 => f[i] \in Strings
    OBVIOUS
  <2> QED BY <2>1, <2>2
<1>4. ASSUME NEW i \in 1..n PROVE g[i] = g[i - 1] \o e[i]
  <2>1. g[i] = f[i] /\ f[i] = Adds(f, i) /\ i - 1 \in 0..n
    BY <1>2
  <2>2. CASE i = 1
    <3>1. g[i - 1] = << >> /\ f[i] = e[i] /\ e[i] \in Strings
      BY <2>1, <2>2
    <3> HIDE DEF g
    <3> QED BY <2>1, <3>1, Concatenation
  <2>3. CASE i # 1
    <3>1. g[i - 1] = f[i - 1]
      BY <2>1, <2>3
    <3> HIDE DEF g
    <3> QED BY <2>1, <2>3, <3>1
  <2> QED BY <2>2, <2>3
<1>5. Len(e) = n
  OBVIOUS
<1>6. CASE n = 0
  <2>1. e = << >>
    BY <1>6
  <2>2. FlattenSeq(e) = e
    BY <1>5, <1>6 DEF FlattenSeq
  <2> HIDE DEF g
  <2> QED BY <1>3, <1>4, <1>6, <2>1, <2>2
<1>7. CASE n # 0
  <2> DEFINE Fixed(h) == h = [i \in 1..n |-> Adds(h, i)]
             flatten == CHOOSE h : Fixed(h)
  <2>1. FlattenSeq(e) = flatten[n]
    BY <1>5, <1>7 DEF FlattenSeq
  <2>2. Fixed(f)
    <3>1. \A i \in 1..n : f[i] = Adds(f, i)
      BY <1>2
    <3>2. f = [i \in 1..n |-> f[i]]
      OBVIOUS
    <3> HIDE DEF Adds
    <3> QED BY <3>1, <3>2
  <2>3. Fixed(flatten)
    <3> HIDE DEF Fixed
    <3> QED BY <2>2
  <2> HIDE DEF flatten
  <2> DEFINE D == {i \in Nat : i \in 1..n /\ flatten[i] # f[i]}
  <2>4. D = {}
    <3> SUFFICES ASSUME D # {} PROVE FALSE
      OBVIOUS
    <3>1. PICK i \in D : \A j \in D : i <= j
      <4>1. D \in SUBSET Nat
        OBVIOUS
      <4> HIDE DEF D
      <4> QED BY <4>1, Least
    <3>2. i \in 1..n /\ flatten[i] # f[i]
      BY <3>1
    <3>3. i # 1 => i - 1 \in 1..n /\ flatten[i - 1] = f[i - 1]
      <4> SUFFICES ASSUME i # 1, flatten[i - 1] # f[i - 1] PROVE FALSE
        BY <3>2
      <4>1. i - 1 \in D /\ ~(i <= i - 1)
        BY <3>2
      <4> HIDE DEF D
      <4> QED BY <3>1, <4>1
    <3>4. flatten[i] = Adds(flatten, i)
      BY <2>3, <3>2
    <3>5. f[i] = Adds(f, i)
      BY <1>2, <3>2
    <3> HIDE DEF Fixed, D
    <3> QED BY <3>2, <3>3, <3>4, <3>5
  <2>5. flatten[n] = f[n]
    <3>1. n \in 1..n /\ n \in Nat
      BY <1>7
    <3> HIDE DEF Fixed
    <3> QED BY <2>4, <3>1
  <2>6. g[n] = f[n] /\ g[0] = << >>
    BY <1>7
  <2> HIDE DEF g, Fixed
  <2> QED BY <1>3, <1>4, <2>1, <2>5, <2>6
<1> QED BY <1>6, <1>7

\* c is a, and then b.
Joins(c, a, b) ==
    /\ c \in Strings
    /\ Len(a) \in Nat /\ Len(b) \in Nat /\ Len(c) = Len(a) + Len(b)
    /\ \A i \in 1..Len(a) : c[i] = a[i]
    /\ \A i \in 1..Len(b) : c[Len(a) + i] = b[i]

LEMMA Joining == \A a, b \in Strings : Joins(a \o b, a, b)
BY DEF Strings, Joins

\* Where the pieces between the quotes of a string are: the j-th one ends at
\* b[j].
Divides(b, c, n, e) ==
    /\ b[0] = 1 /\ b[n] = Len(c) - 1
    /\ \A j \in 1..n :
          /\ b[j] = b[j - 1] + Len(e[j])
          /\ \A i \in 1..Len(e[j]) : c[b[j - 1] + i] = e[j][i]

LEMMA Pieces ==
    ASSUME NEW n \in Nat, NEW e \in [1..n -> Strings], NEW c,
           Quote \in Chars, c = <<Quote>> \o FlattenSeq(e) \o <<Quote>>
    PROVE  /\ c \in Strings /\ Len(c) >= 2 /\ c[1] = Quote /\ c[Len(c)] = Quote
           /\ \E b \in [0..n -> Nat] : Divides(b, c, n, e)
<1>1. PICK g \in [0..n -> Strings] :
         /\ g[0] = << >>
         /\ \A i \in 1..n : g[i] = g[i - 1] \o e[i]
         /\ g[n] = FlattenSeq(e)
  BY Flattening
<1>2. n \in 0..n /\ g[n] \in Strings
  OBVIOUS
<1> DEFINE Prefix(j) == /\ Len(g[j]) <= Len(g[n])
                        /\ \A i \in 1..Len(g[j]) : g[n][i] = g[j][i]
           T == {m \in Nat : m <= n /\ ~Prefix(n - m)}
<1>3. ASSUME NEW j \in 1..n
      PROVE  /\ j - 1 \in 0..n /\ g[j - 1] \in Strings /\ g[j] \in Strings
             /\ e[j] \in Strings
             /\ Len(g[j - 1]) \in Nat /\ Len(e[j]) \in Nat
             /\ Len(g[j]) = Len(g[j - 1]) + Len(e[j])
             /\ \A i \in 1..Len(g[j - 1]) : g[j][i] = g[j - 1][i]
             /\ \A i \in 1..Len(e[j]) : g[j][Len(g[j - 1]) + i] = e[j][i]
  <2>1. /\ j - 1 \in 0..n /\ g[j - 1] \in Strings /\ g[j] \in Strings
        /\ e[j] \in Strings /\ g[j] = g[j - 1] \o e[j]
    BY <1>1
  <2>3. Joins(g[j], g[j - 1], e[j])
    BY <2>1, Joining
  <2> QED BY <2>1, <2>3 DEF Joins
<1>4. ASSUME NEW j \in 0..n PROVE Prefix(j)
  <2>1. T = {}
    <3> SUFFICES ASSUME T # {} PROVE FALSE
      OBVIOUS
    <3>1. PICK m \in T : \A k \in T : m <= k
      <4>1. T \in SUBSET Nat
        OBVIOUS
      <4> HIDE DEF T
      <4> QED BY <4>1, Least
    <3>2. m \in Nat /\ m <= n /\ ~Prefix(n - m)
      BY <3>1
    <3>3. m # 0
      <4>1. Len(g[n]) <= Len(g[n])
        BY <1>2 DEF Strings
      <4>2. Prefix(n - 0)
        BY <4>1
      <4> HIDE DEF Prefix
      <4> QED BY <3>2, <4>2
    <3>4. m - 1 \in Nat /\ m - 1 <= n /\ ~(m <= m - 1)
      BY <3>2, <3>3
    <3>5. m - 1 \notin T
      <4> HIDE DEF T
      <4> QED BY <3>1, <3>4
    <3>6. Prefix(n - (m - 1))
      <4> HIDE DEF Prefix
      <4> QED BY <3>4, <3>5
    <3>7. n - (m - 1) \in 1..n /\ (n - (m - 1)) - 1 = n - m
      BY <3>2, <3>3
    <3> DEFINE k == n - (m - 1)
    <3>8. k \in 1..n /\ k - 1 = n - m /\ Prefix(k)
      BY <3>6, <3>7
    <3> HIDE DEF k
    <3>9. Prefix(k - 1)
      <4>1. Len(g[n]) \in Nat
        BY <1>2 DEF Strings
      <4>2. \A i \in 1..Len(g[k - 1]) : i \in 1..Len(g[k])
        BY <1>3, <3>8
      <4>3. /\ Len(g[k]) \in Nat /\ Len(g[k - 1]) <= Len(g[k])
            /\ \A i \in 1..Len(g[k - 1]) : g[k][i] = g[k - 1][i]
        <5>1. Len(g[k]) \in Nat
          BY <3>8 DEF Strings
        <5>2. /\ Len(g[k - 1]) \in Nat /\ Len(e[k]) \in Nat
              /\ Len(g[k]) = Len(g[k - 1]) + Len(e[k])
              /\ \A i \in 1..Len(g[k - 1]) : g[k][i] = g[k - 1][i]
          BY <1>3, <3>8, Zenon
        <5>3. \A x, y, z : x \in Nat /\ y \in Nat /\ z = x + y => x <= z
          OBVIOUS
        <5>4. Len(g[k - 1]) <= Len(g[k])
          BY <5>2, <5>3, Zenon
        <5> QED BY <5>1, <5>2, <5>4
      <4>4. Len(g[k]) <= Len(g[n]) /\ \A i \in 1..Len(g[k]) : g[n][i] = g[k][i]
        BY <3>8
      <4>5. Len(g[k - 1]) <= Len(g[n])
        BY <1>3, <3>8, <4>1, <4>3, <4>4
      <4> QED BY <4>2, <4>3, <4>4, <4>5
    <3> HIDE DEF Prefix
    <3> QED BY <3>2, <3>8, <3>9
  <2>2. n - j \in Nat /\ n - j <= n /\ n - (n - j) = j
    OBVIOUS
  <2>3. n - j \notin T
    <3> HIDE DEF T
    <3> QED BY <2>1
  <2> HIDE DEF Prefix
  <2> QED BY <2>2, <2>3
<1> DEFINE q == <<Quote>>
           G == g[n]
<1>0. G \in Strings
  BY <1>2
<1>5. q \in Strings /\ Len(q) = 1 /\ q[1] = Quote /\ Len(G) \in Nat
  <2>1. q \in Strings /\ Len(q) = 1 /\ q[1] = Quote
    BY DEF Strings
  <2>2. Len(G) \in Nat
    <3> HIDE DEF q
    <3> QED BY <1>2 DEF Strings
  <2> QED BY <2>1, <2>2
<1>6. c = (q \o G) \o q
  BY <1>1
<1> HIDE DEF q, G
<1> DEFINE r == q \o G
<1>7. /\ r \in Strings /\ Len(r) = Len(G) + 1 /\ r[1] = Quote
      /\ \A i \in 1..Len(G) : r[1 + i] = G[i]
  <2>1. /\ r \in Strings /\ Len(r) = Len(q) + Len(G)
        /\ \A i \in 1..Len(q) : r[i] = q[i]
        /\ \A i \in 1..Len(G) : r[Len(q) + i] = G[i]
    <3>1. Joins(r, q, G)
      BY <1>0, <1>5, Joining
    <3> HIDE DEF r
    <3> QED BY <3>1 DEF Joins
  <2> HIDE DEF r
  <2> QED BY <1>5, <2>1
<1> HIDE DEF r
<1>8. /\ c \in Strings /\ Len(c) = Len(G) + 2
      /\ c[1] = Quote /\ c[Len(G) + 2] = Quote
      /\ \A i \in 1..Len(G) : c[1 + i] = G[i]
  <2>1. c = r \o q
    BY <1>6 DEF r
  <2>2. /\ c \in Strings /\ Len(c) = Len(r) + Len(q)
        /\ \A i \in 1..Len(r) : c[i] = r[i]
        /\ \A i \in 1..Len(q) : c[Len(r) + i] = q[i]
    <3>1. Joins(c, r, q)
      BY <1>5, <1>7, <2>1, Joining
    <3> QED BY <3>1 DEF Joins
  <2>3. /\ 1 \in 1..Len(q) /\ 1 \in 1..Len(r)
        /\ Len(r) + 1 = Len(G) + 2
        /\ \A i \in 1..Len(G) : 1 + i \in 1..Len(r)
    BY <1>5, <1>7
  <2> QED BY <1>5, <1>7, <2>2, <2>3
<1> DEFINE b == [j \in 0..n |-> 1 + Len(g[j])]
<1>9. b \in [0..n -> Nat] /\ b[0] = 1 /\ b[n] = Len(c) - 1
  <2>1. \A j \in 0..n : Len(g[j]) \in Nat
    BY DEF Strings
  <2>2. b \in [0..n -> Nat]
    BY <2>1
  <2>3. Len(g[0]) = 0 /\ 0 \in 0..n /\ n \in 0..n
    BY <1>1
  <2>4. b[0] = 1 + Len(g[0]) /\ b[n] = 1 + Len(g[n])
    BY <2>3
  <2>5. 1 + Len(G) = Len(c) - 1
    BY <1>5, <1>8
  <2> HIDE DEF b
  <2> QED BY <2>2, <2>3, <2>4, <2>5 DEF G
<1>10. ASSUME NEW j \in 1..n
       PROVE  /\ b[j] = b[j - 1] + Len(e[j])
              /\ \A i \in 1..Len(e[j]) : c[b[j - 1] + i] = e[j][i]
  <2>1. b[j] = 1 + Len(g[j]) /\ b[j - 1] = 1 + Len(g[j - 1])
    BY <1>3
  <2> DEFINE before == Len(g[j - 1])
             l == Len(e[j])
  <2>2. /\ before \in Nat /\ l \in Nat
        /\ b[j] = 1 + (before + l) /\ b[j - 1] = 1 + before
        /\ \A i \in 1..l : g[j][before + i] = e[j][i]
        /\ Len(g[j]) = before + l
    <3> HIDE DEF b
    <3> QED BY <1>3, <2>1
  <2> HIDE DEF b, before, l
  <2>4. b[j] = b[j - 1] + l
    BY <2>2
  <2>3. ASSUME NEW i \in 1..l PROVE c[b[j - 1] + i] = e[j][i]
    <3>1. /\ before + i \in 1..Len(g[j])
          /\ b[j - 1] + i = 1 + (before + i)
      BY <2>2
    <3>2. Prefix(j)
      BY <1>4
    <3>3. Len(g[j]) <= Len(G) /\ G[before + i] = g[j][before + i]
      BY <3>1, <3>2 DEF G
    <3>4. before + i \in 1..Len(G)
      BY <1>5, <2>2, <3>1, <3>3
    <3>5. c[1 + (before + i)] = G[before + i]
      BY <1>8, <3>4
    <3> QED BY <2>2, <3>1, <3>3, <3>5
  <2> QED BY <2>3, <2>4 DEF l
<1>11. Len(c) >= 2
  BY <1>5, <1>8
<1> HIDE DEF b
<1>12. Divides(b, c, n, e)
  BY <1>9, <1>10 DEF Divides
<1> QED BY <1>8, <1>9, <1>11, <1>12

-----------------------------------------------------------------------------
(* What GDB makes of a character, and what becomes of it.                  *)

LEMMA EscapedShape ==
    ASSUME NEW ch
    PROVE  \/ /\ Escaped(ch) = <<ch>> /\ ch # "NUL"
              /\ ch \notin {Quote, Backslash}
           \/ /\ ch # "NUL"
              /\ \E x \in DOMAIN Escapes :
                    Escaped(ch) = <<Backslash, x>> /\ Escapes[x] = ch /\ x # "LF"
           \/ ch = "NUL" /\ Escaped(ch) = <<Backslash, "0", "0", "0">>
<1> DEFINE letters == {"n", "b", "t", "f", "r", "e", "a"}
<1>1. CASE ch \in {Quote, Backslash}
  <2>1. /\ ch # "NUL"
        /\ ch \notin {"LF", "BS", "TAB", "FF", "CR", "ESC", "BEL"}
    BY <1>1 DEF Quote, Backslash
  <2>2. ch \in DOMAIN Escapes /\ Escapes[ch] = ch
    BY <1>1, EscapeFacts
  <2>3. Escaped(ch) = <<Backslash, ch>>
    BY <1>1, <2>1 DEF Escaped
  <2> QED BY <2>1, <2>2, <2>3
<1>2. CASE ch = "NUL"
  <2>1. ch \notin {Quote, Backslash}
    BY <1>2 DEF Quote, Backslash
  <2>2. Escaped(ch) = <<Backslash, "0", "0", "0">>
    BY <1>2, <2>1 DEF Escaped
  <2> QED BY <1>2, <2>2
<1>3. CASE ch \in {"LF", "BS", "TAB", "FF", "CR", "ESC", "BEL"}
  <2>1. ch \notin {Quote, Backslash} /\ ch # "NUL"
    BY <1>3 DEF Quote, Backslash
  <2> DEFINE x == CHOOSE e \in letters : Escapes[e] = ch
  <2>2. Escaped(ch) = <<Backslash, x>>
    BY <1>3, <2>1 DEF Escaped
  <2>3. \E e \in letters : Escapes[e] = ch
    BY <1>3, EscapeFacts
  <2>4. x \in letters /\ Escapes[x] = ch
    BY <2>3
  <2> HIDE DEF x
  <2>5. x \in DOMAIN Escapes /\ x # "LF"
    BY <2>4, EscapeFacts
  <2> QED BY <2>1, <2>2, <2>4, <2>5
<1>4. CASE /\ ch \notin {Quote, Backslash} /\ ch # "NUL"
           /\ ch \notin {"LF", "BS", "TAB", "FF", "CR", "ESC", "BEL"}
  <2>1. Escaped(ch) = <<ch>>
    BY <1>4 DEF Escaped
  <2> QED BY <1>4, <2>1
<1> QED BY <1>1, <1>2, <1>3, <1>4

\* What the client has of it.
KeptOf(ch) == IF ch = "NUL" THEN Escaped(ch) ELSE <<ch>>

LEMMA PieceTypes ==
    ASSUME NEW ch \in Chars
    PROVE  Escaped(ch) \in Strings /\ KeptOf(ch) \in Strings
<1>1. /\ "0" \in Chars /\ Backslash \in Chars
      /\ \A x \in DOMAIN Escapes : x \in Chars
  BY PairsAssumption, EscapeFacts DEF Written
<1>2. \A x, y \in Chars :
          <<x>> \in Strings /\ <<x, y>> \in Strings /\ <<x, y, y, y>> \in Strings
  BY DEF Strings
<1>3. Escaped(ch) \in Strings
  <2>1. CASE Escaped(ch) = <<ch>>
    BY <1>2, <2>1
  <2>2. ASSUME NEW x \in DOMAIN Escapes, Escaped(ch) = <<Backslash, x>>
        PROVE  Escaped(ch) \in Strings
    BY <1>1, <1>2, <2>2
  <2>3. CASE Escaped(ch) = <<Backslash, "0", "0", "0">>
    BY <1>1, <1>2, <2>3
  <2> QED BY <2>1, <2>2, <2>3, EscapedShape
<1> QED BY <1>2, <1>3 DEF KeptOf

\* The characters after the k-th one of c are those of a piece.
HasPiece(c, k, e) ==
    /\ Len(c) \in Nat /\ k \in Nat /\ k >= 1 /\ k + Len(e) < Len(c)
    /\ \A i \in 1..Len(e) : c[k + i] = e[i]

\* A piece goes on with the body.
LEMMA PieceInBody ==
    ASSUME NEW c, NEW k, NEW ch, HasPiece(c, k, Escaped(ch)), Body(c)[k]
    PROVE  Body(c)[k + Len(Escaped(ch))]
<1> DEFINE b == Body(c)
<1>0. k \in Nat /\ k >= 1 /\ b[k]
  BY DEF HasPiece
<1>1. ASSUME NEW m \in Nat, m >= 1, b[m], c[m + 1] \notin {Quote, Backslash}
      PROVE  b[m + 1]
  <2>1. m + 1 \in Nat /\ m + 1 > 1 /\ (m + 1) - 1 = m
    BY <1>1
  <2> HIDE DEF b
  <2> QED BY <1>1, <2>1, BodyIs DEF b
<1>2. ASSUME NEW m \in Nat, m >= 1, b[m], c[m + 1] = Backslash,
             c[m + 2] # "LF"
      PROVE  b[m + 2]
  <2>1. m + 2 \in Nat /\ m + 2 > 2 /\ (m + 2) - 1 = m + 1 /\ (m + 2) - 2 = m
    BY <1>2
  <2> HIDE DEF b
  <2> QED BY <1>2, <2>1, BodyIs DEF b
<1> HIDE DEF b
<1>3. CASE Escaped(ch) = <<ch>> /\ ch \notin {Quote, Backslash}
  <2>1. c[k + 1] = ch
    BY <1>3 DEF HasPiece
  <2>2. Len(Escaped(ch)) = 1
    BY <1>3
  <2> QED BY <1>0, <1>1, <1>3, <2>1, <2>2 DEF b
<1>4. ASSUME NEW x, Escaped(ch) = <<Backslash, x>>, x # "LF"
      PROVE  b[k + Len(Escaped(ch))]
  <2>1. c[k + 1] = Backslash /\ c[k + 2] = x
    BY <1>4 DEF HasPiece
  <2>2. Len(Escaped(ch)) = 2
    BY <1>4
  <2> QED BY <1>0, <1>2, <1>4, <2>1, <2>2
<1>5. CASE Escaped(ch) = <<Backslash, "0", "0", "0">>
  <2>1. /\ c[k + 1] = Backslash /\ c[k + 2] = "0"
        /\ c[k + 3] = "0" /\ c[k + 4] = "0"
    BY <1>5 DEF HasPiece
  <2>2. Len(Escaped(ch)) = 4
    BY <1>5
  <2>3. b[k + 2]
    BY <1>0, <1>2, <2>1
  <2>4. "0" \notin {Quote, Backslash}
    BY DEF Quote, Backslash
  <2>5. b[k + 3]
    <3>1. (k + 2) + 1 = k + 3 /\ k + 2 \in Nat /\ k + 2 >= 1
      BY <1>0
    <3> QED BY <1>1, <2>1, <2>3, <2>4, <3>1
  <2>6. b[k + 4]
    <3>1. (k + 3) + 1 = k + 4 /\ k + 3 \in Nat /\ k + 3 >= 1
      BY <1>0
    <3> QED BY <1>1, <2>1, <2>4, <2>5, <3>1
  <2> QED BY <2>2, <2>6 DEF b
<1> QED BY <1>3, <1>4, <1>5, EscapedShape DEF b

LEMMA FromText ==
    ASSUME NEW c \in Strings
    PROVE  \A k \in Nat : k >= 1 => From(c)[k].text \in Strings
<1> DEFINE n == Len(c)
           from == From(c)
           T == {m \in Nat : \E k \in Nat : /\ m + k = n /\ k >= 1
                                            /\ from[k].text \notin Strings}
<1>1. n \in Nat /\ << >> \in Strings
  BY DEF Strings
<1>2. \A k \in Nat :
        /\ k >= n => from[k].text = << >>
        /\ k < n => from[k].text = <<Char(c, k)>> \o from[After(c, k)].text
  <2> SUFFICES ASSUME NEW k \in Nat
               PROVE  /\ k >= n => from[k].text = << >>
                      /\ k < n => from[k].text =
                                    <<Char(c, k)>> \o from[After(c, k)].text
    OBVIOUS
  <2>1. from[k] = IF k >= Len(c) THEN [text |-> << >>, stop |-> k]
                  ELSE [text |-> <<Char(c, k)>> \o from[After(c, k)].text,
                        stop |-> from[After(c, k)].stop]
    BY <1>1, FromIs
  <2> HIDE DEF from
  <2> QED BY <1>1, <2>1
<1>3. T = {}
  <2> SUFFICES ASSUME T # {} PROVE FALSE
    OBVIOUS
  <2>1. PICK m \in T : \A j \in T : m <= j
    <3>1. T \in SUBSET Nat
      OBVIOUS
    <3> HIDE DEF T
    <3> QED BY <3>1, Least
  <2>2. PICK k \in Nat : m + k = n /\ k >= 1 /\ from[k].text \notin Strings
    BY <2>1
  <2>3. m \in Nat
    BY <2>1
  <2> HIDE DEF from, n
  <2>4. k < n
    <3>1. k >= n => from[k].text \in Strings
      BY <1>1, <1>2, Zenon
    <3>2. ~(k >= n)
      BY <2>2, <3>1
    <3> QED BY <1>1, <3>2
  <2>5. After(c, k) \in Nat /\ After(c, k) > k /\ After(c, k) >= 1
    BY DEF After
  <2>6. from[After(c, k)].text \in Strings
    <3>1. CASE After(c, k) >= n
      BY <1>1, <1>2, <2>5, <3>1
    <3>2. CASE After(c, k) < n
      <4> SUFFICES ASSUME from[After(c, k)].text \notin Strings PROVE FALSE
        OBVIOUS
      <4>1. n - After(c, k) \in Nat /\ (n - After(c, k)) + After(c, k) = n
        BY <1>1, <2>5, <3>2
      <4>2. n - After(c, k) \in T
        <5> HIDE DEF n, from
        <5> QED BY <2>5, <4>1
      <4>3. ~ (m <= n - After(c, k))
        BY <1>1, <2>2, <2>3, <2>5, <4>1
      <4> HIDE DEF T
      <4> QED BY <2>1, <4>2, <4>3
    <3> QED BY <1>1, <2>5, <3>1, <3>2
  <2>7. Char(c, k) \in Chars
    <3>1. k \in 1..Len(c)
      BY <2>2, <2>4 DEF n
    <3>2. c[k] \in Chars
      BY <3>1 DEF Strings
    <3>3. \A x \in DOMAIN Escapes : Escapes[x] \in Chars
      BY PairsAssumption
    <3> QED BY <3>2, <3>3 DEF Char, IsEscape
  <2>8. <<Char(c, k)>> \in Strings
    BY <2>7 DEF Strings
  <2>9. <<Char(c, k)>> \o from[After(c, k)].text \in Strings
    BY <2>6, <2>8, Concatenation
  <2> QED BY <1>2, <2>2, <2>4, <2>9
<1> HIDE DEF T, n, from
<1>4. ASSUME NEW k \in Nat, k >= 1 PROVE from[k].text \in Strings
  <2>1. CASE k >= n
    BY <1>1, <1>2, <2>1
  <2>2. CASE k < n
    <3>1. n - k \in Nat /\ (n - k) + k = n
      BY <1>1, <2>2
    <3>2. n - k \notin T
      BY <1>3
    <3> QED BY <1>4, <3>1, <3>2 DEF T
  <2> QED BY <1>1, <2>1, <2>2
<1> QED BY <1>4 DEF from

LEMMA Associativity ==
    ASSUME NEW a \in Strings, NEW b \in Strings, NEW c \in Strings
    PROVE  a \o (b \o c) = (a \o b) \o c
BY DEF Strings

LEMMA Regrouped ==
    ASSUME NEW a \in Strings, NEW z \in Strings, NEW r \in Strings
    PROVE  a \o (z \o (z \o (z \o r))) = (((a \o z) \o z) \o z) \o r
<1> DEFINE p == z \o r
           q == z \o p
           two == a \o z
           three == two \o z
<1>1. p \in Strings /\ two \in Strings
  BY Concatenation
<1>2. three \o (z \o r) = (three \o z) \o r
  <2>1. three \in Strings
    BY <1>1, Concatenation
  <2> HIDE DEF three
  <2> QED BY <2>1, Associativity
<1> HIDE DEF p, two
<1>3. q \in Strings
  BY <1>1, Concatenation
<1>4. two \o (z \o p) = (two \o z) \o p
  BY <1>1, Associativity
<1> HIDE DEF q
<1>5. a \o (z \o q) = (a \o z) \o q
  BY <1>3, Associativity
<1> QED BY <1>2, <1>4, <1>5 DEF p, q, two

LEMMA FourCharacters ==
    ASSUME NEW s \in Strings, Len(s) = 4
    PROVE  s = <<s[1], s[2], s[3], s[4]>>
BY DEF Strings

\* Unescaping undoes what GDB makes of one character, unless that is octal.
LEMMA PieceUnescaped ==
    ASSUME NEW c \in Strings, NEW k, NEW ch \in Chars,
           HasPiece(c, k, Escaped(ch))
    PROVE  From(c)[k + 1].text =
              KeptOf(ch) \o From(c)[k + Len(Escaped(ch)) + 1].text
<1> DEFINE from == From(c)
<1>0. k \in Nat /\ k >= 1 /\ Len(c) \in Nat /\ k + Len(Escaped(ch)) < Len(c)
  BY DEF HasPiece
<1>1. ASSUME NEW m \in Nat, m < Len(c)
      PROVE  from[m].text = <<Char(c, m)>> \o from[After(c, m)].text
  <2>1. from[m] = IF m >= Len(c) THEN [text |-> << >>, stop |-> m]
                  ELSE [text |-> <<Char(c, m)>> \o from[After(c, m)].text,
                        stop |-> from[After(c, m)].stop]
    BY <1>0, FromIs
  <2> HIDE DEF from
  <2> QED BY <1>0, <1>1, <2>1
<1>2. \A m \in Nat : m >= 1 => from[m].text \in Strings
  BY FromText
<1> HIDE DEF from
<1>3. CASE /\ Escaped(ch) = <<ch>> /\ ch # "NUL"
           /\ ch \notin {Quote, Backslash}
  <2>1. c[k + 1] = ch /\ Len(Escaped(ch)) = 1
    BY <1>3 DEF HasPiece
  <2>2. k + 1 \in Nat /\ k + 1 < Len(c) /\ k + Len(Escaped(ch)) + 1 = (k + 1) + 1
    BY <1>0, <2>1
  <2>3. Char(c, k + 1) = ch /\ After(c, k + 1) = (k + 1) + 1
    BY <1>3, <2>1 DEF Char, After, IsEscape
  <2>4. KeptOf(ch) = <<ch>>
    BY <1>3 DEF KeptOf
  <2> QED BY <1>1, <2>2, <2>3, <2>4 DEF from
<1>4. ASSUME NEW x \in DOMAIN Escapes, ch # "NUL",
             Escaped(ch) = <<Backslash, x>>, Escapes[x] = ch
      PROVE  from[k + 1].text =
                KeptOf(ch) \o from[k + Len(Escaped(ch)) + 1].text
  <2>1. c[k + 1] = Backslash /\ c[k + 2] = x /\ Len(Escaped(ch)) = 2
    BY <1>4 DEF HasPiece
  <2>2. /\ k + 1 \in Nat /\ k + 1 < Len(c) /\ (k + 1) + 1 = k + 2
        /\ k + Len(Escaped(ch)) + 1 = (k + 1) + 2
    BY <1>0, <2>1
  <2>3. Char(c, k + 1) = ch /\ After(c, k + 1) = (k + 1) + 2
    BY <1>4, <2>1, <2>2 DEF Char, After, IsEscape
  <2>4. KeptOf(ch) = <<ch>>
    BY <1>4 DEF KeptOf
  <2> QED BY <1>1, <2>2, <2>3, <2>4
<1>5. CASE ch = "NUL" /\ Escaped(ch) = <<Backslash, "0", "0", "0">>
  <2>0. Len(Escaped(ch)) = 4
    BY <1>5
  <2>1. /\ c[k + 1] = Backslash /\ c[k + 2] = "0"
        /\ c[k + 3] = "0" /\ c[k + 4] = "0"
    <3>1. /\ Escaped(ch)[1] = Backslash /\ Escaped(ch)[2] = "0"
          /\ Escaped(ch)[3] = "0" /\ Escaped(ch)[4] = "0"
      BY <1>5
    <3>2. \A i \in 1..4 : c[k + i] = Escaped(ch)[i]
      BY <2>0 DEF HasPiece
    <3> QED BY <3>1, <3>2
  <2>2. "0" \notin DOMAIN Escapes /\ "0" # Backslash
    BY EscapeFacts DEF Quote, Backslash
  <2>3. /\ k + 1 \in Nat /\ k + 2 \in Nat /\ k + 3 \in Nat /\ k + 4 \in Nat
        /\ (k + 1) + 1 = k + 2 /\ (k + 2) + 1 = k + 3
        /\ (k + 3) + 1 = k + 4 /\ (k + 4) + 1 = k + 5
        /\ k + Len(Escaped(ch)) + 1 = k + 5
        /\ k + 1 < Len(c) /\ k + 2 < Len(c) /\ k + 3 < Len(c)
        /\ k + 4 < Len(c) /\ k + 5 \in Nat /\ k + 5 >= 1
    BY <1>0, <2>0
  <2>4. /\ Char(c, k + 1) = Backslash /\ After(c, k + 1) = k + 2
        /\ Char(c, k + 2) = "0" /\ After(c, k + 2) = k + 3
        /\ Char(c, k + 3) = "0" /\ After(c, k + 3) = k + 4
        /\ Char(c, k + 4) = "0" /\ After(c, k + 4) = k + 5
    BY <2>1, <2>2, <2>3 DEF Char, After, IsEscape
  <2> DEFINE r == from[k + 5].text
  <2>5. r \in Strings
    BY <1>2, <2>3
  <2>6. /\ from[k + 1].text = <<Backslash>> \o from[k + 2].text
        /\ from[k + 2].text = <<"0">> \o from[k + 3].text
        /\ from[k + 3].text = <<"0">> \o from[k + 4].text
        /\ from[k + 4].text = <<"0">> \o r
    BY <1>1, <2>3, <2>4
  <2> HIDE DEF r
  <2>7. "0" \in Chars /\ Backslash \in Chars
    BY PairsAssumption, EscapeFacts DEF Written
  <2>8. \A x, y \in Chars :
          <<x>> \o (<<y>> \o (<<y>> \o (<<y>> \o r))) = <<x, y, y, y>> \o r
    <3> SUFFICES ASSUME NEW x \in Chars, NEW y \in Chars
                 PROVE  <<x>> \o (<<y>> \o (<<y>> \o (<<y>> \o r))) =
                           <<x, y, y, y>> \o r
      OBVIOUS
    <3> DEFINE a == <<x>>
               z == <<y>>
    <3>1. a \in Strings /\ z \in Strings
      BY DEF Strings
    <3>2. (((a \o z) \o z) \o z) = <<x, y, y, y>>
      <4> DEFINE two == a \o z
                 three == two \o z
                 four == three \o z
      <4>1. Len(a) = 1 /\ a[1] = x /\ Len(z) = 1 /\ z[1] = y
        OBVIOUS
      <4> HIDE DEF a, z
      <4>2. Joins(two, a, z)
        BY <3>1, Joining
      <4> HIDE DEF two
      <4>3. two \in Strings /\ Len(two) = 2 /\ two[1] = x /\ two[2] = y
        BY <4>1, <4>2 DEF Joins
      <4>4. Joins(three, two, z)
        BY <3>1, <4>3, Joining
      <4> HIDE DEF three
      <4>5. /\ three \in Strings /\ Len(three) = 3
            /\ three[1] = x /\ three[2] = y /\ three[3] = y
        BY <4>1, <4>3, <4>4 DEF Joins
      <4>6. Joins(four, three, z)
        BY <3>1, <4>5, Joining
      <4> HIDE DEF four
      <4>7. /\ four \in Strings /\ Len(four) = 4
            /\ four[1] = x /\ four[2] = y /\ four[3] = y /\ four[4] = y
        BY <4>1, <4>5, <4>6 DEF Joins
      <4>8. four = <<x, y, y, y>>
        BY <4>7, FourCharacters
      <4> QED BY <4>8 DEF four, three, two
    <3> HIDE DEF a, z
    <3>3. a \o (z \o (z \o (z \o r))) = (((a \o z) \o z) \o z) \o r
      BY <2>5, <3>1, Regrouped
    <3>4. a \o (z \o (z \o (z \o r))) = <<x, y, y, y>> \o r
      BY <3>2, <3>3, Zenon
    <3> QED BY <3>4, Zenon DEF a, z
  <2>9. KeptOf(ch) = <<Backslash, "0", "0", "0">>
    BY <1>5 DEF KeptOf
  <2>10. from[k + 1].text =
            <<Backslash>> \o (<<"0">> \o (<<"0">> \o (<<"0">> \o r)))
    BY <2>6, Zenon
  <2>11. from[k + 1].text = KeptOf(ch) \o r
    BY <2>7, <2>8, <2>9, <2>10, Zenon
  <2> QED BY <2>3, <2>11, Zenon DEF r, from
<1> QED BY <1>3, <1>4, <1>5, EscapedShape DEF from

\* gdbwire_mi_unescape_cstring undoes GDB's escapes: what GDB makes of a string
\* is one c-string, and the client gets that string back.
LEMMA CstringOfString ==
    ASSUME NEW s \in Strings
    PROVE  /\ CstringOf(s) \in Strings
           /\ IsCstring(CstringOf(s))
           /\ Unescape(CstringOf(s)).text = Kept(s)
<1> DEFINE n == Len(s)
           e == [i \in 1..n |-> Escaped(s[i])]
           w == [i \in 1..n |-> KeptOf(s[i])]
           c == CstringOf(s)
           body == Body(c)
           from == From(c)
<1>1. n \in Nat /\ \A i \in 1..n : s[i] \in Chars
  BY DEF Strings
<1>2. /\ e \in [1..n -> Strings] /\ w \in [1..n -> Strings]
      /\ \A i \in 1..n : e[i] = Escaped(s[i]) /\ w[i] = KeptOf(s[i])
  <2> HIDE DEF n
  <2> QED BY <1>1, PieceTypes
<1>3. c = <<Quote>> \o FlattenSeq(e) \o <<Quote>>
  BY DEF CstringOf
<1>4. Kept(s) = FlattenSeq(w)
  BY DEF Kept, KeptOf
<1>5. Quote \in Chars
  BY PairsAssumption, EscapeFacts DEF Written
<1> HIDE DEF e, w, c, n
<1>6. /\ c \in Strings /\ Len(c) >= 2 /\ c[1] = Quote /\ c[Len(c)] = Quote
      /\ \E b \in [0..n -> Nat] : Divides(b, c, n, e)
  BY <1>1, <1>2, <1>3, <1>5, Pieces
<1>7. PICK b \in [0..n -> Nat] :
         /\ b[0] = 1 /\ b[n] = Len(c) - 1
         /\ \A j \in 1..n :
               /\ b[j] = b[j - 1] + Len(e[j])
               /\ \A i \in 1..Len(e[j]) : c[b[j - 1] + i] = e[j][i]
  BY <1>6 DEF Divides
<1>8. PICK h \in [0..n -> Strings] :
         /\ h[0] = << >>
         /\ \A j \in 1..n : h[j] = h[j - 1] \o w[j]
         /\ h[n] = Kept(s)
  BY <1>1, <1>2, <1>4, Flattening
<1>9. Len(c) \in Nat
  BY <1>6 DEF Strings
<1>10. \A j \in 1..n : j - 1 \in 0..n /\ j \in 0..n /\ Len(e[j]) \in Nat
  BY <1>1, <1>2 DEF Strings
\* Each piece is within the quotes.
<1> DEFINE Within(j) == b[j] >= 1 /\ b[j] <= Len(c) - 1
<1>11. ASSUME NEW j \in 1..n, Within(j - 1), Within(j)
       PROVE  HasPiece(c, b[j - 1], Escaped(s[j]))
  <2>1. b[j - 1] \in Nat /\ b[j - 1] >= 1
    BY <1>10, <1>11
  <2>2. b[j - 1] + Len(Escaped(s[j])) < Len(c)
    BY <1>2, <1>7, <1>9, <1>11
  <2> QED BY <1>2, <1>7, <1>9, <2>1, <2>2 DEF HasPiece
<1> DEFINE Grows(j) == b[j] >= 1 /\ \A i \in 0..j : b[i] <= b[j]
           T == {j \in Nat : j <= n /\ ~Grows(j)}
<1>12. \A j \in 0..n : Grows(j)
  <2>1. T = {}
    <3> SUFFICES ASSUME T # {} PROVE FALSE
      OBVIOUS
    <3>1. PICK j \in T : \A i \in T : j <= i
      <4>1. T \in SUBSET Nat
        OBVIOUS
      <4> HIDE DEF T
      <4> QED BY <4>1, Least
    <3>2. j \in Nat /\ j <= n /\ ~Grows(j)
      BY <3>1
    <3>3. j # 0
      <4>1. Grows(0)
        BY <1>7
      <4> HIDE DEF Grows
      <4> QED BY <3>2, <4>1
    <3>4. j - 1 \in Nat /\ j - 1 <= n /\ ~(j <= j - 1) /\ j \in 1..n
      BY <1>1, <3>2, <3>3
    <3>5. j - 1 \notin T
      <4> HIDE DEF T
      <4> QED BY <3>1, <3>4
    <3>6. Grows(j - 1)
      <4> HIDE DEF Grows
      <4> QED BY <3>4, <3>5
    <3>7. b[j] \in Nat /\ b[j - 1] \in Nat /\ b[j - 1] <= b[j]
      <4>1. b[j] \in Nat /\ b[j - 1] \in Nat /\ Len(e[j]) \in Nat
        BY <1>10, <3>4
      <4>2. b[j] = b[j - 1] + Len(e[j])
        BY <1>7, <3>4
      <4> HIDE DEF T, Grows
      <4> QED BY <4>1, <4>2
    <3>8. \A i \in 0..(j - 1) : b[i] \in Nat
      BY <1>1, <3>4
    <3>9. \A i \in 0..j : i \in 0..(j - 1) \/ i = j
      BY <3>2
    <3>10. Grows(j)
      BY <3>6, <3>7, <3>8, <3>9
    <3> QED BY <3>2, <3>10
  <2>2. \A j \in 0..n : j \in Nat /\ j <= n
    BY <1>1
  <2> HIDE DEF Grows
  <2> QED BY <2>1, <2>2
<1>13. \A j \in 0..n : Within(j)
  <2>1. n \in 0..n
    BY <1>1
  <2>2. Grows(n)
    BY <1>12, <2>1
  <2> QED BY <1>7, <1>12, <2>2
<1> HIDE DEF Within, T, Grows
<1>14. \A j \in 1..n : HasPiece(c, b[j - 1], Escaped(s[j]))
  BY <1>10, <1>11, <1>13
<1> DEFINE Holds(j) ==
              /\ body[b[j]]
              /\ h[j] \o from[b[j] + 1].text = from[2].text
           U == {j \in Nat : j <= n /\ ~Holds(j)}
<1>15. \A k \in Nat : k >= 1 => from[k].text \in Strings
  BY <1>6, FromText
<1>16. Holds(0)
  <2>1. body[1]
    BY BodyIs
  <2>2. b[0] + 1 = 2 /\ h[0] = << >>
    BY <1>7, <1>8
  <2>3. from[2].text \in Strings
    BY <1>15
  <2> HIDE DEF body, from
  <2> QED BY <1>7, <2>1, <2>2, <2>3, Concatenation
<1>17. ASSUME NEW j \in 1..n, Holds(j - 1) PROVE Holds(j)
  <2>1. HasPiece(c, b[j - 1], Escaped(s[j])) /\ s[j] \in Chars
    BY <1>1, <1>14
  <2>2. b[j] = b[j - 1] + Len(Escaped(s[j]))
    BY <1>2, <1>7
  <2>3. body[b[j]]
    <3>1. Body(c)[b[j - 1]]
      BY <1>17
    <3>2. Body(c)[b[j - 1] + Len(Escaped(s[j]))]
      BY <2>1, <3>1, PieceInBody
    <3> QED BY <2>2, <3>2
  <2> DEFINE r == from[b[j] + 1].text
             before == from[b[j - 1] + 1].text
  <2>4. before = w[j] \o r
    <3>1. From(c)[b[j - 1] + 1].text =
             KeptOf(s[j]) \o From(c)[b[j - 1] + Len(Escaped(s[j])) + 1].text
      <4> DEFINE k == b[j - 1]
                 ch == s[j]
      <4>1. c \in Strings /\ ch \in Chars /\ HasPiece(c, k, Escaped(ch))
        BY <1>6, <2>1
      <4> HIDE DEF k, ch
      <4>2. From(c)[k + 1].text =
               KeptOf(ch) \o From(c)[k + Len(Escaped(ch)) + 1].text
        BY <4>1, PieceUnescaped
      <4> QED BY <4>2 DEF k, ch
    <3> QED BY <1>2, <2>2, <3>1
  <2>5. r \in Strings /\ w[j] \in Strings /\ h[j - 1] \in Strings
    <3>1. b[j] + 1 \in Nat /\ b[j] + 1 >= 1
      BY <1>10
    <3>2. r \in Strings
      <4> HIDE DEF from
      <4> QED BY <1>15, <3>1
    <3> HIDE DEF r
    <3> QED BY <1>2, <1>10, <3>2
  <2>6. h[j - 1] \o before = from[2].text
    BY <1>17
  <2>7. h[j] = h[j - 1] \o w[j]
    BY <1>8
  <2>8. h[j - 1] \o (w[j] \o r) = (h[j - 1] \o w[j]) \o r
    <3> HIDE DEF r
    <3> QED BY <2>5, Associativity
  <2>9. h[j] \o r = from[2].text
    <3> HIDE DEF r, before, from
    <3> QED BY <2>4, <2>6, <2>7, <2>8
  <2> QED BY <2>3, <2>9
<1>18. \A j \in 0..n : Holds(j)
  <2>1. U = {}
    <3> SUFFICES ASSUME U # {} PROVE FALSE
      OBVIOUS
    <3>1. PICK j \in U : \A i \in U : j <= i
      <4>1. U \in SUBSET Nat
        OBVIOUS
      <4> HIDE DEF U
      <4> QED BY <4>1, Least
    <3>2. j \in Nat /\ j <= n /\ ~Holds(j)
      BY <3>1
    <3> HIDE DEF Holds
    <3>3. j # 0
      BY <1>16, <3>2
    <3>4. j - 1 \in Nat /\ j - 1 <= n /\ ~(j <= j - 1) /\ j \in 1..n
      BY <1>1, <3>2, <3>3
    <3>5. j - 1 \notin U
      <4> HIDE DEF U
      <4> QED BY <3>1, <3>4
    <3>6. Holds(j - 1)
      BY <3>4, <3>5
    <3> QED BY <1>17, <3>2, <3>4, <3>6
  <2>2. \A j \in 0..n : j \in Nat /\ j <= n
    BY <1>1
  <2> HIDE DEF Holds
  <2> QED BY <2>1, <2>2
<1>19. Holds(n)
  <2>1. n \in 0..n
    BY <1>1
  <2> HIDE DEF Holds
  <2> QED BY <1>18, <2>1
<1>20. IsCstring(c)
  <2>1. Body(c)[Len(c) - 1]
    BY <1>7, <1>19
  <2> QED BY <1>6, <2>1, CstringHasBody
<1>21. Unescape(c).text = Kept(s)
  <2>1. b[n] + 1 = Len(c)
    BY <1>7, <1>9
  <2>2. from[Len(c)].text = << >>
    <3>1. from[Len(c)] = IF Len(c) >= Len(c) THEN [text |-> << >>, stop |-> Len(c)]
                  ELSE [text |-> <<Char(c, Len(c))>>
                                 \o from[After(c, Len(c))].text,
                        stop |-> from[After(c, Len(c))].stop]
      BY <1>9, FromIs
    <3> HIDE DEF from
    <3> QED BY <1>9, <3>1
  <2>3. h[n] \o << >> = from[2].text
    BY <1>19, <2>1, <2>2
  <2>4. h[n] \in Strings
    BY <1>1
  <2>5. from[2].text = Kept(s)
    <3> HIDE DEF from
    <3> QED BY <1>8, <2>3, <2>4, Concatenation
  <2> QED BY <2>5, UnescapeIsFrom
<1> QED BY <1>6, <1>20, <1>21 DEF c

-----------------------------------------------------------------------------
(* The c-strings among the tokens.                                         *)

\* The text of a CSTRING is what the pattern matched.
CstringTokens ==
    \A k \in 1..Len(tokens) :
        tokens[k].token = "CSTRING" =>
            LET pos == tokens[k].pos IN
            /\ pos[1] \in 1..Len(text) /\ pos[2] \in pos[1]..Len(text)
            /\ IsCstring(TextAt(pos))

LEMMA ScannedAt ==
    ASSUME LInv, at < Len(text), NEW n \in 1..(Len(text) - at)
    PROVE  SubSeq(Rest, 1, n) = SubSeq(text, at + 1, at + n)
<1> DEFINE s == SubSeq(Rest, 1, n)
           t == SubSeq(text, at + 1, at + n)
<1>1. text \in Seq(Chars) /\ at \in Nat /\ Len(text) \in Nat
  BY DEF LInv, TypeOK
<1>2. Rest \in Seq(Chars) /\ Len(Rest) = Len(text) - at
      /\ \A i \in 1..Len(Rest) : Rest[i] = text[at + i]
  BY LexProps
<1>3. s \in Seq(Chars) /\ Len(s) = n /\ \A i \in 1..n : s[i] = Rest[i]
  <2>1. n \in 1..Len(Rest)
    BY <1>2
  <2>2. Rest \in Seq(Chars)
    BY <1>2
  <2> QED BY <2>1, <2>2, PrefixProps, Zenon
<1>4. t \in Seq(Chars) /\ Len(t) = n /\ \A i \in 1..n : t[i] = text[at + i]
  <2>1. n \in Nat /\ n >= 1 /\ at + n <= Len(text)
    BY <1>1
  <2> QED BY <1>1, <2>1
<1> HIDE DEF s, t
<1>5. \A i \in 1..n : s[i] = t[i]
  <2>1. \A i \in 1..n : i \in 1..Len(Rest)
    BY <1>1, <1>2
  <2> QED BY <1>2, <1>3, <1>4, <2>1, Zenon
<1>6. s = t
  BY <1>3, <1>4, <1>5
<1> QED BY <1>6 DEF s, t

LEMMA LexCstrings == LInv /\ CstringTokens /\ Lex => CstringTokens'
<1> SUFFICES ASSUME LInv, CstringTokens, Lex PROVE CstringTokens'
  OBVIOUS
<1>1. text \in Seq(Chars) /\ at \in Nat /\ Len(text) \in Nat /\ at < Len(text)
      /\ tokens \in Seq([token : Kinds, pos : Nat \X Nat])
  BY DEF LInv, TypeOK, Lex, Kinds
<1>2. PICK p \in 1..7, n \in 1..(Len(text) - at) :
        /\ Matches(Patterns[p], SubSeq(Rest, 1, n))
        /\ text' = text
        /\ p = 4 => tokens' = tokens
        /\ p # 4 => \E t \in Kinds :
                        /\ tokens' = Append(tokens, [token |-> t,
                                            pos |-> <<at + 1, at + n>>])
                        /\ t = "CSTRING" <=> p = 7
  BY LexStep
<1> DEFINE Good(ts, k) ==
            ts[k].token = "CSTRING" =>
                /\ ts[k].pos[1] \in 1..Len(text)
                /\ ts[k].pos[2] \in ts[k].pos[1]..Len(text)
                /\ IsCstring(SubSeq(text, ts[k].pos[1], ts[k].pos[2]))
<1>3. \A k \in 1..Len(tokens) : Good(tokens, k)
  BY DEF CstringTokens, TextAt
<1>4. SUFFICES \A k \in 1..Len(tokens') : Good(tokens', k)
  BY <1>2, <1>4 DEF CstringTokens, TextAt
<1>5. CASE p = 4
  BY <1>2, <1>3, <1>5
<1>6. CASE p # 4
  <2>1. PICK t \in Kinds :
            /\ tokens' = Append(tokens, [token |-> t, pos |-> <<at + 1, at + n>>])
            /\ t = "CSTRING" <=> p = 7
    BY <1>2, <1>6
  <2> DEFINE new == [token |-> t, pos |-> <<at + 1, at + n>>]
             m == Len(tokens)
  <2>2. /\ new \in [token : Kinds, pos : Nat \X Nat]
        /\ new.token = t /\ new.pos[1] = at + 1 /\ new.pos[2] = at + n
    BY <1>1
  <2> HIDE DEF new
  <2>3. /\ m \in Nat /\ Len(tokens') = m + 1
        /\ \A k \in 1..m : tokens'[k] = tokens[k]
        /\ tokens'[m + 1] = new
    BY <1>1, <2>1, <2>2 DEF new
  <2>4. ASSUME NEW k \in 1..m PROVE Good(tokens', k)
    <3>1. tokens'[k] = tokens[k] /\ Good(tokens, k)
      BY <1>3, <2>3
    <3> QED BY <3>1
  <2>5. Good(tokens', m + 1)
    <3> SUFFICES ASSUME t = "CSTRING"
                 PROVE  /\ new.pos[1] \in 1..Len(text)
                        /\ new.pos[2] \in new.pos[1]..Len(text)
                        /\ IsCstring(SubSeq(text, new.pos[1], new.pos[2]))
      BY <2>2, <2>3
    <3>1. IsCstring(SubSeq(Rest, 1, n))
      BY <1>2, <2>1, PatternsSeq DEF Matches
    <3>2. SubSeq(Rest, 1, n) = SubSeq(text, at + 1, at + n)
      BY <1>1, ScannedAt
    <3>3. IsCstring(SubSeq(text, new.pos[1], new.pos[2]))
      BY <2>2, <3>1, <3>2, Zenon
    <3>4. at + 1 \in 1..Len(text) /\ at + n \in (at + 1)..Len(text)
      BY <1>1
    <3> QED BY <2>2, <3>3, <3>4, Zenon
  <2> HIDE DEF Good, m
  <2>6. \A k \in 1..(m + 1) : k \in 1..m \/ k = m + 1
    BY <2>3
  <2> QED BY <2>3, <2>4, <2>5, <2>6
<1> QED BY <1>5, <1>6

\* The loop of gdbwire_mi_unescape_cstring stops at the closing quote of every
\* CSTRING.
LEMMA StopsWhereItShould == LInv /\ CstringTokens => StopsAtTheQuote
<1> SUFFICES ASSUME LInv, CstringTokens, NEW k \in 1..Len(tokens),
                    tokens[k].token = "CSTRING"
             PROVE  LET str == TextAt(tokens[k].pos)
                    IN Unescape(str).stop = Len(str)
  BY DEF StopsAtTheQuote
<1> DEFINE str == TextAt(tokens[k].pos)
<1>1. /\ tokens[k].pos[1] \in 1..Len(text)
      /\ tokens[k].pos[2] \in tokens[k].pos[1]..Len(text)
      /\ IsCstring(str)
  BY DEF CstringTokens
<1>2. text \in Seq(Chars)
  BY DEF LInv, TypeOK
<1>3. str \in Seq(Chars)
  BY <1>1, <1>2 DEF TextAt
<1> HIDE DEF str
<1>4. Unescape(str).stop = Len(str)
  BY <1>1, <1>3, CstringStops
<1> QED BY <1>4 DEF str

-----------------------------------------------------------------------------
(* The tokens of a line GDB writes.                                        *)

\* What is a token by itself.
LEMMA AloneIsMatched ==
    ASSUME NEW s \in Seq(Chars), s # << >>,
           s[1] \notin Whitespace \cup Digits \cup {Quote, "CR"},
           s[1] \in Letters => /\ Len(s) >= 2
                               /\ s[2] \notin Letters \cup Digits \cup {"-"}
    PROVE  Match(s)[1] = 1 /\ Match(s)[2] \notin {4, 7}
<1> DEFINE m == Match(s)
           t == SubSeq(s, 1, m[1])
<1>1. /\ m[1] \in 1..Len(s) /\ m[2] \in 1..7
      /\ Matches(Patterns[m[2]], t)
  BY MatchIsLongest, MatchingType
<1> HIDE DEF m
<1>2. t \in Seq(Chars) /\ Len(t) = m[1] /\ \A i \in 1..m[1] : t[i] = s[i]
  BY <1>1, PrefixProps
<1> HIDE DEF t
<1>3. m[1] \in Nat /\ m[1] >= 1 /\ t # << >> /\ t[1] = s[1]
  <2>1. m[1] \in Nat /\ m[1] >= 1
    BY <1>1
  <2> QED BY <1>2, <2>1
<1>4. m[2] # 7
  <2> SUFFICES ASSUME m[2] = 7 PROVE FALSE
    OBVIOUS
  <2>1. t[1] = Quote
    BY <1>1, PatternsSeq DEF Matches, IsCstring
  <2> QED BY <1>3, <2>1
<1>5. m[2] # 4
  <2> SUFFICES ASSUME m[2] = 4 PROVE FALSE
    OBVIOUS
  <2>1. t[1] \in Whitespace
    BY <1>1, PatternsSeq DEF Matches
  <2> QED BY <1>3, <2>1
<1>6. m[2] # 3
  <2> SUFFICES ASSUME m[2] = 3 PROVE FALSE
    OBVIOUS
  <2>1. \A i \in 1..Len(t) : t[i] \in Digits
    BY <1>1, PatternsSeq DEF Matches, IsInteger, Over
  <2>2. 1 \in 1..Len(t)
    BY <1>2, <1>3
  <2> QED BY <1>3, <2>1, <2>2
<1>7. CASE m[2] \in {1, 6}
  <2>1. Patterns[m[2]] \in {"punctuation", "any"}
    BY <1>7, PatternsSeq
  <2>2. Len(t) = 1
    BY <1>1, <2>1 DEF Matches
  <2> QED BY <1>2, <1>4, <1>5, <2>2 DEF m
<1>8. CASE m[2] = 2
  <2>1. IsNewline(t)
    BY <1>1, <1>8, PatternsSeq DEF Matches
  <2>2. /\ <<"CR", "LF">>[1] = "CR" /\ <<"CR">>[1] = "CR"
        /\ Len(<<"LF">>) = 1
    OBVIOUS
  <2>3. Len(t) = 1
    BY <1>3, <2>1, <2>2 DEF IsNewline
  <2> QED BY <1>2, <1>4, <1>5, <2>3 DEF m
<1>9. CASE m[2] = 5
  <2>1. /\ t[1] \in Letters
        /\ \A i \in 1..Len(t) : t[i] \in Letters \cup Digits \cup {"-"}
    BY <1>1, <1>9, PatternsSeq DEF Matches, IsIdentifier, Over
  <2>2. s[2] \notin Letters \cup Digits \cup {"-"}
    BY <1>3, <2>1
  <2>3. ~(m[1] >= 2)
    <3> SUFFICES ASSUME m[1] >= 2 PROVE FALSE
      OBVIOUS
    <3>1. 2 \in 1..Len(t) /\ t[2] = s[2]
      BY <1>2, <1>3
    <3> QED BY <2>1, <2>2, <3>1
  <2> QED BY <1>3, <1>4, <1>5, <2>3 DEF m
<1> QED BY <1>1, <1>4, <1>5, <1>6, <1>7, <1>8, <1>9

\* Where the k-th token of the line ends.
Place(k) ==
    LET l1 == Len(CstringOf(strings[1]))
        l2 == Len(CstringOf(strings[2]))
    IN CASE k = 0 -> 0
         [] k = 1 -> 1
         [] k = 2 -> 2
         [] k = 3 -> 2 + l1
         [] k = 4 -> 3 + l1
         [] k = 5 -> 4 + l1
         [] k = 6 -> 5 + l1
         [] k = 7 -> 5 + l1 + l2
         [] k = 8 -> 6 + l1 + l2

LineTokens ==
    strings # << >> =>
        /\ strings \in Pairs
        /\ text = LineOf(strings)
        /\ Len(tokens) \in 0..8
        /\ at = Place(Len(tokens))
        /\ \A k \in 1..Len(tokens) :
              /\ tokens[k].pos = <<Place(k - 1) + 1, Place(k)>>
              /\ tokens[k].token = "CSTRING" <=> k \in {3, 7}

\* What line has where when it is five parts one after the other.
InParts(line, p, a, q, b, r) ==
    /\ line \in Strings
    /\ Len(a) \in Nat /\ Len(b) \in Nat
    /\ Len(line) = 6 + Len(a) + Len(b)
    /\ \A i \in 1..2 : line[i] = p[i]
    /\ \A i \in 1..Len(a) : line[2 + i] = a[i]
    /\ \A i \in 1..3 : line[2 + Len(a) + i] = q[i]
    /\ \A i \in 1..Len(b) : line[5 + Len(a) + i] = b[i]
    /\ line[6 + Len(a) + Len(b)] = r[1]

LEMMA LineParts ==
    ASSUME NEW p \in Strings, NEW a \in Strings, NEW q \in Strings,
           NEW b \in Strings, NEW r \in Strings,
           Len(p) = 2, Len(q) = 3, Len(r) = 1
    PROVE  InParts(p \o a \o q \o b \o r, p, a, q, b, r)
<1> DEFINE one == p \o a
           two == one \o q
           three == two \o b
           line == three \o r
           l == Len(a)
           k == Len(b)
<1>1. Joins(one, p, a)
  BY Joining
<1> HIDE DEF one, l, k
<1>2. one \in Strings /\ Len(one) = 2 + l /\ l \in Nat
  BY <1>1 DEF Joins, l
<1>3. Joins(two, one, q)
  BY <1>2, Joining
<1> HIDE DEF two
<1>4. two \in Strings /\ Len(two) = 5 + l
  BY <1>2, <1>3 DEF Joins
<1>5. Joins(three, two, b)
  BY <1>4, Joining
<1> HIDE DEF three
<1>6. three \in Strings /\ Len(three) = 5 + l + k /\ k \in Nat
  BY <1>2, <1>4, <1>5 DEF Joins, k
<1>7. Joins(line, three, r)
  BY <1>6, Joining
<1> HIDE DEF line
<1>8. line \in Strings /\ Len(line) = 6 + l + k
  BY <1>2, <1>6, <1>7 DEF Joins
\* Through which of the parts each character comes.
<1>9. \A i \in 1..(5 + l + k) : line[i] = three[i]
  BY <1>6, <1>7 DEF Joins
<1>10. \A i \in 1..(5 + l) : line[i] = two[i]
  <2>1. \A i \in 1..(5 + l) : three[i] = two[i]
    BY <1>4, <1>5 DEF Joins
  <2>2. \A i \in 1..(5 + l) : i \in 1..(5 + l + k)
    BY <1>2, <1>6
  <2> QED BY <1>9, <2>1, <2>2, Zenon
<1>11. \A i \in 1..(2 + l) : line[i] = one[i]
  <2>1. \A i \in 1..(2 + l) : two[i] = one[i]
    BY <1>2, <1>3 DEF Joins
  <2>2. \A i \in 1..(2 + l) : i \in 1..(5 + l)
    BY <1>2
  <2> QED BY <1>10, <2>1, <2>2, Zenon
<1>12. ASSUME NEW i \in 1..2 PROVE line[i] = p[i]
  <2>1. i \in 1..(2 + l)
    BY <1>2, <1>12
  <2>2. one[i] = p[i]
    BY <1>1, <1>12 DEF Joins
  <2> QED BY <1>11, <2>1, <2>2, Zenon
<1>13. ASSUME NEW i \in 1..l PROVE line[2 + i] = a[i]
  <2>1. one[Len(p) + i] = a[i]
    BY <1>1, <1>13 DEF Joins, l
  <2>2. 2 + i \in 1..(2 + l)
    BY <1>2, <1>13
  <2>3. line[2 + i] = one[2 + i]
    BY <1>11, <2>2, Zenon
  <2> QED BY <2>1, <2>3
<1>14. ASSUME NEW i \in 1..3 PROVE line[2 + l + i] = q[i]
  <2>1. two[Len(one) + i] = q[i]
    BY <1>3, <1>14 DEF Joins
  <2>2. 2 + l + i \in 1..(5 + l)
    BY <1>2, <1>14
  <2>3. line[2 + l + i] = two[2 + l + i]
    BY <1>10, <2>2, Zenon
  <2> QED BY <1>2, <2>1, <2>3
<1>15. ASSUME NEW i \in 1..k PROVE line[5 + l + i] = b[i]
  <2>1. three[Len(two) + i] = b[i]
    BY <1>5, <1>15 DEF Joins, k
  <2>2. 5 + l + i \in 1..(5 + l + k)
    BY <1>2, <1>6, <1>15
  <2>3. line[5 + l + i] = three[5 + l + i]
    BY <1>9, <2>2, Zenon
  <2> QED BY <1>4, <2>1, <2>3
<1>16. line[6 + l + k] = r[1]
  <2>1. line[Len(three) + 1] = r[1]
    BY <1>7 DEF Joins
  <2>2. Len(three) + 1 = 6 + l + k
    BY <1>2, <1>6
  <2> QED BY <2>1, <2>2, Zenon
<1>17. InParts(line, p, a, q, b, r)
  BY <1>2, <1>6, <1>8, <1>12, <1>13, <1>14, <1>15, <1>16 DEF InParts, l, k
<1> QED BY <1>17 DEF line, three, two, one

\* What is on the line.
LEMMA LineOfProps ==
    ASSUME NEW pair \in Pairs
    PROVE  LET c1 == CstringOf(pair[1])
               c2 == CstringOf(pair[2])
               line == LineOf(pair)
               l1 == Len(c1)
               l2 == Len(c2)
           IN /\ line \in Seq(Chars) /\ c1 \in Seq(Chars) /\ c2 \in Seq(Chars)
              /\ l1 \in Nat /\ l2 \in Nat /\ Len(line) = 6 + l1 + l2
              /\ IsCstring(c1) /\ IsCstring(c2)
              /\ Unescape(c1).text = Kept(pair[1])
              /\ Unescape(c2).text = Kept(pair[2])
              /\ line[1] = "a" /\ line[2] = "=" /\ line[3 + l1] = ","
              /\ line[4 + l1] = "b" /\ line[5 + l1] = "="
              /\ line[6 + l1 + l2] = "LF"
              /\ \A i \in 1..l1 : line[2 + i] = c1[i]
              /\ \A i \in 1..l2 : line[5 + l1 + i] = c2[i]
<1> DEFINE c1 == CstringOf(pair[1])
           c2 == CstringOf(pair[2])
           line == LineOf(pair)
           l1 == Len(c1)
           l2 == Len(c2)
           p == <<"a", "=">>
           q == <<",", "b", "=">>
           r == <<"LF">>
<1>1. pair[1] \in Strings /\ pair[2] \in Strings
  BY PairsAssumption DEF Strings
<1>2. /\ c1 \in Strings /\ c2 \in Strings
      /\ IsCstring(c1) /\ IsCstring(c2)
      /\ Unescape(c1).text = Kept(pair[1])
      /\ Unescape(c2).text = Kept(pair[2])
  BY <1>1, CstringOfString, Zenon
<1>0. Len(p) = 2 /\ Len(q) = 3 /\ Len(r) = 1
  OBVIOUS
<1>3. /\ p[1] = "a" /\ p[2] = "=" /\ q[1] = "," /\ q[2] = "b" /\ q[3] = "="
      /\ r[1] = "LF"
  OBVIOUS
<1>4. /\ p \in Strings /\ q \in Strings /\ r \in Strings
  <2>1. \A x, y, z \in Chars : /\ <<x>> \in Strings /\ <<x, y>> \in Strings
                               /\ <<x, y, z>> \in Strings
    BY DEF Strings
  <2>2. /\ "a" \in Chars /\ "b" \in Chars /\ "=" \in Chars /\ "," \in Chars
        /\ "LF" \in Chars
    BY PairsAssumption, EscapeFacts, Zenon DEF Written
  <2> QED BY <2>1, <2>2, Zenon
<1>5. line = p \o c1 \o q \o c2 \o r
  BY Zenon DEF LineOf
<1> HIDE DEF p, q, r, c1, c2, line
<1>6. InParts(line, p, c1, q, c2, r)
  BY <1>0, <1>2, <1>4, <1>5, LineParts
<1> HIDE DEF l1, l2
<1>7. /\ l1 \in Nat /\ l2 \in Nat /\ 1 \in 1..2 /\ 2 \in 1..2
      /\ 1 \in 1..3 /\ 2 \in 1..3 /\ 3 \in 1..3
      /\ 2 + l1 + 1 = 3 + l1 /\ 2 + l1 + 2 = 4 + l1 /\ 2 + l1 + 3 = 5 + l1
  BY <1>6 DEF InParts, l1, l2
<1>8. /\ line[1] = "a" /\ line[2] = "=" /\ line[3 + l1] = ","
      /\ line[4 + l1] = "b" /\ line[5 + l1] = "="
      /\ line[6 + l1 + l2] = "LF"
  BY <1>3, <1>6, <1>7, Zenon DEF InParts, l1, l2
<1> QED BY <1>2, <1>6, <1>7, <1>8, Zenon
   DEF InParts, c1, c2, line, l1, l2, Strings

LEMMA PlaceValues ==
    LET l1 == Len(CstringOf(strings[1]))
        l2 == Len(CstringOf(strings[2]))
    IN /\ Place(0) = 0 /\ Place(1) = 1 /\ Place(2) = 2
       /\ Place(3) = 2 + l1 /\ Place(4) = 3 + l1 /\ Place(5) = 4 + l1
       /\ Place(6) = 5 + l1 /\ Place(7) = 5 + l1 + l2
       /\ Place(8) = 6 + l1 + l2
BY DEF Place

LEMMA CharacterKinds ==
    /\ \A x \in {"a", "b", "=", ",", "LF"} :
          x \notin Whitespace \cup Digits \cup {Quote, "CR"}
    /\ \A x \in {"=", ",", "LF"} : x \notin Letters
    /\ "=" \notin Letters \cup Digits \cup {"-"}
BY ZenonT(60) DEF Whitespace, Digits, Letters, Quote

\* The next token is the next part of the line.
LEMMA NextOfLine ==
    ASSUME LInv, LineTokens, strings # << >>, at < Len(text)
    PROVE  /\ Len(tokens) \in 0..7
           /\ Match(Rest)[1] = Place(Len(tokens) + 1) - Place(Len(tokens))
           /\ Match(Rest)[2] # 4
           /\ Match(Rest)[2] = 7 <=> Len(tokens) + 1 \in {3, 7}
<1> DEFINE c1 == CstringOf(strings[1])
           c2 == CstringOf(strings[2])
           l1 == Len(c1)
           l2 == Len(c2)
           k == Len(tokens)
           s == Rest
<1>1. /\ strings \in Pairs /\ text = LineOf(strings)
      /\ k \in 0..8 /\ at = Place(k)
  BY DEF LineTokens
<1>2. /\ text \in Seq(Chars) /\ c1 \in Seq(Chars) /\ c2 \in Seq(Chars)
      /\ l1 \in Nat /\ l2 \in Nat /\ Len(text) = 6 + l1 + l2
      /\ IsCstring(c1) /\ IsCstring(c2)
      /\ \A i \in 1..l1 : text[2 + i] = c1[i]
      /\ \A i \in 1..l2 : text[5 + l1 + i] = c2[i]
  BY <1>1, LineOfProps, Zenon
<1>3. /\ text[1] = "a" /\ text[2] = "=" /\ text[3 + l1] = ","
      /\ text[4 + l1] = "b" /\ text[5 + l1] = "="
      /\ text[6 + l1 + l2] = "LF"
  BY <1>1, LineOfProps, Zenon
<1>4. l1 >= 2 /\ l2 >= 2
  BY <1>2 DEF IsCstring
<1>5. /\ Place(0) = 0 /\ Place(1) = 1 /\ Place(2) = 2
      /\ Place(3) = 2 + l1 /\ Place(4) = 3 + l1 /\ Place(5) = 4 + l1
      /\ Place(6) = 5 + l1 /\ Place(7) = 5 + l1 + l2
      /\ Place(8) = 6 + l1 + l2
  BY PlaceValues, Zenon
<1>6. /\ s \in Seq(Chars) /\ s # << >> /\ Len(s) = Len(text) - at
      /\ \A i \in 1..Len(s) : s[i] = text[at + i]
  BY LexProps
<1>7. at \in Nat
  BY DEF LInv, TypeOK
<1> HIDE DEF c1, c2, l1, l2, k, s
<1>8. k \in 0..7
  BY <1>1, <1>2, <1>5
<1>9. ASSUME text[at + 1] \in {"=", ",", "LF"}
      PROVE  Match(s)[1] = 1 /\ Match(s)[2] \notin {4, 7}
  <2>1. 1 \in 1..Len(s)
    BY <1>6
  <2>2. s[1] = text[at + 1]
    BY <1>6, <2>1, Zenon
  <2>3. s[1] \notin Whitespace \cup Digits \cup {Quote, "CR"} /\ s[1] \notin Letters
    BY <1>9, <2>2, CharacterKinds, Zenon
  <2> QED BY <1>6, <2>3, AloneIsMatched, Zenon
<1>10. ASSUME text[at + 1] \in {"a", "b"}, text[at + 2] = "=",
              Len(text) - at >= 2
       PROVE  Match(s)[1] = 1 /\ Match(s)[2] \notin {4, 7}
  <2>1. 1 \in 1..Len(s) /\ 2 \in 1..Len(s) /\ Len(s) >= 2
    <3>1. Len(text) - at >= 2
      BY <1>10
    <3>2. Len(s) = Len(text) - at
      BY <1>6
    <3>3. Len(s) \in Nat
      BY <1>6
    <3> QED BY <3>1, <3>2, <3>3
  <2>2. s[1] = text[at + 1] /\ s[2] = text[at + 2]
    BY <1>6, <2>1, Zenon
  <2>3. s[1] \notin Whitespace \cup Digits \cup {Quote, "CR"}
    BY <1>10, <2>2, CharacterKinds, Zenon
  <2>4. s[2] \notin Letters \cup Digits \cup {"-"}
    BY <1>10, <2>2, CharacterKinds, Zenon
  <2> QED BY <1>6, <2>1, <2>3, <2>4, AloneIsMatched, Zenon
<1>11. ASSUME NEW c \in Seq(Chars), IsCstring(c), Len(c) \in 1..Len(s),
              \A i \in 1..Len(c) : text[at + i] = c[i]
       PROVE  Match(s)[1] = Len(c) /\ Match(s)[2] = 7
  <2> DEFINE t == SubSeq(s, 1, Len(c))
  <2>1. t \in Seq(Chars) /\ Len(t) = Len(c) /\ \A i \in 1..Len(c) : t[i] = s[i]
    BY <1>6, <1>11, PrefixProps
  <2> HIDE DEF t
  <2>2. \A i \in 1..Len(c) : i \in 1..Len(s)
    BY <1>11
  <2>3. \A i \in 1..Len(c) : t[i] = c[i]
    BY <1>6, <1>11, <2>1, <2>2, Zenon
  <2>4. t = c
    BY <1>11, <2>1, <2>3
  <2>5. Match(s) = <<Len(c), 7>>
    BY <1>6, <1>11, <2>4, CstringIsMatched DEF t
  <2> QED BY <2>5
<1>12. SUFFICES /\ Match(s)[1] = Place(k + 1) - Place(k)
                /\ Match(s)[2] # 4
                /\ Match(s)[2] = 7 <=> k + 1 \in {3, 7}
  BY <1>8, <1>12, Zenon DEF k, s
<1>13. CASE k \in {0, 4}
  <2>1. text[at + 1] \in {"a", "b"} /\ text[at + 2] = "="
    <3>1. CASE k = 0
      <4>1. at + 1 = 1 /\ at + 2 = 2
        BY <1>1, <1>5, <3>1
      <4> QED BY <1>3, <4>1, Zenon
    <3>2. CASE k = 4
      <4>1. at + 1 = 4 + l1 /\ at + 2 = 5 + l1
        BY <1>1, <1>2, <1>5, <3>2, SMTT(30)
      <4> QED BY <1>3, <4>1, Zenon
    <3> QED BY <1>13, <3>1, <3>2, Zenon
  <2>2. Len(text) - at >= 2
    BY <1>1, <1>2, <1>5, <1>13, SMTT(30)
  <2>3. Match(s)[1] = 1 /\ Match(s)[2] \notin {4, 7}
    BY <1>10, <2>1, <2>2, Zenon
  <2>4. Place(k + 1) - Place(k) = 1 /\ k + 1 \notin {3, 7}
    BY <1>2, <1>5, <1>13, SMTT(30)
  <2> QED BY <2>3, <2>4, Zenon
<1>14. CASE k \in {1, 3, 5, 7}
  <2>1. text[at + 1] \in {"=", ",", "LF"}
    <3>1. CASE k = 1
      <4>1. at + 1 = 2
        BY <1>1, <1>5, <3>1
      <4> QED BY <1>3, <4>1, Zenon
    <3>2. CASE k = 3
      <4>1. at + 1 = 3 + l1
        BY <1>1, <1>2, <1>5, <3>2, SMTT(30)
      <4> QED BY <1>3, <4>1, Zenon
    <3>3. CASE k = 5
      <4>1. at + 1 = 5 + l1
        BY <1>1, <1>2, <1>5, <3>3, SMTT(30)
      <4> QED BY <1>3, <4>1, Zenon
    <3>4. CASE k = 7
      <4>1. at + 1 = 6 + l1 + l2
        BY <1>1, <1>2, <1>5, <3>4, SMTT(30)
      <4> QED BY <1>3, <4>1, Zenon
    <3> QED BY <1>14, <3>1, <3>2, <3>3, <3>4, Zenon
  <2>2. Match(s)[1] = 1 /\ Match(s)[2] \notin {4, 7}
    BY <1>9, <2>1, Zenon
  <2>3. Place(k + 1) - Place(k) = 1 /\ k + 1 \notin {3, 7}
    BY <1>2, <1>5, <1>14, SMTT(30)
  <2> QED BY <2>2, <2>3, Zenon
<1>15. CASE k = 2
  <2>1. at = 2 /\ Len(s) = 4 + l1 + l2
    BY <1>1, <1>2, <1>5, <1>6, <1>15
  <2>2. Len(c1) \in 1..Len(s)
    BY <1>2, <1>4, <2>1 DEF l1
  <2>3. \A i \in 1..Len(c1) : text[at + i] = c1[i]
    BY <1>2, <2>1, Zenon DEF l1
  <2>4. Match(s)[1] = l1 /\ Match(s)[2] = 7
    BY <1>2, <1>11, <2>2, <2>3, Zenon DEF l1
  <2>5. Place(k + 1) - Place(k) = l1 /\ k + 1 \in {3, 7} /\ 7 # 4
    BY <1>2, <1>5, <1>15
  <2> QED BY <2>4, <2>5
<1>16. CASE k = 6
  <2>1. at = 5 + l1 /\ Len(s) = 1 + l2
    BY <1>1, <1>2, <1>5, <1>6, <1>16
  <2>2. Len(c2) \in 1..Len(s)
    BY <1>2, <1>4, <2>1 DEF l2
  <2>3. \A i \in 1..Len(c2) : text[at + i] = c2[i]
    BY <1>2, <2>1, Zenon DEF l2
  <2>4. Match(s)[1] = l2 /\ Match(s)[2] = 7
    BY <1>2, <1>11, <2>2, <2>3, Zenon DEF l2
  <2>5. Place(k + 1) - Place(k) = l2 /\ k + 1 \in {3, 7} /\ 7 # 4
    BY <1>2, <1>5, <1>16
  <2> QED BY <2>4, <2>5
<1> QED BY <1>8, <1>13, <1>14, <1>15, <1>16

LEMMA LexLine ==
    ASSUME LInv, LineTokens, Lex, UNCHANGED strings
    PROVE  LineTokens'
<1> SUFFICES ASSUME strings # << >>
             PROVE  /\ strings' \in Pairs
                    /\ text' = LineOf(strings')
                    /\ Len(tokens') \in 0..8
                    /\ at' = Place(Len(tokens'))
                    /\ \A k \in 1..Len(tokens') :
                        /\ tokens'[k].pos = <<Place(k - 1) + 1, Place(k)>>
                        /\ tokens'[k].token = "CSTRING" <=> k \in {3, 7}
  <2>1. \A k : Place(k)' = Place(k)
    BY DEF Place
  <2> QED BY <2>1 DEF LineTokens
<1>1. /\ strings \in Pairs /\ text = LineOf(strings)
      /\ at = Place(Len(tokens))
      /\ \A k \in 1..Len(tokens) :
            /\ tokens[k].pos = <<Place(k - 1) + 1, Place(k)>>
            /\ tokens[k].token = "CSTRING" <=> k \in {3, 7}
  BY DEF LineTokens
<1>2. at < Len(text) /\ at \in Nat /\ Len(text) \in Nat
      /\ tokens \in Seq([token : Kinds, pos : Nat \X Nat])
  BY DEF LInv, TypeOK, Lex, Kinds
<1>3. /\ Len(tokens) \in 0..7
      /\ Match(Rest)[1] = Place(Len(tokens) + 1) - Place(Len(tokens))
      /\ Match(Rest)[2] # 4
      /\ Match(Rest)[2] = 7 <=> Len(tokens) + 1 \in {3, 7}
  BY <1>2, NextOfLine
<1>4. PICK p \in 1..7, n \in 1..(Len(text) - at) :
        /\ Match(Rest)[1] = n /\ Match(Rest)[2] = p
        /\ at' = at + n
        /\ text' = text
        /\ p # 4 => \E t \in Kinds :
                        /\ tokens' = Append(tokens, [token |-> t,
                                            pos |-> <<at + 1, at + n>>])
                        /\ t = "CSTRING" <=> p = 7
  BY LexStep
<1>5. PICK t \in Kinds :
        /\ tokens' = Append(tokens, [token |-> t, pos |-> <<at + 1, at + n>>])
        /\ t = "CSTRING" <=> p = 7
  BY <1>3, <1>4
<1> DEFINE new == [token |-> t, pos |-> <<at + 1, at + n>>]
           m == Len(tokens)
<1>6. /\ new \in [token : Kinds, pos : Nat \X Nat]
      /\ new.token = t /\ new.pos = <<at + 1, at + n>>
  BY <1>2
<1> HIDE DEF new
<1>7. /\ m \in Nat /\ Len(tokens') = m + 1
      /\ \A k \in 1..m : tokens'[k] = tokens[k]
      /\ tokens'[m + 1] = new
  BY <1>2, <1>5, <1>6 DEF new
<1>8. /\ m + 1 \in 0..8 /\ (m + 1) - 1 = m
      /\ \A k \in 1..(m + 1) : k \in 1..m \/ k = m + 1
  <2>1. m \in 0..7
    BY <1>3
  <2> HIDE DEF m
  <2> QED BY <2>1
<1> HIDE DEF m
<1>9. at + n = Place(m + 1) /\ at = Place(m)
  <2>1. Place(m + 1) \in Nat
    <3>1. /\ Len(CstringOf(strings[1])) \in Nat
          /\ Len(CstringOf(strings[2])) \in Nat
      BY <1>1, LineOfProps, Zenon
    <3>2. m + 1 \in 0..8
      BY <1>8
    <3>3. /\ Place(0) \in Nat /\ Place(1) \in Nat /\ Place(2) \in Nat
          /\ Place(3) \in Nat /\ Place(4) \in Nat /\ Place(5) \in Nat
          /\ Place(6) \in Nat /\ Place(7) \in Nat /\ Place(8) \in Nat
      <4> DEFINE l1 == Len(CstringOf(strings[1]))
                 l2 == Len(CstringOf(strings[2]))
      <4>1. /\ Place(0) = 0 /\ Place(1) = 1 /\ Place(2) = 2
            /\ Place(3) = 2 + l1 /\ Place(4) = 3 + l1 /\ Place(5) = 4 + l1
            /\ Place(6) = 5 + l1 /\ Place(7) = 5 + l1 + l2
            /\ Place(8) = 6 + l1 + l2
        BY PlaceValues, Zenon
      <4>2. l1 \in Nat /\ l2 \in Nat
        BY <3>1
      <4> HIDE DEF l1, l2
      <4> QED BY <4>1, <4>2
    <3>4. m + 1 \in {0, 1, 2, 3, 4, 5, 6, 7, 8}
      BY <3>2
    <3> QED BY <3>3, <3>4, Zenon
  <2>2. at = Place(m) /\ n = Place(m + 1) - Place(m)
    BY <1>1, <1>3, <1>4, Zenon DEF m
  <2>3. \A x, y, z : x \in Nat /\ z \in Nat /\ y = z - x => x + y = z
    OBVIOUS
  <2> QED BY <1>2, <2>1, <2>2, <2>3, Zenon
<1>10. p = 7 <=> m + 1 \in {3, 7}
  BY <1>3, <1>4 DEF m
<1>11. ASSUME NEW k \in 1..(m + 1)
       PROVE  /\ tokens'[k].pos = <<Place(k - 1) + 1, Place(k)>>
              /\ tokens'[k].token = "CSTRING" <=> k \in {3, 7}
  <2>1. CASE k \in 1..m
    BY <1>1, <1>7, <2>1, Zenon DEF m
  <2>2. CASE k = m + 1
    BY <1>5, <1>6, <1>7, <1>8, <1>9, <1>10, <2>2, Zenon
  <2> QED BY <1>8, <2>1, <2>2
<1> QED BY <1>1, <1>4, <1>7, <1>8, <1>9, <1>11

\* The two strings are the third and the seventh token, and their texts what
\* GDB wrote.
LEMMA StringsBack ==
    LInv /\ CstringTokens /\ LineTokens => GivesBackTheStrings
<1> SUFFICES ASSUME LInv, CstringTokens, LineTokens PROVE GivesBackTheStrings
  OBVIOUS
<1>1. StopsAtTheQuote
  BY StopsWhereItShould
<1>2. ASSUME strings # << >>
      PROVE  /\ Done => Len(tokens) = 8
             /\ \A k \in 1..Len(tokens) :
                   /\ tokens[k].token = "CSTRING" <=> k \in {3, 7}
                   /\ k \in {3, 7} =>
                         Unescape(TextAt(tokens[k].pos)).text =
                             Kept(strings[IF k = 3 THEN 1 ELSE 2])
  <2> DEFINE c1 == CstringOf(strings[1])
             c2 == CstringOf(strings[2])
             l1 == Len(c1)
             l2 == Len(c2)
  <2>1. /\ strings \in Pairs /\ text = LineOf(strings)
        /\ Len(tokens) \in 0..8
        /\ at = Place(Len(tokens))
        /\ \A k \in 1..Len(tokens) :
              /\ tokens[k].pos = <<Place(k - 1) + 1, Place(k)>>
              /\ tokens[k].token = "CSTRING" <=> k \in {3, 7}
    BY <1>2 DEF LineTokens
  <2>2. /\ text \in Seq(Chars) /\ c1 \in Seq(Chars) /\ c2 \in Seq(Chars)
        /\ l1 \in Nat /\ l2 \in Nat /\ Len(text) = 6 + l1 + l2
        /\ Unescape(c1).text = Kept(strings[1])
        /\ Unescape(c2).text = Kept(strings[2])
        /\ \A i \in 1..l1 : text[2 + i] = c1[i]
        /\ \A i \in 1..l2 : text[5 + l1 + i] = c2[i]
    BY <2>1, LineOfProps, Zenon
  <2>3. /\ Place(0) = 0 /\ Place(1) = 1 /\ Place(2) = 2
        /\ Place(3) = 2 + l1 /\ Place(4) = 3 + l1 /\ Place(5) = 4 + l1
        /\ Place(6) = 5 + l1 /\ Place(7) = 5 + l1 + l2
        /\ Place(8) = 6 + l1 + l2
    BY PlaceValues, Zenon
  <2> HIDE DEF c1, c2
  <2>4. SubSeq(text, 3, 2 + l1) = c1
    <3> DEFINE t == SubSeq(text, 3, 2 + l1)
    <3>1. /\ t \in Seq(Chars) /\ Len(t) = l1
          /\ \A i \in 1..l1 : t[i] = text[2 + i]
      <4> HIDE DEF l1, l2
      <4> QED BY <2>2
    <3> HIDE DEF t
    <3>2. \A i \in 1..l1 : t[i] = c1[i]
      BY <2>2, <3>1, Zenon
    <3>3. t = c1
      BY <2>2, <3>1, <3>2
    <3> QED BY <3>3 DEF t
  <2>5. SubSeq(text, 6 + l1, 5 + l1 + l2) = c2
    <3> DEFINE t == SubSeq(text, 6 + l1, 5 + l1 + l2)
    <3>1. /\ t \in Seq(Chars) /\ Len(t) = l2
          /\ \A i \in 1..l2 : t[i] = text[5 + l1 + i]
      <4> HIDE DEF l1, l2
      <4> QED BY <2>2
    <3> HIDE DEF t
    <3>2. \A i \in 1..l2 : t[i] = c2[i]
      BY <2>2, <3>1, Zenon
    <3>3. t = c2
      BY <2>2, <3>1, <3>2
    <3> QED BY <3>3 DEF t
  <2> HIDE DEF l1, l2
  <2>6. Done => Len(tokens) = 8
    <3>1. Done => Place(Len(tokens)) = 6 + l1 + l2
      BY <2>1, <2>2 DEF Done
    <3>2. \A k \in 0..7 : Place(k) # 6 + l1 + l2
      <4>1. /\ Place(0) # 6 + l1 + l2 /\ Place(1) # 6 + l1 + l2
            /\ Place(2) # 6 + l1 + l2 /\ Place(3) # 6 + l1 + l2
            /\ Place(4) # 6 + l1 + l2 /\ Place(5) # 6 + l1 + l2
            /\ Place(6) # 6 + l1 + l2 /\ Place(7) # 6 + l1 + l2
        BY <2>2, <2>3
      <4>2. \A k \in 0..7 : k \in {0, 1, 2, 3, 4, 5, 6, 7}
        OBVIOUS
      <4> QED BY <4>1, <4>2, Zenon
    <3>3. Len(tokens) \in 0..7 \/ Len(tokens) = 8
      BY <2>1
    <3> QED BY <3>1, <3>2, <3>3, Zenon
  <2>7. ASSUME NEW k \in 1..Len(tokens), k = 3
        PROVE  TextAt(tokens[k].pos) = c1
    <3>1. tokens[k].pos = <<Place(2) + 1, Place(3)>>
      BY <2>1, <2>7
    <3>2. tokens[k].pos[1] = 3 /\ tokens[k].pos[2] = 2 + l1
      BY <2>3, <3>1
    <3> QED BY <2>4, <3>2, Zenon DEF TextAt
  <2>8. ASSUME NEW k \in 1..Len(tokens), k = 7
        PROVE  TextAt(tokens[k].pos) = c2
    <3>1. tokens[k].pos = <<Place(6) + 1, Place(7)>>
      BY <2>1, <2>8
    <3>2. tokens[k].pos[1] = 6 + l1 /\ tokens[k].pos[2] = 5 + l1 + l2
      BY <2>2, <2>3, <3>1
    <3> QED BY <2>5, <3>2, Zenon DEF TextAt
  <2>9. ASSUME NEW k \in 1..Len(tokens), k \in {3, 7}
        PROVE  Unescape(TextAt(tokens[k].pos)).text =
                  Kept(strings[IF k = 3 THEN 1 ELSE 2])
    <3>1. CASE k = 3
      BY <2>2, <2>7, <3>1
    <3>2. CASE k = 7
      BY <2>2, <2>8, <3>2
    <3> QED BY <2>9, <3>1, <3>2
  <2> QED BY <2>1, <2>6, <2>9
<1> QED BY <1>1, <1>2 DEF GivesBackTheStrings

StringsInv == LInv /\ CstringTokens /\ LineTokens

LEMMA StringsInitInv == StringsInit => StringsInv
<1> SUFFICES ASSUME StringsInit PROVE StringsInv
  OBVIOUS
<1>1. CASE strings = << >> /\ Init
  <2>1. LInv /\ tokens = << >>
    BY <1>1, InitInv DEF Init, Scan
  <2> QED BY <1>1, <2>1 DEF StringsInv, CstringTokens, LineTokens
<1>2. CASE strings \in Pairs /\ Scan(LineOf(strings))
  <2>1. LineOf(strings) \in Seq(Chars)
    BY <1>2, LineOfProps, Zenon
  <2>2. LInv
    BY <1>2, <2>1, ScanInv
  <2>3. text = LineOf(strings) /\ at = 0 /\ tokens = << >>
    BY <1>2 DEF Scan
  <2>4. LineTokens
    <3>1. Len(tokens) = 0 /\ Place(0) = 0
      BY <2>3, PlaceValues
    <3> QED BY <1>2, <2>3, <3>1 DEF LineTokens
  <2> QED BY <2>2, <2>3, <2>4 DEF StringsInv, CstringTokens
<1> QED BY <1>1, <1>2 DEF StringsInit

\* "Remove the GDB/MI escape characters to provide back to the user the original
\* characters that GDB was intending to transmit": for strings of any length and
\* of any characters, on a line the lexer scans, and but for what GDB writes in
\* octal.  In any text at all, the loop of gdbwire_mi_unescape_cstring stops at
\* the closing quote of every CSTRING.
THEOREM StringsAlwaysBack == StringsSpec => []GivesBackTheStrings
<1>1. StringsInv /\ [Next /\ UNCHANGED strings]_stringVars => StringsInv'
  <2> SUFFICES ASSUME StringsInv, [Next /\ UNCHANGED strings]_stringVars
               PROVE  StringsInv'
    OBVIOUS
  <2>1. CASE Lex /\ UNCHANGED strings
    BY <2>1, LexInv, LexCstrings, LexLine DEF StringsInv
  <2>2. CASE UNCHANGED vars /\ UNCHANGED strings
    <3>1. LInv'
      BY <2>2, StutterInv DEF StringsInv
    <3>2. CstringTokens'
      BY <2>2 DEF StringsInv, CstringTokens, TextAt, vars
    <3>3. \A k : Place(k)' = Place(k)
      BY <2>2 DEF Place
    <3>4. LineTokens'
      BY <2>2, <3>3 DEF StringsInv, LineTokens, vars
    <3> QED BY <3>1, <3>2, <3>4 DEF StringsInv
  <2> QED BY <2>1, <2>2 DEF Next, EndOfText, stringVars
<1>2. StringsInv => GivesBackTheStrings
  BY StringsBack DEF StringsInv
<1> QED BY StringsInitInv, <1>1, <1>2, PTL DEF StringsSpec
=============================================================================
