------------------------------ MODULE MiLexer ------------------------------
(***************************************************************************)
(* The lexer of gdbwire_mi_lexer.l, byte by byte, on one line of text, and *)
(* gdbwire_mi_unescape_cstring, which the parser applies to the text of a  *)
(* CSTRING.  MiParser takes tokens for granted: this is where they come    *)
(* from.                                                                   *)
(*                                                                         *)
(* A text is a sequence of characters, a character a string of one or, for *)
(* a control character, its ASCII name.                                    *)
(***************************************************************************)
EXTENDS Naturals, Sequences

CONSTANTS
    Chars,  \* the characters
    Texts   \* what gdbwire_mi_parser_parse_line is given

Quote == "\""
Backslash == "\\"

Digits == {"0", "1", "2", "3", "4", "5", "6", "7", "8", "9"}

\* {L} of the lexer.
Letters ==
    {"_", "a", "b", "c", "d", "e", "f", "g", "h", "i", "j", "k", "l", "m",
     "n", "o", "p", "q", "r", "s", "t", "u", "v", "w", "x", "y", "z",
     "A", "B", "C", "D", "E", "F", "G", "H", "I", "J", "K", "L", "M",
     "N", "O", "P", "Q", "R", "S", "T", "U", "V", "W", "X", "Y", "Z"}

\* The characters that are a token by themselves, and the token.
PunctuationChars ==
    {"^", ",", "+", "*", "=", "~", "@", "&", "[", "]", "{", "}", "(", ")"}

Punctuation(c) ==
    CASE c = "^" -> "CARROT"       [] c = "," -> "COMMA"
      [] c = "+" -> "ADD_OP"       [] c = "*" -> "MULT_OP"
      [] c = "=" -> "EQUAL_SIGN"   [] c = "~" -> "TILDA"
      [] c = "@" -> "AT_SYMBOL"    [] c = "&" -> "AMPERSAND"
      [] c = "[" -> "OPEN_BRACKET" [] c = "]" -> "CLOSED_BRACKET"
      [] c = "{" -> "OPEN_BRACE"   [] c = "}" -> "CLOSED_BRACE"
      [] c = "(" -> "OPEN_PAREN"   [] c = ")" -> "CLOSED_PAREN"

Whitespace == {" ", "TAB", "VT", "FF"}

ASSUME TextsAssumption == Texts \subseteq Seq(Chars)

-----------------------------------------------------------------------------
(* Patterns, as predicates of the whole string they match.                 *)

Over(s, chars) == \A i \in 1..Len(s) : s[i] \in chars

IsNewline(s) == s \in {<<"LF">>, <<"CR", "LF">>, <<"CR">>}

IsInteger(s) == s # << >> /\ Over(s, Digits)

IsIdentifier(s) ==
    /\ s # << >>
    /\ s[1] \in Letters
    /\ Over(s, Letters \cup Digits \cup {"-"})

\* Mutant: the closing quote may be missing.
MayBeOpen(s) ==
    /\ s # << >> /\ s[1] = Quote
    /\ \A i \in 2..(Len(s) - 1) : s[i] # Quote

\* \"(\\.|[^\\"])*\": the second to the n-th character of s are a sequence of
\* escaped characters and of plain ones.
IsCstring(s) ==
    LET Plain(c) == c \notin {Quote, Backslash}
        body[n \in Nat] ==
            \/ n = 1
            \/ n > 1 /\ Plain(s[n]) /\ body[n - 1]
            \/ n > 2 /\ s[n] # "LF" /\ s[n - 1] = Backslash /\ body[n - 2]
    IN /\ Len(s) >= 2
       /\ s[1] = Quote /\ s[Len(s)] = Quote
       /\ body[Len(s) - 1]

\* The rules in their order, and what a pattern matches.
Patterns ==
    <<"punctuation", "newline", "integer", "white", "identifier", "any",
      "cstring">>

Matches(pattern, s) ==
    CASE pattern = "punctuation" ->
            Len(s) = 1 /\ s[1] \in PunctuationChars
      [] pattern = "newline" -> IsNewline(s)
      [] pattern = "integer" -> IsInteger(s)
      [] pattern = "white" -> Len(s) = 1 /\ s[1] \in Whitespace
      [] pattern = "identifier" -> IsIdentifier(s)
      [] pattern = "any" -> Len(s) = 1 /\ s[1] # "LF"
      [] pattern = "cstring" -> IsCstring(s)

\* The token an action returns; white space has none.
NoToken == "no token"

Returns(pattern, s) ==
    CASE pattern = "punctuation" -> Punctuation(s[1])
      [] pattern = "newline" -> "NEWLINE"
      [] pattern = "integer" -> "INTEGER_LITERAL"
      [] pattern = "white" -> NoToken
      [] pattern \in {"identifier", "any"} -> "STRING_LITERAL"
      [] pattern = "cstring" -> "CSTRING"

\* flex takes the longest match and, of the patterns that match as much, the
\* first.
Matching(s) ==
    {m \in (1..Len(s)) \X (1..Len(Patterns)) :
        Matches(Patterns[m[2]], SubSeq(s, 1, m[1]))}

Match(s) ==
    CHOOSE m \in Matching(s) :
        \A o \in Matching(s) : m[1] > o[1] \/ (m[1] = o[1] /\ m[2] <= o[2])

-----------------------------------------------------------------------------
(* gdbwire_mi_unescape_cstring.                                            *)

\* The characters the switch gives back for an escape.
Escapes ==
    [e \in {"n", "b", "t", "f", "r", "e", "a", Quote, Backslash} |->
        CASE e = "n" -> "LF"  [] e = "b" -> "BS"  [] e = "t" -> "TAB"
          [] e = "f" -> "FF"  [] e = "r" -> "CR"  [] e = "e" -> "ESC"
          [] e = "a" -> "BEL" [] OTHER -> e]

\* Mutant: the character an escape stands for is read again.
UnescapeRereads(str) ==
    LET from[s \in Nat] ==
            IF s >= Len(str) THEN [text |-> << >>, stop |-> s]
            ELSE LET escape == str[s] = Backslash /\ str[s + 1] \in DOMAIN Escapes
                     rest == from[s + 1]
                 IN [text |-> <<IF escape THEN Escapes[str[s + 1]] ELSE str[s]>>
                                \o rest.text,
                     stop |-> rest.stop]
    IN from[2]

\* The unescaped text, and the index the loop stopped at.  The first and the
\* last character of str are its quotes; an unknown escape stays as it is.
Unescape(str) ==
    LET from[s \in Nat] ==
            IF s >= Len(str) THEN [text |-> << >>, stop |-> s]
            ELSE LET escape == str[s] = Backslash /\ str[s + 1] \in DOMAIN Escapes
                     rest == from[IF escape THEN s + 2 ELSE s + 1]
                 IN [text |-> <<IF escape THEN Escapes[str[s + 1]] ELSE str[s]>>
                                \o rest.text,
                     stop |-> rest.stop]
    IN from[2]

-----------------------------------------------------------------------------
VARIABLES
    text,    \* the text being scanned
    at,      \* how much of it is scanned
    column,  \* yycolumn
    extra,   \* yyextra, where the last match is
    tokens   \* history: the tokens returned, and yyextra with each

vars == <<text, at, column, extra, tokens>>

\* gdbwire_mi__scan_string and gdbwire_mi_set_column(1): every line is scanned
\* from the lexer's initial state.
Scan(line) ==
    /\ text = line
    /\ at = 0
    /\ column = 1
    /\ extra = <<0, 0>>
    /\ tokens = << >>

Init == \E line \in Texts : Scan(line)

Rest == SubSeq(text, at + 1, Len(text))

\* Mutant: a position is never moved by what has no token.
UserActionSticks(length) ==
    /\ extra' = <<column, column + length - 1>>
    /\ column' = IF text[at + 1] \in Whitespace THEN column ELSE column + length

\* YY_USER_ACTION.
UserAction(length) ==
    /\ extra' = <<column, column + length - 1>>
    /\ column' = column + length

\* One match: a token for the parser, or white space to skip.
Lex ==
    /\ at < Len(text)
    /\ LET length == Match(Rest)[1]
           pattern == Patterns[Match(Rest)[2]]
           token == Returns(pattern, SubSeq(Rest, 1, length))
       IN /\ at' = at + length
          /\ UserAction(length)
          /\ tokens' = IF token = NoToken THEN tokens
                       ELSE Append(tokens, [token |-> token, pos |-> extra'])
    /\ UNCHANGED text

\* gdbwire_mi_lex returns 0.
Done == at = Len(text)

EndOfText == Done /\ UNCHANGED vars

Next == Lex \/ EndOfText

Spec == Init /\ [][Next]_vars

-----------------------------------------------------------------------------
(* What the parser and its client rely on.                                 *)

TypeOK ==
    /\ text \in Seq(Chars)
    /\ at \in 0..Len(text)
    /\ column \in Nat \ {0}
    /\ extra \in Nat \X Nat
    /\ tokens \in Seq([token : {Punctuation(c) : c \in PunctuationChars} \cup
                                {"NEWLINE", "INTEGER_LITERAL",
                                 "STRING_LITERAL", "CSTRING"},
                       pos : Nat \X Nat])

TextAt(pos) == SubSeq(text, pos[1], pos[2])

\* The columns of the tokens tile the line: they are in order, do not overlap,
\* and leave out white space only, however the tokens and blanks are mixed.
ColumnsTile ==
    LET End(k) == IF k = 0 THEN 0 ELSE tokens[k].pos[2]
        Gap(end, begin) ==
            /\ end < begin
            /\ \A i \in (end + 1)..(begin - 1) : text[i] \in Whitespace
    IN /\ \A k \in 1..Len(tokens) :
            /\ Gap(End(k - 1), tokens[k].pos[1])
            /\ tokens[k].pos[1] <= tokens[k].pos[2]
       /\ Gap(End(Len(tokens)), at + 1)

\* A line as gdbwire_mi_parser_get_next_line cuts it.
IsLine(s) ==
    \E n \in {1, 2} :
        /\ n <= Len(s)
        /\ SubSeq(s, Len(s) - n + 1, Len(s)) \in
                {<<"LF">>, <<"CR", "LF">>, <<"CR">>}
        /\ \A i \in 1..(Len(s) - n) : s[i] \notin {"CR", "LF"}

\* What the grammar's error recovery waits for: whatever is on a line, quotes
\* that do not match and lone carriage returns included, its newline is one
\* token and the last one.
NewlineEndsLine ==
    IsLine(text) =>
        /\ \A k \in 1..Len(tokens) :
            tokens[k].token = "NEWLINE" => k = Len(tokens) /\ Done
        /\ Done => tokens # << >> /\ tokens[Len(tokens)].token = "NEWLINE"
=============================================================================
