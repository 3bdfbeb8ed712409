----------------------------- MODULE MiStrings -----------------------------
(***************************************************************************)
(* The way of a string from GDB to the client: GDB escapes it and writes   *)
(* it between quotes, the lexer finds it on its line, and                  *)
(* gdbwire_mi_unescape_cstring gives it back.                              *)
(***************************************************************************)
EXTENDS MiLexer, SequencesExt

CONSTANT Pairs  \* what GDB may transmit on a line: two strings

\* The characters GDB writes on such a line besides those of its strings.
Written ==
    {"a", "b", "=", ",", "LF", "0"} \cup DOMAIN Escapes

ASSUME PairsAssumption ==
    /\ Pairs \subseteq Seq(Chars) \X Seq(Chars)
    /\ Written \cup {Escapes[e] : e \in DOMAIN Escapes} \subseteq Chars

VARIABLE strings  \* what GDB transmits, or an empty sequence for any text

stringVars == <<vars, strings>>

\* GDB's printchar, as gdbwire_mi_grammar.txt describes it: unprintable
\* characters without a letter of their own are written in octal.
Escaped(c) ==
    CASE c \in {Quote, Backslash} -> <<Backslash, c>>
      [] c = "NUL" -> <<Backslash, "0", "0", "0">>
      [] c \in {"LF", "BS", "TAB", "FF", "CR", "ESC", "BEL"} ->
            <<Backslash, CHOOSE e \in {"n", "b", "t", "f", "r", "e", "a"} :
                            Escapes[e] = c>>
      [] OTHER -> <<c>>

CstringOf(s) ==
    <<Quote>> \o FlattenSeq([i \in 1..Len(s) |-> Escaped(s[i])]) \o <<Quote>>

\* a="...",b="..." and a newline.
LineOf(pair) ==
    <<"a", "=">> \o CstringOf(pair[1]) \o <<",", "b", "=">> \o
    CstringOf(pair[2]) \o <<"LF">>

StringsInit ==
    \/ strings = << >> /\ Init
    \/ strings \in Pairs /\ Scan(LineOf(strings))

StringsSpec == StringsInit /\ [][Next /\ UNCHANGED strings]_stringVars

-----------------------------------------------------------------------------
\* The client's string: what GDB writes in octal stays four characters.
Kept(s) ==
    FlattenSeq([i \in 1..Len(s) |->
                   IF s[i] = "NUL" THEN Escaped(s[i]) ELSE <<s[i]>>])

\* The index that steps over what a backslash escapes, with no other check than
\* its loop's, never steps over the closing quote, nor short of it, whatever
\* bytes the text of a CSTRING has.
StopsAtTheQuote ==
    \A k \in 1..Len(tokens) :
        tokens[k].token = "CSTRING" =>
            LET str == TextAt(tokens[k].pos) IN Unescape(str).stop = Len(str)

\* "Remove the GDB/MI escape characters to provide back to the user the
\* original characters that GDB was intending to transmit" (the comment of
\* gdbwire_mi_unescape_cstring): lexing and unescaping undo what GDB does, and
\* the two strings of a line are its third and its seventh token, never one.
\* What GDB writes in octal is not undone, although the comment says so.
GivesBackTheStrings ==
    /\ StopsAtTheQuote
    /\ strings # << >> =>
          /\ Done => Len(tokens) = 8
          /\ \A k \in 1..Len(tokens) :
                /\ tokens[k].token = "CSTRING" <=> k \in {3, 7}
                /\ k \in {3, 7} =>
                      Unescape(TextAt(tokens[k].pos)).text =
                          Kept(strings[IF k = 3 THEN 1 ELSE 2])
=============================================================================
