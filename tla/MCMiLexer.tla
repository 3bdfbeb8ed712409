----------------------------- MODULE MCMiLexer -----------------------------
(***************************************************************************)
(* The lexer on every text up to a length, and on the lines GDB writes for *)
(* a pair of strings: MI escapes them, and the client wants them back.     *)
(***************************************************************************)
EXTENDS MiStrings

CONSTANTS
    Scanned,    \* the characters of the texts
    MaxText,    \* bound: the length of a text
    Intended,   \* the characters of the strings GDB transmits
    MaxString,  \* bound: the length of the first string
    MaxSecond   \* bound: the length of the second string

MCScanned == {Quote, Backslash, "n", "7", "-", " ", "=", "CR", "LF"}
MCIntended == {Quote, Backslash, "n", "LF", "NUL"}

MCChars ==
    MCScanned \cup MCIntended \cup Written \cup
    {Escapes[e] : e \in DOMAIN Escapes}

TextsUpTo(chars, n) == UNION {[1..m -> chars] : m \in 0..n}

MCTexts == TextsUpTo(Scanned, MaxText)

\* The second string need not be long: it is there to be taken for a part of
\* the first one.
MCPairs == TextsUpTo(Intended, MaxString) \X TextsUpTo(Intended, MaxSecond)
=============================================================================
