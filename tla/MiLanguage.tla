----------------------------- MODULE MiLanguage -----------------------------
(***************************************************************************)
(* The language of the grammar's productions, by trying every way to split *)
(* a string: the reference the parser's verdicts are compared with.        *)
(***************************************************************************)
EXTENDS MiGrammar

RulesOf == [symbol \in Symbols |-> {r \in Rules : r.lhs = symbol}]

RECURSIVE Derives(_, _), DerivesAll(_, _), Begins(_, _)

\* The symbol derives the token string w.
Derives(symbol, w) ==
    IF symbol \in Tokens THEN w = <<symbol>>
    ELSE \E r \in RulesOf[symbol] : DerivesAll(r.rhs, w)

\* The symbols in a row derive w.  A left-recursive list gets shorter by the
\* comma that follows it.
DerivesAll(symbols, w) ==
    IF symbols = << >> THEN w = << >>
    ELSE LET last == Top(symbols)
             rest == Pop(symbols, 1)
         IN IF last \in Tokens
            THEN w # << >> /\ Top(w) = last /\ DerivesAll(rest, Pop(w, 1))
            ELSE \E n \in 0..Len(w) :
                    /\ DerivesAll(rest, SubSeq(w, 1, n))
                    /\ Derives(last, SubSeq(w, n + 1, Len(w)))

\* w begins a string the symbol derives.
Begins(symbol, w) ==
    \/ w = << >>
    \/ symbol \in Tokens /\ w = <<symbol>>
    \/ \E r \in RulesOf[symbol] : \E i \in 1..Len(r.rhs), n \in 0..Len(w) :
          /\ n > 0 \/ r.rhs[i] # symbol
          /\ r.rhs[i] \in Tokens => n >= Len(w) - 1
          /\ DerivesAll(SubSeq(r.rhs, 1, i - 1), SubSeq(w, 1, n))
          /\ Begins(r.rhs[i], SubSeq(w, n + 1, Len(w)))
=============================================================================
