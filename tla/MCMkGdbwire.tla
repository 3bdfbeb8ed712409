----------------------------- MODULE MCMkGdbwire -----------------------------
(***************************************************************************)
(* Every way for three headers and two sources to include headers.         *)
(***************************************************************************)
EXTENDS MkGdbwire, TLC

MCHeaders == <<"a.h", "b.h", "c.h">>
MCSources == <<"x.c", "y.c">>

\* Up to n different headers out of s.
Some(s, n) ==
    UNION {{q \in [1..m -> s] : IsInjective(q)} : m \in 0..n}

HeadersIncluding(Includes(_)) ==
    {"a.h" :> a \o <<"text">> @@ "b.h" :> b \o <<"text">>
        @@ "c.h" :> <<"text">> \o c \o <<"text">> :
        a \in Includes("a.h"), b \in Includes("b.h"), c \in Includes("c.h")}

MCContents ==
    LET all == {"a.h", "b.h", "c.h"}
        Others(f) == Some(all \ {f}, 2)
    IN {h @@ "x.c" :> x \o <<"#line", "text">> @@ "y.c" :> y \o <<"text">> :
            h \in HeadersIncluding(Others),
            x \in Some(all, 2), y \in Some(all, 1)}

-----------------------------------------------------------------------------
(* What the preprocessor makes of the files themselves.                    *)

RECURSIVE Preprocessed(_, _)

Preprocessed(acc, f) ==
    IF f \in acc.defined THEN acc
    ELSE FoldLeft(
            LAMBDA a, i :
                CASE content[f][i] = "text" -> [a EXCEPT !.text = Append(@, <<f, i>>)]
                  [] content[f][i] \in Headers -> Preprocessed(a, content[f][i])
                  [] OTHER -> a,
            [acc EXCEPT !.defined = @ \cup ({f} \cap Headers)],
            [i \in 1..Len(content[f]) |-> i])

Compiled ==
    LET seen == SelectSeq(out, LAMBDA o : o.live /\ o.as = "text")
    IN [i \in 1..Len(seen) |-> <<seen[i].file, seen[i].at>>]

\* f includes g, through other headers perhaps.
RECURSIVE Reaches(_, _, _)

Reaches(f, g, n) ==
    \E i \in 1..Len(content[f]) :
        LET l == content[f][i]
        IN l = g \/ (n > 0 /\ l \in Headers /\ Reaches(l, g, n - 1))

Circular == \E h \in Headers : Reaches(h, h, Len(HeaderFiles))

\* A compiler sees of the amalgamation what it would see of the files, one
\* after the other: every line once, and none before the headers it needs.
\* For the header that is so as long as headers do not include each other in
\* circles.
SameAsTheFiles ==
    Done /\ (job = "header" => ~Circular) =>
        Compiled = FoldLeft(Preprocessed, [text |-> << >>, defined |-> {}],
                            IF job = "header" THEN HeaderFiles
                                              ELSE SourceFiles).text
=============================================================================
