--------------------------- MODULE MkGdbwireProofs ---------------------------
(***************************************************************************)
(* The recursion of copy_file, for every set of files: a header that an    *)
(* #include opened is not available any more, so it is never opened by     *)
(* another one within its own text.                                        *)
(***************************************************************************)
EXTENDS MkGdbwire, SequenceTheorems, TLAPS

\* What an #include opened is a header that is taken.
Taken == \A i \in Inlined : open[i].file \in Headers \ available

CopyInv == TypeOK /\ Taken /\ NeverInsideItself

LEMMA HeadersAreFiles == Headers \subseteq Files
BY DEF Files

LEMMA InitEstablishes == Init => CopyInv
<1> SUFFICES ASSUME Init PROVE CopyInv
    OBVIOUS
<1>1. todo \in Seq(Files)
    <2>1. \A i \in 1..Len(HeaderFiles) : HeaderFiles[i] \in Files
        BY FilesAssumption DEF Files, Headers, Range
    <2>2. \A i \in 1..Len(SourceFiles) : SourceFiles[i] \in Files
        BY FilesAssumption DEF Files, Range
    <2> QED
        BY <2>1, <2>2, FilesAssumption DEF Init
<1>2. TypeOK
    BY <1>1, ContentsAssumption DEF Init, TypeOK
<1>3. Inlined = {}
    BY DEF Init, Inlined
<1> QED
    BY <1>2, <1>3 DEF CopyInv, Taken, NeverInsideItself

-----------------------------------------------------------------------------
\* The file that is open keeps its place when its next line is turned to.
LEMMA AdvancedKeepsFiles ==
    ASSUME TypeOK, InFile
    PROVE  /\ Advanced \in Seq(Places)
           /\ Len(Advanced) = Len(open)
           /\ \A i \in 1..Len(open) : Advanced[i].file = open[i].file
<1>1. open \in Seq(Places) /\ Len(open) \in Nat /\ Len(open) # 0
    BY DEF TypeOK, InFile
<1>2. /\ DOMAIN Advanced = 1..Len(open)
      /\ \A i \in 1..Len(open) :
            Advanced[i] = IF i = Len(open)
                          THEN [open[i] EXCEPT !.at = @ + 1] ELSE open[i]
    BY <1>1 DEF Advanced
<1>3. \A i \in 1..Len(open) :
        /\ Advanced[i] \in Places
        /\ Advanced[i].file = open[i].file
    <2> SUFFICES ASSUME NEW i \in 1..Len(open)
                 PROVE  Advanced[i] \in Places /\ Advanced[i].file = open[i].file
        OBVIOUS
    <2>1. open[i] \in Places
        BY <1>1
    <2>2. /\ [open[i] EXCEPT !.at = @ + 1] \in Places
          /\ [open[i] EXCEPT !.at = @ + 1].file = open[i].file
        BY <2>1 DEF Places
    <2> QED
        BY <1>2, <2>1, <2>2
<1>4. Advanced \in Seq(Places)
    BY <1>1, <1>2, <1>3 DEF Advanced
<1>5. Len(Advanced) = Len(open)
    BY <1>1, <1>2, <1>4
<1> QED
    BY <1>3, <1>4, <1>5

\* A step that leaves the same files open, and takes none back.
LEMMA SameFilesPreserve ==
    ASSUME CopyInv, InFile, open' = Advanced,
           UNCHANGED <<content, job, todo, available, defined>>
    PROVE  CopyInv'
<1>1. /\ open' \in Seq(Places)
      /\ Len(open') = Len(open)
      /\ \A i \in 1..Len(open) : open'[i].file = open[i].file
    BY AdvancedKeepsFiles DEF CopyInv
<1>2. TypeOK'
    BY <1>1 DEF CopyInv, TypeOK
<1>3. Inlined' = Inlined /\ \A i \in Inlined : i \in 1..Len(open)
    BY <1>1 DEF Inlined
<1> QED
    BY <1>1, <1>2, <1>3 DEF CopyInv, Taken, NeverInsideItself

LEMMA InlinePreserves == CopyInv /\ Inline => CopyInv'
<1> SUFFICES ASSUME CopyInv, Inline PROVE CopyInv'
    OBVIOUS
<1> DEFINE new == [file |-> Line, at |-> 1, live |-> Live(Line)]
<1>1. /\ Advanced \in Seq(Places)
      /\ Len(Advanced) = Len(open)
      /\ \A i \in 1..Len(open) : Advanced[i].file = open[i].file
    BY AdvancedKeepsFiles DEF CopyInv, Inline
<1>2. Line \in Headers /\ Line \in available
    BY DEF CopyInv, TypeOK, Inline
<1>3. Live(Line) \in BOOLEAN
    <2>1. open \in Seq(Places) /\ open # << >>
        BY DEF CopyInv, TypeOK, Inline, InFile
    <2>2. Last(open) \in Places
        BY <2>1 DEF Last
    <2> QED
        BY <2>1, <2>2 DEF Live, Places
<1>4. new \in Places
    BY <1>2, <1>3, HeadersAreFiles DEF Places
<1>5. open' = Append(Advanced, new)
    BY DEF Inline, CopyFile
<1> HIDE DEF new
<1>6. /\ open' \in Seq(Places)
      /\ Len(open') = Len(open) + 1
      /\ \A i \in 1..Len(open) : open'[i].file = open[i].file
      /\ open'[Len(open) + 1] = new
    BY <1>1, <1>4, <1>5
<1>7. new.file = Line
    BY DEF new
<1>8. available' = available \ {Line}
    BY DEF Inline
<1>9. TypeOK'
    <2>1. defined' \subseteq Headers /\ available' \subseteq Headers
        BY DEF CopyInv, TypeOK, Inline, CopyFile
    <2>2. (\A f \in Files : content'[f] \in Seq(STRING)) /\ todo' \in Seq(Files)
        BY DEF CopyInv, TypeOK, Inline
    <2> QED
        BY <1>6, <2>1, <2>2 DEF TypeOK
<1>10. Len(open) \in Nat
    BY DEF CopyInv, TypeOK
<1>11. \A i \in Inlined' : i \in Inlined \/ i = Len(open) + 1
    BY <1>6, <1>10 DEF Inlined
<1>12. \A i \in Inlined : i \in 1..Len(open)
    BY <1>10 DEF Inlined
<1>13. \A i \in Inlined : open'[i].file \in Headers \ available
    BY <1>6, <1>12 DEF CopyInv, Taken
<1>14. Taken'
    BY <1>2, <1>6, <1>7, <1>8, <1>11, <1>13 DEF Taken
<1>15. NeverInsideItself'
    <2> SUFFICES ASSUME NEW i \in Inlined', NEW j \in Inlined',
                        open'[i].file = open'[j].file
                 PROVE  i = j
        BY DEF NeverInsideItself
    <2>1. CASE i \in Inlined /\ j \in Inlined
        BY <2>1, <1>6, <1>12 DEF CopyInv, NeverInsideItself
    <2>2. CASE i \in Inlined /\ j = Len(open) + 1
        BY <2>2, <1>2, <1>6, <1>7, <1>13
    <2>3. CASE i = Len(open) + 1 /\ j \in Inlined
        BY <2>3, <1>2, <1>6, <1>7, <1>13
    <2> QED
        BY <1>11, <2>1, <2>2, <2>3
<1> QED
    BY <1>9, <1>14, <1>15 DEF CopyInv

LEMMA NextFilePreserves == CopyInv /\ NextFile => CopyInv'
<1> SUFFICES ASSUME CopyInv, NextFile PROVE CopyInv'
    OBVIOUS
<1>1. todo \in Seq(Files) /\ todo # << >> /\ open = << >>
    BY DEF CopyInv, TypeOK, NextFile
<1>2. Head(todo) \in Files /\ Tail(todo) \in Seq(Files)
    BY <1>1
<1>3. Live(Head(todo)) \in BOOLEAN
    BY <1>1 DEF Live
<1>4. open' = <<[file |-> Head(todo), at |-> 1, live |-> Live(Head(todo))]>>
    BY <1>1 DEF NextFile, CopyFile
<1>5. TypeOK'
    <2>1. open' \in Seq(Places)
        BY <1>2, <1>3, <1>4 DEF Places
    <2>2. defined' \subseteq Headers /\ available' \subseteq Headers
        BY DEF CopyInv, TypeOK, NextFile, CopyFile
    <2>3. \A f \in Files : content'[f] \in Seq(STRING)
        BY DEF CopyInv, TypeOK, NextFile
    <2> QED
        BY <1>2, <2>1, <2>2, <2>3 DEF TypeOK, NextFile
<1>6. Inlined' = {}
    BY <1>4 DEF Inlined
<1> QED
    BY <1>5, <1>6 DEF CopyInv, Taken, NeverInsideItself

LEMMA FrontIsShorter ==
    ASSUME NEW S, NEW s \in Seq(S), s # << >>
    PROVE  /\ Front(s) \in Seq(S)
           /\ Len(Front(s)) = Len(s) - 1
           /\ \A i \in 1..(Len(s) - 1) : Front(s)[i] = s[i]
<1> DEFINE n == Len(s) - 1
<1>1. Len(s) \in Nat /\ Len(s) > 0 /\ n \in Int
    OBVIOUS
<1>2. \A i \in 1..n : s[i] \in S
    BY <1>1
<1> HIDE DEF n
<1>3. /\ SubSeq(s, 1, n) \in Seq(S)
      /\ Len(SubSeq(s, 1, n)) = IF 1 <= n THEN n - 1 + 1 ELSE 0
      /\ \A i \in 1..(n - 1 + 1) : SubSeq(s, 1, n)[i] = s[1 + i - 1]
    <2>1. 1 \in Int
        OBVIOUS
    <2> QED
        BY <1>1, <1>2, <2>1, SubSeqProperties
<1>4. Front(s) = SubSeq(s, 1, n)
    BY DEF Front, n
<1>5. n \in Nat /\ n = Len(s) - 1
    BY <1>1 DEF n
<1> DEFINE front == SubSeq(s, 1, n)
<1> HIDE DEF front
<1>6. /\ front \in Seq(S)
      /\ Len(front) = n
      /\ \A i \in 1..n : front[i] = s[i]
    <2>1. /\ front \in Seq(S)
          /\ Len(front) = IF 1 <= n THEN n - 1 + 1 ELSE 0
          /\ \A i \in 1..(n - 1 + 1) : front[i] = s[1 + i - 1]
        BY <1>3 DEF front
    <2> QED
        BY <1>5, <2>1
<1>7. Front(s) = front
    BY <1>4 DEF front
<1> QED
    BY <1>5, <1>6, <1>7

LEMMA EndOfFilePreserves == CopyInv /\ EndOfFile => CopyInv'
<1> SUFFICES ASSUME CopyInv, EndOfFile PROVE CopyInv'
    OBVIOUS
<1>1. open \in Seq(Places) /\ open # << >> /\ Len(open) \in Nat /\ Len(open) > 0
    BY DEF CopyInv, TypeOK, EndOfFile
<1>2. open' = SubSeq(open, 1, Len(open) - 1)
    BY DEF EndOfFile, Front
<1>3. /\ open' \in Seq(Places)
      /\ Len(open') = Len(open) - 1
      /\ \A i \in 1..(Len(open) - 1) : open'[i] = open[i]
    BY <1>1, <1>2, FrontIsShorter DEF Front
<1>4. TypeOK'
    BY <1>3 DEF CopyInv, TypeOK, EndOfFile
<1>5. \A i \in Inlined' : i \in Inlined /\ open'[i] = open[i]
    BY <1>1, <1>3 DEF Inlined
<1> QED
    BY <1>4, <1>5 DEF CopyInv, Taken, NeverInsideItself, EndOfFile

-----------------------------------------------------------------------------
LEMMA NextPreserves == CopyInv /\ [Next]_vars => CopyInv'
<1> SUFFICES ASSUME CopyInv, [Next]_vars PROVE CopyInv'
    OBVIOUS
<1>1. CASE NextFile
    BY <1>1, NextFilePreserves
<1>2. CASE Inline
    BY <1>2, InlinePreserves
<1>3. CASE CommentOut \/ CopyLine
    BY <1>3, SameFilesPreserve DEF CommentOut, CopyLine, Written
<1>4. CASE SkipLine
    BY <1>4, SameFilesPreserve DEF SkipLine
<1>5. CASE EndOfFile
    BY <1>5, EndOfFilePreserves
<1>6. CASE UNCHANGED vars
    BY <1>6 DEF vars, CopyInv, TypeOK, Taken, NeverInsideItself, Inlined
<1> QED
    BY <1>1, <1>2, <1>3, <1>4, <1>5, <1>6 DEF Next

\* Whatever the files include, copy_file never opens a header through an
\* #include within the text of the same header, opened through another one.
THEOREM RecursionEnds == Spec => []NeverInsideItself
<1>1. Init => CopyInv
    BY InitEstablishes
<1>2. CopyInv => NeverInsideItself
    BY DEF CopyInv
<1> QED
    BY <1>1, <1>2, NextPreserves, PTL DEF Spec
=============================================================================
