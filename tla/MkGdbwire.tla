------------------------------ MODULE MkGdbwire ------------------------------
(***************************************************************************)
(* mkgdbwire.py: the amalgamation of the library into one header and one   *)
(* source file.  copy_file writes a file line by line and itself for the   *)
(* header of an #include that it sees for the first time.                  *)
(*                                                                         *)
(* A line is "text", "#line", or the name in an #include "name".           *)
(***************************************************************************)
EXTENDS Integers, Sequences, SequencesExt, FiniteSets

CONSTANTS
    HeaderFiles,  \* header_files
    SourceFiles,  \* source_files
    Contents      \* what may be in the files: a set of functions from their
                  \* names to sequences of lines

Headers == Range(HeaderFiles)
Files == Headers \cup Range(SourceFiles)

IsInclude(l) == l \notin {"text", "#line"}

ASSUME NamesAssumption ==
    Headers \cap Range(SourceFiles) = {} /\ \A f \in Files : IsInclude(f)

ASSUME FilesAssumption ==
    HeaderFiles \in Seq(STRING) /\ SourceFiles \in Seq(STRING)

ASSUME ContentsAssumption ==
    \A c \in Contents : \A f \in Files : c[f] \in Seq(STRING)

VARIABLES
    content,    \* the files
    job,        \* the file that is made, by write_gdbwire_header or _source
    todo,       \* the files that copy_file is still to be called with
    open,       \* the files copy_file is in, with their next line
    available,  \* the headers h with available_hdr[h]
    defined,    \* history: the headers whose guard is defined by now
    out         \* what is written, and whether a compiler gets to see it

vars == <<content, job, todo, open, available, defined, out>>

Init ==
    /\ content \in Contents
    /\ \/ job = "header" /\ todo = HeaderFiles
       \/ job = "source" /\ todo = SourceFiles
    /\ open = << >>
    /\ available = Headers
    /\ defined = {} /\ out = << >>

-----------------------------------------------------------------------------
\* The copy of f that begins here is compiled: it is not in one that is not,
\* and its guard is not defined.
Live(f) == (open # << >> => Last(open).live) /\ f \notin defined

CopyFile(f, outer) ==
    /\ open' = Append(outer, [file |-> f, at |-> 1, live |-> Live(f)])
    /\ defined' = defined \cup (IF Live(f) THEN {f} \cap Headers ELSE {})

\* The loops of write_gdbwire_header and write_gdbwire_source.
NextFile ==
    /\ open = << >> /\ todo # << >>
    /\ CopyFile(Head(todo), << >>)
    /\ todo' = Tail(todo)
    /\ UNCHANGED <<content, job, available, out>>

Top == Last(open)
InFile == open # << >> /\ Top.at <= Len(content[Top.file])
Line == content[Top.file][Top.at]

Advanced == [open EXCEPT ![Len(open)].at = @ + 1]

\* Mutant: the header stays available.
InlineUnmarked ==
    /\ InFile
    /\ Line \in available
    /\ CopyFile(Line, Advanced)
    /\ UNCHANGED <<content, job, todo, available, out>>

\* An #include of a header that was not in one yet: the header is copied.
Inline ==
    /\ InFile
    /\ Line \in available
    /\ available' = available \ {Line}
    /\ CopyFile(Line, Advanced)
    /\ UNCHANGED <<content, job, todo, out>>

Written(as) ==
    /\ out' = Append(out, [file |-> Top.file, at |-> Top.at, as |-> as,
                           live |-> Top.live])
    /\ open' = Advanced
    /\ UNCHANGED <<content, job, todo, available, defined>>

\* Mutant: an #include is commented out before it is inlined anywhere.
CommentOutAny == InFile /\ IsInclude(Line) /\ Written("comment")

\* Any other #include "" is commented out.
CommentOut ==
    /\ InFile
    /\ IsInclude(Line) /\ Line \notin available
    /\ Written("comment")

CopyLine == InFile /\ Line = "text" /\ Written("text")

SkipLine ==
    /\ InFile
    /\ Line = "#line"
    /\ open' = Advanced
    /\ UNCHANGED <<content, job, todo, available, defined, out>>

EndOfFile ==
    /\ open # << >> /\ ~InFile
    /\ open' = Front(open)
    /\ UNCHANGED <<content, job, todo, available, defined, out>>

Done == open = << >> /\ todo = << >>

Next ==
    \/ NextFile \/ Inline \/ CommentOut \/ CopyLine \/ SkipLine \/ EndOfFile
    \/ Done /\ UNCHANGED vars

Spec == Init /\ [][Next]_vars

-----------------------------------------------------------------------------
Places == [file : Files, at : Nat \ {0}, live : BOOLEAN]

TypeOK ==
    /\ \A f \in Files : content[f] \in Seq(STRING)
    /\ todo \in Seq(Files)
    /\ open \in Seq(Places)
    /\ available \subseteq Headers /\ defined \subseteq Headers

\* Where the files are that an #include opened: all but the outermost one.
Inlined == 2..Len(open)

\* However the headers include each other, in circles too, no file is inlined
\* in its own text twice over: copy_file's recursion is never deeper than there
\* are headers, and it ends.
NeverInsideItself ==
    \A i, j \in Inlined : open[i].file = open[j].file => i = j
=============================================================================
