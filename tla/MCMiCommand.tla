---------------------------- MODULE MCMiCommand ----------------------------
(***************************************************************************)
(* Every command against result records of every shape the functions tell  *)
(* apart, with any one allocation failing, and -break-info against the two *)
(* encodings GDB has for the locations of a breakpoint.                    *)
(***************************************************************************)
EXTENDS MiCommandCalls

MCDotted == {"1.1", "1.2"}
MCNumerals == {"0", "1", "7"}
MCValueOf(text) ==
    CASE text \in {"1", "1.1", "1.2"} -> 1 [] text = "7" -> 7 [] OTHER -> 0

SeqsOf(S, n) == UNION {[1..m -> S] : m \in 0..n}

-----------------------------------------------------------------------------
(* Breakpoints and their encodings: mi2 puts the locations of a breakpoint *)
(* after it, mi3 in a list inside it.  A bad location has no number.       *)

Sources ==
    SeqsOf([number : {"1", "7"}, locations : SeqsOf({"1.1", "1.2", "bad"}, 2)],
           2)

FieldsOf(number, addr) ==
    IF number = "bad" THEN <<Cstring("func", "main")>>
    ELSE <<Cstring("number", number), Cstring("enabled", "y"),
           Cstring("addr", addr), Cstring("line", "7")>>

Address(b) == IF b.locations = << >> THEN "7" ELSE "<MULTIPLE>"

LocationsOf(b) ==
    [i \in 1..Len(b.locations) |->
        Tuple(NoVariable, FieldsOf(b.locations[i], "7"))]

Mi2(b) == <<Tuple("bkpt", FieldsOf(b.number, Address(b)))>> \o LocationsOf(b)

Mi3(b) ==
    <<Tuple("bkpt",
        FieldsOf(b.number, Address(b)) \o
        IF b.locations = << >> THEN << >>
        ELSE <<List("locations", LocationsOf(b))>>)>>

Table(body) ==
    ResultRecord("DONE", <<Tuple("BreakpointTable",
                    <<List("hdr", << >>), List("body", body)>>)>>)

RecordMi2(s) == Table(FlattenSeq([i \in 1..Len(s) |-> Mi2(s[i])]))
RecordMi3(s) == Table(FlattenSeq([i \in 1..Len(s) |-> Mi3(s[i])]))

\* The breakpoint those fields say.
Said(number, addr, locations) ==
    [copied |-> ("number" :> number @@ "addr" :> addr),
     multi |-> addr = "<MULTIPLE>", from_multi |-> number \in Dotted,
     pending |-> FALSE, enabled |-> TRUE, disposition |-> "unknown", line |-> 7,
     times |-> 0, multi_breakpoints |-> locations]

\* What a breakpoint says, wherever it is in memory.
RECURSIVE Contents(_)

Contents(breakpoints) ==
    [i \in 1..Len(breakpoints) |->
        [f \in DOMAIN breakpoints[i] \ {"at", "multi_breakpoint"} |->
            IF f = "multi_breakpoints" THEN Contents(breakpoints[i][f])
            ELSE breakpoints[i][f]]]

Good(b) == SelectSeq(b.locations, LAMBDA l : l # "bad")

\* The breakpoints of s, with the locations that are good.
Forest(s) ==
    [i \in 1..Len(s) |->
        Said(s[i].number, Address(s[i]),
             [j \in 1..Len(Good(s[i])) |-> Said(Good(s[i])[j], "7", << >>)])]

-----------------------------------------------------------------------------
(* Records of every shape.                                                 *)

LocationLists ==
    SeqsOf({Tuple(NoVariable, <<Cstring("number", "1.1")>>),
            Tuple(NoVariable, <<Cstring("disp", "word")>>),
            Tuple(NoVariable, << >>), Cstring(NoVariable, "1")}, 2)

BreakpointFields ==
    {Cstring("number", "1"), Cstring("number", "1.1"), Cstring("disp", "del"),
     Cstring("disp", "word"), Cstring("times", "1"), Cstring("line", "word"),
     Cstring("addr", "<MULTIPLE>"), Cstring("other", "1"),
     Cstring(NoVariable, "1"), Tuple("number", << >>),
     Cstring("locations", "1")}
    \cup {List("locations", l) : l \in LocationLists}

\* One breakpoint of any fields, and breakpoints in any order.
TableBodies ==
    {<<Tuple("bkpt", f)>> : f \in SeqsOf(BreakpointFields, 2)} \cup
    SeqsOf({Tuple(v, <<Cstring("number", n)>>) :
                v \in {"bkpt", "other", NoVariable}, n \in {"1", "1.1"}}
           \cup {Tuple("bkpt", << >>), Cstring("bkpt", "1")}, 3)

\* What may stand where a table, a frame or the files should.
Inner ==
    {<< >>, <<Cstring("level", "1")>>, <<List("body", << >>)>>,
     <<List(NoVariable, << >>), List("body", << >>)>>,
     <<List("body", << >>), List(NoVariable, << >>)>>,
     <<List("hdr", << >>), Tuple("body", << >>)>>}

Shapes ==
    LET names == {"BreakpointTable", "frame", "files", NoVariable}
        one == {Cstring(v, "1") : v \in names}
               \cup {Tuple(v, i) : v \in names, i \in Inner}
               \cup {List(v, i) : v \in names, i \in Inner}
    IN {<< >>} \cup {<<r>> : r \in one}
       \cup {<<r, Cstring("level", "1")>> : r \in one}

FrameFields ==
    SeqsOf({Cstring("level", "1"), Cstring("addr", "1"),
            Cstring("addr", "<unavailable>"), Cstring("from", "main"),
            Cstring(NoVariable, "1"), Tuple(NoVariable, << >>)}, 3)

FileFields ==
    SeqsOf({Cstring("line", "7"), Cstring("file", "main"),
            Cstring("fullname", "main"), Cstring("macro-info", "0"),
            Cstring("macro-info", "word"), Cstring(NoVariable, "1"),
            Tuple("file", << >>)}, 3)

FileLists ==
    SeqsOf({Cstring("file", "main")} \cup
           {Tuple(NoVariable, f) : f \in
                SeqsOf({Cstring("file", "main"), Cstring("fullname", "main"),
                        Cstring("debug-fully-read", "true"),
                        Cstring(NoVariable, "1"), Tuple("file", << >>)}, 2)},
           2)

Records(kind) ==
    {ResultRecord(class, s) : class \in {"DONE", "ERROR"}, s \in Shapes} \cup
    CASE kind = "BREAK_INFO" -> {Table(b) : b \in TableBodies}
      [] kind = "STACK_INFO_FRAME" ->
            {ResultRecord("DONE", <<Tuple("frame", f)>>) : f \in FrameFields}
      [] kind = "FILE_LIST_EXEC_SOURCE_FILE" ->
            {ResultRecord("DONE", f) : f \in FileFields}
      [] kind = "FILE_LIST_EXEC_SOURCE_FILES" ->
            {ResultRecord("DONE", <<List("files", f)>>) : f \in FileLists}

\* A question with the breakpoints its record was written from, if it was: a
\* set of at most one list of them.
Question(kind, record, source) ==
    [kind |-> kind, record |-> record, source |-> source]

MCQuestions ==
    {Question("BREAK_INFO", RecordMi2(s), {s}) : s \in Sources} \cup
    {Question("BREAK_INFO", RecordMi3(s), {s}) : s \in Sources} \cup
    UNION {{Question(kind, record, {}) : record \in Records(kind)} :
            kind \in CommandKinds}

Source == IF asked.kind = "none" THEN {} ELSE asked.source

-----------------------------------------------------------------------------
(* What -break-info makes of a breakpoint's locations.                     *)

\* Both encodings of the same breakpoints make the same command, which says
\* what they say: a number, its locations and their order are never mixed up.
\* Without memory that is so in mi2; in mi3 a location can be missing.
BothEncodings ==
    \A s \in Source :
        answer.result = "OK" /\ (fault = 0 \/ asked.record = RecordMi2(s)) =>
            Contents(answer.out[1].breakpoints) = Forest(s)

\* "When the field from_multi is true, this will be a pointer to the
\* multi-location breakpoint that created this breakpoint. Otherwise NULL.": so
\* it is in both encodings, and no two breakpoints are the same object.
BackPointers ==
    \A s \in Source : answer.result = "OK" =>
        LET breakpoints == answer.out[1].breakpoints
            locations == FlattenSeq([i \in 1..Len(breakpoints) |->
                                        breakpoints[i].multi_breakpoints])
        IN /\ IsInjective([i \in 1..Len(breakpoints \o locations) |->
                                (breakpoints \o locations)[i].at])
           /\ \A b \in Range(breakpoints) :
                /\ ~b.from_multi /\ b.multi_breakpoint = NoObject
                /\ \A l \in Range(b.multi_breakpoints) :
                      l.from_multi /\ l.multi_breakpoint = <<b.at>>

\* The results whose variables the function for a kind gives to strcmp: those
\* of the record, the fields of the table, the frame or each file.
Under(results) ==
    UNION {Range(r.result) : r \in {q \in results : q.kind # "CSTRING"}}

Compared(kind, record) ==
    LET top == Range(record.result)
    IN CASE kind = "FILE_LIST_EXEC_SOURCE_FILE" -> top
         [] kind = "FILE_LIST_EXEC_SOURCE_FILES" -> top \cup Under(Under(top))
         [] OTHER -> top \cup Under(top)

\* The table says a location before it says a breakpoint.
StartsWithALocation(kind, record) ==
    /\ kind = "BREAK_INFO"
    /\ \E f \in Range(Cstrings(Last(record.result[1].result).result[1].result)) :
          f.variable = "number" /\ f.cstring \in Dotted

\* The calls that use a pointer with no value or compare a name with NULL are
\* those about a table that starts with a location, and about a record that has
\* no name where one is compared.  No other record leads to one, however many
\* of its breakpoints are wrong or find no memory before a location comes that
\* belongs to them: the two encodings of breakpoints never do.
UndefinedOnlyThen ==
    answer.result = "UNDEFINED" =>
        /\ Source = {}
        /\ \/ \E r \in Compared(asked.kind, asked.record) :
                 r.variable = NoVariable
           \/ StartsWithALocation(asked.kind, asked.record)

\* The comment above break_info_for_breakpoint: bkpt is allocated on success
\* and NULL otherwise.
BkptIffOK ==
    \A s \in Source : \A b \in Range(s) :
        asked.record = RecordMi3(s) =>
            LET bkpt == ForBreakpoint(Mi3(b)[1].result, Heap(fault))
            IN bkpt.result = "OK" <=> bkpt.out # NoObject
=============================================================================
