----------------------------- MODULE MiCommand -----------------------------
(***************************************************************************)
(* gdbwire_get_mi_command: the commands of gdbwire_mi_command.c made from  *)
(* the parse tree of a result record.                                      *)
(*                                                                         *)
(* A parse tree is a sequence of results.  An allocation may fail, and the *)
(* calls that depend on it say so; a heap counts the allocations: those    *)
(* left until the one that fails, and those that are not freed.            *)
(* A pointer that may be NULL is a sequence of at most one element.        *)
(***************************************************************************)
EXTENDS Integers, Sequences, SequencesExt

CONSTANTS
    Dotted,     \* the texts with a "." in them
    Numerals,   \* the texts gdbwire_string_to_ulong takes
    ValueOf(_), \* the number atoi reads in a text, and strtoul in a numeral
    MaxNesting  \* bound: how deep lists and tuples are in the fields of a
                \* breakpoint

-----------------------------------------------------------------------------
(* Parse trees: struct gdbwire_mi_result and gdbwire_mi_result_record.     *)

NoVariable == ""

Cstring(v, text) == [variable |-> v, kind |-> "CSTRING", cstring |-> text]
Tuple(v, results) == [variable |-> v, kind |-> "TUPLE", result |-> results]
List(v, results) == [variable |-> v, kind |-> "LIST", result |-> results]

ResultRecord(class, results) == [class |-> class, result |-> results]

\* The results in which others are at most n deep.
Nested[n \in Nat] ==
    [variable : STRING, kind : {"CSTRING"}, cstring : STRING] \cup
    [variable : STRING, kind : {"TUPLE", "LIST"},
     result : IF n = 0 THEN {<< >>} ELSE Seq(Nested[n - 1])]

-----------------------------------------------------------------------------
(* The heap.                                                               *)

NoObject == << >>

\* "left" is 0 when no allocation will fail, "made" is the last address.
Heaps == [left : Nat, made : Nat, live : Int]

Heap(fault) == [left |-> fault, made |-> 0, live |-> 0]

\* One of the next n allocations fails.
Fails(heap, n) == heap.left \in 1..n

\* n allocations are tried, and all succeed but for the one that fails.
Allocated(heap, n) ==
    LET got == IF Fails(heap, n) THEN n - 1 ELSE n
    IN [left |-> IF heap.left > n THEN heap.left - n ELSE 0,
        made |-> heap.made + got, live |-> heap.live + got]

Freed(heap, n) == [heap EXCEPT !.live = @ - n]

\* What a function that makes an object returns.
Fault(why, heap) == [result |-> why, out |-> NoObject, heap |-> heap]

\* Mutant: the allocations are not checked.
MadeUnchecked(object, n, heap, why) ==
    [result |-> "OK", out |-> IF Fails(heap, n) THEN NoObject ELSE <<object>>,
     heap |-> Allocated(heap, n)]

\* The object takes n allocations; when one fails the others are freed.
Made(object, n, heap, why) ==
    IF Fails(heap, n) THEN Fault(why, Freed(Allocated(heap, n), n - 1))
    ELSE [result |-> "OK", out |-> <<object>>, heap |-> Allocated(heap, n)]

-----------------------------------------------------------------------------
(* Fields.                                                                 *)

Cstrings(fields) == SelectSeq(fields, LAMBDA f : f.kind = "CSTRING")

\* strcmp reads the variable of a field that has none.
Keyless(fields) == \E i \in 1..Len(fields) : fields[i].variable = NoVariable

\* The texts of the variables in names, the last one of each.
TextsOf(fields, names) ==
    FoldLeft(LAMBDA given, f :
                IF f.kind = "CSTRING" /\ f.variable \in names
                THEN (f.variable :> f.cstring) @@ given ELSE given,
             << >>, fields)

Has(given, v) == v \in DOMAIN given

Is(given, v, text) == Has(given, v) /\ given[v] = text

\* What gdbwire_strdup copies of it.
Copied(given, names) == [v \in names \cap DOMAIN given |-> given[v]]

Number(given, v) == IF Has(given, v) THEN ValueOf(given[v]) ELSE 0

-----------------------------------------------------------------------------
(* -break-info.                                                            *)

Strings == {"number", "addr", "catch-type", "type", "func", "file",
            "fullname", "original-location"}

Scalars == Strings \cup {"enabled", "disp", "line", "times"}

Dispositions == {"del", "dstp", "dis", "keep"}

\* A number with a "." makes it a location, also when another number follows.
\* Of "enabled" only the first letter counts: GDB says y or n.
Breakpoint(address, given, dotted, locations) ==
    [at |-> address,
     copied |-> Copied(given, Strings),
     multi |-> Is(given, "addr", "<MULTIPLE>"),
     from_multi |-> dotted,
     pending |-> Is(given, "addr", "<PENDING>"),
     enabled |-> Is(given, "enabled", "y"),
     disposition |-> IF Has(given, "disp") THEN given["disp"] ELSE "unknown",
     line |-> Number(given, "line"),
     times |-> Number(given, "times"),
     multi_breakpoints |-> locations,
     multi_breakpoint |-> NoObject]

\* Mutant: the locations of a breakpoint are not freed with it.
Forgotten(breakpoints) == << >>

\* The breakpoints one level below.
Inside(breakpoints) ==
    FlattenSeq([i \in 1..Len(breakpoints) |-> breakpoints[i].multi_breakpoints])

\* How many allocations a breakpoint is: itself and its strings.
Size(b) == 1 + Cardinality(DOMAIN b.copied)

\* All breakpoints are freed, those in the lists of others too.  Level by level
\* that is: the breakpoints, their locations, and what is in the fields of these.
BreakpointsFree(breakpoints, heap) ==
    FoldLeft(LAMBDA at, i :
                [level |-> Inside(at.level),
                 heap |-> FoldLeft(LAMBDA h, b : Freed(h, Size(b)),
                                   at.heap, at.level)],
             [level |-> breakpoints, heap |-> heap],
             [i \in 1..(MaxNesting + 2) |-> i]).heap

\* Mutant: only the first location is told whose it is.
OwnsTheFirst(b, locations) ==
    [i \in 1..Len(locations) |->
        IF i = 1 THEN [locations[i] EXCEPT !.multi_breakpoint = <<b.at>>]
        ELSE locations[i]]

\* The locations of b point to it.
OwnedBy(b, locations) ==
    [i \in 1..Len(locations) |->
        [locations[i] EXCEPT !.multi_breakpoint = <<b.at>>]]

\* What makes break_info_for_breakpoint return before it has read the fields
\* that follow f.
Stops(f) ==
    CASE f.variable = NoVariable -> "ASSERT"
      [] f.variable \in Scalars /\ f.kind # "CSTRING" -> "ASSERT"
      [] f.variable = "disp" /\ f.cstring \notin Dispositions -> "LOGIC"
      [] f.variable \in {"line", "times"} /\ f.cstring \notin Numerals ->
            "ASSERT"
      [] f.variable = "locations" /\ f.kind # "LIST" -> "ASSERT"
      [] OTHER -> "OK"

\* The result of one location takes the place of the result of the one before.
AddLocation(acc, made) ==
    [acc EXCEPT !.result = made.result, !.locations = @ \o made.out,
                !.heap = made.heap]

\* One iteration of the loop over the locations, which "For" reads.
ReadLocation(For, acc, location) ==
    IF acc.stop # "OK" THEN acc
    ELSE IF location.kind # "TUPLE" THEN [acc EXCEPT !.stop = "ASSERT"]
    ELSE AddLocation(acc, For[location.result, acc.heap])

\* One iteration of the loop over the fields of a breakpoint.
ReadField(For, acc, f) ==
    IF acc.stop # "OK" THEN acc
    ELSE IF Stops(f) # "OK" THEN [acc EXCEPT !.stop = Stops(f)]
    ELSE IF f.variable \in Scalars
    THEN [acc EXCEPT
            !.given = (f.variable :> f.cstring) @@ @,
            !.dotted = @ \/ (f.variable = "number" /\ f.cstring \in Dotted)]
    ELSE IF f.variable = "locations"
    THEN FoldLeft(LAMBDA a, l : ReadLocation(For, a, l), acc, f.result)
    ELSE acc

\* The breakpoint is allocated, and then the copies of its strings; without
\* one of these, what was made is freed, the locations too.  Without memory for
\* the breakpoint itself the locations are forgotten.
AllocateBreakpoint(read) ==
    LET made == Allocated(read.heap, 1)
        copies == Cardinality(Strings \cap DOMAIN read.given)
        new == Breakpoint(made.made, read.given, read.dotted, << >>)
        bkpt == [new EXCEPT !.multi_breakpoints = OwnedBy(new, read.locations)]
    IN CASE Fails(read.heap, 1) -> Fault("NOMEM", made)
         [] ~Fails(read.heap, 1) /\ Fails(made, copies) ->
                Fault("NOMEM",
                      Freed(BreakpointsFree(read.locations,
                                            Allocated(made, copies)),
                            1 + copies - 1))
         [] OTHER ->
                [result |-> read.result, out |-> <<bkpt>>,
                 heap |-> Allocated(made, copies)]

\* The early returns forget the locations that were read.
FinishBreakpoint(read) ==
    CASE read.stop # "OK" -> Fault(read.stop, read.heap)
      [] read.stop = "OK" /\ ~Has(read.given, "number") ->
            Fault("ASSERT", read.heap)
      [] OTHER -> AllocateBreakpoint(read)

\* break_info_for_breakpoint, which calls itself for what is one deeper.
BreakpointAt[n \in Nat] ==
    [fields \in Seq(Nested[n]), heap \in Heaps |->
        FinishBreakpoint(
            FoldLeft(LAMBDA acc, f : ReadField(BreakpointAt[n - 1], acc, f),
                     [stop |-> IF fields = << >> THEN "ASSERT" ELSE "OK",
                      result |-> "OK", given |-> << >>, dotted |-> FALSE,
                      locations |-> << >>, heap |-> heap],
                     fields))]

ForBreakpoint(fields, heap) == BreakpointAt[MaxNesting][fields, heap]

\* Mutant: a breakpoint's second location takes the place of the first.
AttachesOnly(breakpoints, b) ==
    [breakpoints EXCEPT ![Len(breakpoints)].multi_breakpoints =
        OwnedBy(Last(breakpoints), <<b>>)]

\* A location in the mi2 output belongs to the breakpoint before it.
Attach(breakpoints, b) ==
    [breakpoints EXCEPT ![Len(breakpoints)].multi_breakpoints =
        @ \o OwnedBy(Last(breakpoints), <<b>>)]

\* Mutant: a breakpoint that is wrong or finds no memory is left out.
SkipsWrong(acc, made) ==
    LET more == [acc EXCEPT !.heap = made.heap]
    IN CASE made.result # "OK" -> more
         [] made.result = "OK" /\ ~made.out[1].from_multi ->
                [more EXCEPT !.breakpoints = @ \o made.out]
         [] OTHER ->
                IF acc.breakpoints # << >>
                THEN [more EXCEPT !.breakpoints = Attach(@, made.out[1])]
                ELSE [more EXCEPT !.result = "UNDEFINED"]

\* A breakpoint goes to the end of the list, a location to the breakpoint
\* before it: cur_bkpt, which has no value when a location comes first.
AddBreakpoint(acc, made) ==
    LET more == [acc EXCEPT !.heap = made.heap]
    IN CASE made.result # "OK" -> [more EXCEPT !.result = made.result]
         [] made.result = "OK" /\ ~made.out[1].from_multi ->
                [more EXCEPT !.breakpoints = @ \o made.out]
         [] OTHER ->
                IF acc.breakpoints # << >>
                THEN [more EXCEPT !.breakpoints = Attach(@, made.out[1])]
                ELSE [more EXCEPT !.result = "UNDEFINED"]

\* One iteration of the loop over the body of the table.
ReadBreakpoint(acc, r) ==
    IF acc.result # "OK" THEN acc
    ELSE IF r.kind # "TUPLE" \/ r.variable \notin {NoVariable, "bkpt"}
    THEN [acc EXCEPT !.result = "ASSERT"]
    ELSE AddBreakpoint(acc, ForBreakpoint(r.result, acc.heap))

\* The cleanup frees the breakpoints read so far.  A breakpoint that came with
\* an error is not among them.
AfterCleanup(read) == BreakpointsFree(read.breakpoints, read.heap)

\* The assertions on a result record that holds one result of this kind and
\* name: UNDEFINED where strcmp is given a result's missing variable.
CheckOnly(record, kind, name) ==
    CASE record.class # "DONE" \/ record.result = << >> -> "ASSERT"
      [] record.result[1].kind # kind -> "ASSERT"
      [] record.result[1].variable = NoVariable -> "UNDEFINED"
      [] record.result[1].variable # name \/ Len(record.result) > 1 ->
            "ASSERT"
      [] OTHER -> "OK"

\* A tuple must have something in it, too.
CheckTuple(record, name) ==
    LET check == CheckOnly(record, "TUPLE", name)
    IN IF check = "OK" /\ record.result[1].result = << >>
       THEN "ASSERT" ELSE check

\* The positions of the table where the search for its body looks at a name.
Lists(table) == {i \in 1..Len(table) : table[i].kind = "LIST"}

Bodies(table) ==
    {i \in Lists(table) :
        /\ table[i].variable = "body"
        /\ \A j \in Lists(table) : table[j].variable = "body" => i <= j}

\* The search for the body, which must be the last thing in the table.
CheckTable(table) ==
    CASE \E i \in Lists(table) :
            /\ table[i].variable = NoVariable
            /\ \A b \in Bodies(table) : i < b -> "UNDEFINED"
      [] Bodies(table) # {Len(table)} -> "ASSERT"
      [] OTHER -> "OK"

FinishBreakInfo(read) ==
    IF read.result = "OK" /\ ~Fails(read.heap, 1)
    THEN [result |-> "OK",
          out |-> <<[kind |-> "BREAK_INFO", breakpoints |-> read.breakpoints]>>,
          heap |-> Allocated(read.heap, 1)]
    ELSE Fault(IF read.result = "OK" THEN "NOMEM" ELSE read.result,
               AfterCleanup(read))

BreakInfo(record, heap) ==
    LET check == CheckTuple(record, "BreakpointTable")
        table == record.result[1].result
    IN CASE check # "OK" -> Fault(check, heap)
         [] check = "OK" /\ CheckTable(table) # "OK" ->
                Fault(CheckTable(table), heap)
         [] OTHER ->
                FinishBreakInfo(
                    FoldLeft(ReadBreakpoint,
                        [result |-> "OK", breakpoints |-> << >>,
                         heap |-> heap],
                        table[Len(table)].result))

-----------------------------------------------------------------------------
(* -stack-info-frame.                                                      *)

FrameStrings == {"addr", "func", "file", "fullname", "from"}

StackInfoFrame(record, heap) ==
    LET check == CheckTuple(record, "frame")
        fields == record.result[1].result
        given == TextsOf(fields, FrameStrings \cup {"level", "line"})
        copied == Copied(given, IF Is(given, "addr", "<unavailable>")
                                THEN FrameStrings \ {"addr"} ELSE FrameStrings)
    IN CASE check # "OK" -> Fault(check, heap)
         [] Keyless(Cstrings(fields)) -> Fault("UNDEFINED", heap)
         [] ~(Has(given, "level") /\ Has(given, "addr")) ->
                Fault("ASSERT", heap)
         [] OTHER -> Made([kind |-> "STACK_INFO_FRAME",
                           level |-> ValueOf(given["level"]),
                           line |-> Number(given, "line"),
                           copied |-> copied],
                          2 + Cardinality(DOMAIN copied), heap, "NOMEM")

-----------------------------------------------------------------------------
(* -file-list-exec-source-file.                                            *)

FileStrings == {"file", "fullname"}

\* What ends the loop over the fields: a macro-info that is neither 0 nor 1.
MacroStops(f) ==
    CASE f.kind # "CSTRING" -> "OK"
      [] f.variable = NoVariable -> "UNDEFINED"
      [] f.variable = "macro-info" /\ f.cstring \notin {"0", "1"} -> "ASSERT"
      [] OTHER -> "OK"

\* The first field that does.
FirstStop(fields) ==
    {i \in 1..Len(fields) :
        /\ MacroStops(fields[i]) # "OK"
        /\ \A j \in 1..(i - 1) : MacroStops(fields[j]) = "OK"}

FileListExecSourceFile(record, heap) ==
    LET fields == record.result
        given == TextsOf(fields, FileStrings \cup {"line", "macro-info"})
        copied == Copied(given, FileStrings)
    IN CASE record.class # "DONE" \/ fields = << >> -> Fault("ASSERT", heap)
         [] FirstStop(fields) # {} ->
                Fault(MacroStops(fields[CHOOSE i \in FirstStop(fields) : TRUE]),
                      heap)
         [] ~(Has(given, "line") /\ Has(given, "file")) ->
                Fault("ASSERT", heap)
         [] OTHER -> Made([kind |-> "FILE_LIST_EXEC_SOURCE_FILE",
                           line |-> ValueOf(given["line"]),
                           copied |-> copied,
                           macro_info_exists |-> Has(given, "macro-info"),
                           macro_info |-> Is(given, "macro-info", "1")],
                          1 + Cardinality(DOMAIN copied), heap, "NOMEM")

-----------------------------------------------------------------------------
(* -file-list-exec-source-files.                                           *)

\* What the loop over the fields of a file, and the assertion that it has a
\* name, make of it.
CheckFile(r) ==
    IF r.kind # "TUPLE" THEN "ASSERT"
    ELSE LET stops == SelectSeq(r.result, LAMBDA f :
                        f.kind # "CSTRING" \/ f.variable = NoVariable)
         IN CASE stops # << >> ->
                    IF stops[1].kind # "CSTRING" THEN "ASSERT"
                                                 ELSE "UNDEFINED"
              [] ~Has(TextsOf(r.result, {"file"}), "file") -> "ASSERT"
              [] OTHER -> "OK"

File(copied, given) ==
    [copied |-> copied,
     debug_fully_read |->
        CASE Is(given, "debug-fully-read", "true") -> "TRUE"
          [] Is(given, "debug-fully-read", "false") -> "FALSE"
          [] OTHER -> "UNKNOWN"]

\* A file is in the list before it is checked that its strings were copied.
AddFile(acc, given) ==
    LET made == Allocated(acc.heap, 1)
        names == FileStrings \cap DOMAIN given
        copied == Copied(given,
                    CASE ~Fails(made, Cardinality(names)) -> names
                      [] made.left = 1 -> names \ {"file"}
                      [] OTHER -> {"file"})
    IN IF Fails(acc.heap, 1) THEN [acc EXCEPT !.result = "ASSERT", !.heap = made]
       ELSE [result |-> IF DOMAIN copied = names THEN "OK" ELSE "ASSERT",
             files |-> Append(acc.files, File(copied, given)),
             heap |-> Allocated(made, Cardinality(names))]

\* One iteration of the loop over the files.
ReadFile(acc, r) ==
    IF acc.result # "OK" THEN acc
    ELSE IF CheckFile(r) # "OK" THEN [acc EXCEPT !.result = CheckFile(r)]
    ELSE AddFile(acc, TextsOf(r.result, FileStrings \cup {"debug-fully-read"}))

SourceFilesFree(files, heap) ==
    FoldLeft(LAMBDA h, f : Freed(h, 1 + Cardinality(DOMAIN f.copied)),
             heap, files)

FileListExecSourceFiles(record, heap) ==
    LET check == CheckOnly(record, "LIST", "files")
        read == FoldLeft(ReadFile,
                    [result |-> "OK", files |-> << >>, heap |-> heap],
                    record.result[1].result)
    IN CASE check # "OK" -> Fault(check, heap)
         [] check = "OK" /\ (read.result # "OK" \/ Fails(read.heap, 1)) ->
                Fault(IF read.result = "OK" THEN "ASSERT" ELSE read.result,
                      SourceFilesFree(read.files, read.heap))
         [] OTHER -> Made([kind |-> "FILE_LIST_EXEC_SOURCE_FILES",
                           files |-> read.files],
                          1, read.heap, "ASSERT")

-----------------------------------------------------------------------------
CommandKinds == {"BREAK_INFO", "STACK_INFO_FRAME",
                 "FILE_LIST_EXEC_SOURCE_FILE", "FILE_LIST_EXEC_SOURCE_FILES"}

GetMiCommand(kind, record, heap) ==
    CASE kind = "BREAK_INFO" -> BreakInfo(record, heap)
      [] kind = "STACK_INFO_FRAME" -> StackInfoFrame(record, heap)
      [] kind = "FILE_LIST_EXEC_SOURCE_FILE" ->
            FileListExecSourceFile(record, heap)
      [] kind = "FILE_LIST_EXEC_SOURCE_FILES" ->
            FileListExecSourceFiles(record, heap)

\* gdbwire_mi_command_free of what GetMiCommand returned, which may be NULL.
CommandFree(out, heap) ==
    FoldLeft(LAMBDA h, c :
        CASE c.kind = "BREAK_INFO" ->
                Freed(BreakpointsFree(c.breakpoints, h), 1)
          [] c.kind = "STACK_INFO_FRAME" ->
                Freed(h, 2 + Cardinality(DOMAIN c.copied))
          [] c.kind = "FILE_LIST_EXEC_SOURCE_FILE" ->
                Freed(h, 1 + Cardinality(DOMAIN c.copied))
          [] c.kind = "FILE_LIST_EXEC_SOURCE_FILES" ->
                Freed(SourceFilesFree(c.files, h), 1),
        heap, out)
=============================================================================
