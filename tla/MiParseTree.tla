----------------------------- MODULE MiParseTree -----------------------------
(***************************************************************************)
(* The push parser with the parse tree it builds: what the semantic        *)
(* actions of gdbwire_mi_grammar.y allocate, move and free, what error     *)
(* recovery destroys, how parse_line hands an output over and how the      *)
(* callback of gdbwire.c gives it to the client and frees it.              *)
(*                                                                         *)
(* Every step is a step of MiPushParser with its effect on the heap: the   *)
(* values of the symbols on the stack are pointers here, and the output of *)
(* MiPushParser is what a pointer points to.                               *)
(***************************************************************************)
EXTENDS MiPushParser, MiTree

CONSTANTS
    Callbacks,  \* the members of gdbwire_callbacks the client has set
    Faults,     \* which allocation fails: a set to choose from, 0 for none
    MaxCalls    \* bound: the callbacks that run at a time

ASSUME CallbacksAssumption == Callbacks \subseteq STRING
ASSUME FaultsAssumption == Faults \subseteq Nat
ASSUME MaxCallsAssumption == MaxCalls \in Nat \ {0}

VARIABLES
    values,     \* yyvs: the semantic value of each symbol on the stack
    heap,       \* what is allocated, see MiTree
    out,        \* *gdbwire_mi_output of the current call of parse_line
    fed,        \* history: the lexemes since the parser was last in sync,
                \* up to the one in error
    pending,    \* the outputs whose callback runs, the outermost first
    lost,       \* history: the outputs parse_line has not delivered
    inLine      \* parse_line is at work, not the client

treeVars == <<values, heap, out, fed, pending, lost, inLine>>

vars == <<pushVars, treeVars>>

\* %type: a value that is no pointer is an enum, or is not used.
ResultClasses == {"done", "running", "connected", "error", "exit"}

AsyncClasses ==
    {"download", "stopped", "running", "thread-group-added",
     "thread-group-removed", "thread-group-started", "thread-group-exited",
     "thread-created", "thread-exited", "thread-selected", "library-loaded",
     "library-unloaded", "traceframe-changed", "tsv-created", "tsv-modified",
     "tsv-deleted", "breakpoint-created", "breakpoint-modified",
     "breakpoint-deleted", "record-started", "record-stopped",
     "cmd-param-changed", "memory-changed"}

\* Mutant: the classes of asynchronous records are looked for in the wrong
\* table.
ClassOfResult(lhs, text) ==
    IF text \in ResultClasses THEN text ELSE "UNSUPPORTED"

ClassOf(lhs, text) ==
    LET known == IF lhs = "result_class" THEN ResultClasses ELSE AsyncClasses
    IN IF text \in known THEN text ELSE "UNSUPPORTED"

KindOfOp(op) ==
    CASE op = "MULT_OP" -> "EXEC"
      [] op = "ADD_OP" -> "STATUS"
      [] op = "EQUAL_SIGN" -> "NOTIFY"
      [] op = "TILDA" -> "CONSOLE"
      [] op = "AT_SYMBOL" -> "TARGET"
      [] op = "AMPERSAND" -> "LOG"

KindOfValue(symbol) ==
    CASE symbol = "cstring" -> "CSTRING"
      [] symbol = "tuple" -> "TUPLE"
      [] symbol = "list" -> "LIST"

-----------------------------------------------------------------------------
(* The semantic actions: $$ and the heap, from the values v of the rule's  *)
(* right-hand side, the heap h and the lexer's text.                       *)

Unchanged(value, h) == [at |-> value, heap |-> h]

\* $$ = list->head; free(list).
TakeHead(h, list) ==
    [at |-> h.objects[list].head, heap |-> Free(h, list)]

\* A record and, when the rule has one, the list that becomes its result.
Record(h, v, o) ==
    IF Len(v) < 5 THEN Struct(h, o)
    ELSE LET made == Struct(h, [o EXCEPT !.result = h.objects[v[5]].head])
         IN [made EXCEPT !.heap = Free(@, v[5])]

OutputVariant(r, v, h) ==
    LET made == Struct(h, Output(KindOf(r), IF Len(v) = 1 THEN v[1] ELSE NULL,
                                 NULL))
    IN IF Len(v) = 1 THEN made ELSE [made EXCEPT !.heap = Free(@, v[2])]

ResultListOf(v, h) ==
    IF Len(v) = 1
    THEN LET made == ResultListAlloc(h)
         IN Unchanged(made.at,
                      IF made.heap.crashed THEN made.heap
                      ELSE PushBack(made.heap, made.at, v[1]))
    ELSE Unchanged(v[1], PushBack(h, v[1], v[3]))

\* gdbwire_mi_unescape_cstring writes into its copy without looking.
Action(r, v, h, text) ==
    CASE r.lhs = "output_variant" -> OutputVariant(r, v, h)
      [] r.lhs = "result_record" ->
            Record(h, v, ResultRecord(v[1], v[3], NULL))
      [] r.lhs = "oob_record" ->
            Struct(h, OobRecord(IF r.rhs[1] = "async_record" THEN "ASYNC"
                                ELSE "STREAM", v[1]))
      [] r.lhs = "async_record" ->
            Record(h, v, AsyncRecord(v[1], v[2], v[3], NULL))
      [] r.lhs = "stream_record" -> Struct(h, StreamRecord(v[1], v[2]))
      [] r.lhs \in {"async_record_class", "stream_record_class"} ->
            Unchanged(KindOfOp(r.rhs[1]), h)
      [] r.lhs \in {"result_class", "async_class"} ->
            Unchanged(ClassOf(r.lhs, text), h)
      [] r.lhs \in {"opt_variable", "opt_token"} ->
            Unchanged(IF v = << >> THEN NULL ELSE v[1], h)
      [] r.lhs = "result_list" -> ResultListOf(v, h)
      [] r.lhs = "result" ->
            Struct(h, Result(v[1], KindOfValue(r.rhs[2]), v[2]))
      [] r.lhs \in {"variable", "token"} -> Malloc(h, Text(text))
      [] r.lhs = "cstring" -> Struct(h, Text(text))
      [] r.lhs \in {"tuple", "list"} ->
            IF Len(v) = 2 THEN Unchanged(NULL, h) ELSE TakeHead(h, v[2])
      [] OTHER -> Unchanged(NULL, h)

\* strcmp("gdb", $2) of the prompt's mid-rule action.
Compared(r, h) ==
    IF ChecksPrompt(r) /\ Top(values) = NULL THEN [h EXCEPT !.crashed = TRUE]
    ELSE h

-----------------------------------------------------------------------------
(* Errors.                                                                 *)

\* gdbwire_mi_error.
Report(h) ==
    LET made == Struct(h, Output("PARSE_ERROR", NULL, lexed.pos))
        token == Malloc(made.heap, Text(lexed.text))
    IN IF made.heap.crashed THEN made
       ELSE Unchanged(made.at,
                [token.heap EXCEPT !.objects[made.at].variant = token.at])

\* The %destructor of a symbol is the free function of a type.
Destructor(symbol) ==
    CASE symbol = "output_variant" -> "output"
      [] symbol \in {"result_list", "result"} -> symbol
      [] OTHER -> "text"

\* yydestruct for each of the symbols above the first n of the stack.
Destroyed(h, n) ==
    LET popped == {i \in (n + 1)..Len(stack) : stack[i] \in Destructors}
    IN FreeAll(h, UNION {Call(Destructor(stack[i]), values[i], <<i, "stack">>) :
                            i \in popped})

Recovered(h) == Destroyed(h, RecoveryPoint(stack))

RecoversValues ==
    values' = Append(SubSeq(values, 1, RecoveryPoint(stack)), NULL)

-----------------------------------------------------------------------------
Init ==
    /\ PushInit
    /\ values = <<NULL>>
    /\ heap \in {EmptyHeap(fault) : fault \in Faults}
    /\ out = NULL /\ fed = << >> /\ pending = << >> /\ lost = {}
    /\ inLine = FALSE

\* The client, or one of its callbacks, has pushed a line.
ParseLine ==
    /\ ~inLine
    /\ inLine' = TRUE
    /\ BeginLine
    /\ out' = NULL
    /\ fed' = IF Resynced THEN << >> ELSE fed
    /\ UNCHANGED <<values, heap, pending, lost>>

\* The lexer returns the line's next token.  What follows a token in error is
\* dropped, up to the newline.
Token(x, p) ==
    /\ inLine
    /\ GiveToken(x, p)
    /\ fed' = IF errstatus = 0 THEN Append(fed, x) ELSE fed
    /\ UNCHANGED <<values, heap, out, pending, lost, inLine>>

ShiftToken ==
    /\ Shift
    /\ values' = Append(values, NULL)
    /\ UNCHANGED <<heap, out, fed, pending, lost, inLine>>

\* The semantic action of the rule r; that of a line's end hands $1 over.
ReduceBy(r) ==
    /\ Reduce(r)
    /\ LET n == Len(values) - Len(r.rhs)
           v == SubSeq(values, n + 1, Len(values))
           done == Action(r, v, Compared(r, heap), lexed.text)
       IN /\ values' = Append(SubSeq(values, 1, n), done.at)
          /\ heap' = done.heap
          /\ out' = IF r.rhs = <<"output_variant", "NEWLINE">> THEN v[1]
                    ELSE out
    /\ UNCHANGED <<fed, pending, lost, inLine>>

\* yyerror, and the destructors of what is popped.
ReportError ==
    LET reported == Report(heap)
    IN /\ out' = reported.at
       /\ heap' = Recovered(reported.heap)
       /\ RecoversValues

RejectName(r) ==
    /\ RejectPrompt(r)
    /\ IF Top(values) = NULL
       THEN heap' = Compared(r, heap) /\ UNCHANGED <<values, out>>
       ELSE ReportError
    /\ UNCHANGED <<fed, pending, lost, inLine>>

ReportOrDrop ==
    /\ SyntaxError
    /\ IF errstatus = 0 THEN ReportError
       ELSE heap' = Recovered(heap) /\ RecoversValues /\ UNCHANGED out
    /\ UNCHANGED <<fed, pending, lost, inLine>>

PushReturns ==
    /\ NeedToken
    /\ UNCHANGED treeVars

ExhaustStack ==
    /\ Exhausted
    /\ LET reported == Report(heap)
       IN out' = reported.at /\ heap' = Destroyed(reported.heap, 1)
    /\ values' = <<NULL>>
    /\ UNCHANGED <<fed, pending, lost, inLine>>

\* The kind of record an output leads to, and the callback it is meant for.
KindAt(h, p) ==
    LET o == h.objects[p]
    IN IF o.kind = "OOB" THEN h.objects[o.variant].kind ELSE o.kind

\* Mutant: a case that falls through.
DispatchFallsThrough(kind) ==
    CASE kind \in {"ASYNC", "STREAM"} -> "gdbwire_stream_record_fn"
      [] kind = "RESULT" -> "gdbwire_result_record_fn"
      [] kind = "PROMPT" -> "gdbwire_prompt_fn"
      [] kind = "PARSE_ERROR" -> "gdbwire_parse_error_fn"

\* The switches of gdbwire_mi_output_callback.
Dispatch(kind) ==
    CASE kind = "ASYNC" -> "gdbwire_async_record_fn"
      [] kind = "STREAM" -> "gdbwire_stream_record_fn"
      [] kind = "RESULT" -> "gdbwire_result_record_fn"
      [] kind = "PROMPT" -> "gdbwire_prompt_fn"
      [] kind = "PARSE_ERROR" -> "gdbwire_parse_error_fn"

\* The line is over: parse_line copies it into the output, and the output goes
\* to the callback for its record; with none set, it is freed at once.
Deliver ==
    /\ inLine
    /\ status = "MORE" /\ out # NULL
    /\ LET line == Malloc(heap, Text("line"))
           given == [line.heap EXCEPT !.objects[out].line = line.at]
           fn == Dispatch(KindAt(heap, out))
       IN IF fn \in Callbacks
          THEN /\ Len(pending) < MaxCalls
               /\ heap' = given
               /\ pending' = Append(pending,
                                   [out |-> out, fn |-> fn, fed |-> fed])
          ELSE /\ heap' = FreeAll(given, Call("output", out, <<0, "out">>))
               /\ UNCHANGED pending
    /\ out' = NULL
    /\ inLine' = FALSE
    /\ UNCHANGED <<pushVars, values, fed, lost>>

\* One of parse_line's assertions fails; its local output goes with it.
FailLine ==
    /\ inLine
    /\ status \in {"UNINIT", "NOMEM"} \/ (status = "MORE" /\ out = NULL)
    /\ lost' = lost \cup ({out} \ {NULL})
    /\ out' = NULL
    /\ inLine' = FALSE
    /\ UNCHANGED <<pushVars, values, heap, fed, pending>>

\* The innermost callback returns, and its output is freed.
CallbackReturns ==
    /\ ~inLine
    /\ pending # << >>
    /\ LET call == Call("output", Top(pending).out, <<Len(pending), "pending">>)
       IN heap' = FreeAll(heap, call)
    /\ pending' = Pop(pending, 1)
    /\ UNCHANGED <<pushVars, values, out, fed, lost, inLine>>

ParseStep ==
    \/ ShiftToken
    \/ \E r \in Rules : ReduceBy(r) \/ RejectName(r)
    \/ ReportOrDrop
    \/ PushReturns
    \/ ExhaustStack

\* A program that has dereferenced NULL does nothing more.
Next ==
    /\ ~heap.crashed
    /\ \/ ParseLine
       \/ \E x \in Lexemes, p \in Positions : Token(x, p)
       \/ inLine /\ ParseStep
       \/ Deliver \/ FailLine \/ CallbackReturns

Spec == Init /\ [][Next]_vars

-----------------------------------------------------------------------------
(* What the parse tree promises.                                           *)

\* Where the program's pointers are: on the parser's stack, in the frames of
\* parse_line and of its callbacks, and what was lost with such a frame.
Roots ==
    {Pointer(values[i], <<i, "stack">>) :
        i \in {j \in 1..Len(stack) : stack[j] \in Owning}} \cup
    {Pointer(out, <<0, "out">>)} \cup
    {Pointer(pending[i].out, <<i, "pending">>) : i \in 1..Len(pending)} \cup
    {Pointer(p, <<p, "lost">>) : p \in lost}

\* Every pointer there is.
Pointers ==
    Roots \cup UNION {Refs(p, heap.objects[p]) : p \in DOMAIN heap.objects}

\* Whatever the line and wherever it goes wrong, everything on the heap is
\* owned once: nothing leaks, nothing is freed twice or used after its free,
\* and the %destructors and the moves of the semantic actions never own the
\* same thing, between any two steps of the parser and of nested callbacks.
OneOwner ==
    \/ heap.crashed
    \/ /\ ~heap.undefined
       /\ LET owning == {p \in Pointers : p.at # NULL}
          IN /\ {p.at : p \in owning} = DOMAIN heap.objects
             /\ \A p, q \in owning : p.at = q.at => p = q

\* Between two lines that the parser has seen the end of, with no callback at
\* work, nothing is allocated: whatever the lines before were, all that was
\* built for them has been freed, but for what parse_line failed to deliver.
AllIsFreed ==
    ~heap.crashed /\ ~inLine /\ Resynced /\ pending = << >> /\ lost = {} =>
        DOMAIN heap.objects = {}

\* The output at p is of the kind that o says; a parse error has the position
\* and the text of its token, but for a copy that there was no memory for.
Says(objects, p, o) ==
    /\ objects[p].kind = o.kind
    /\ o.kind = "PARSE_ERROR" =>
          /\ objects[p].pos = o.pos
          /\ objects[p].variant # NULL =>
                objects[objects[p].variant].text = o.token

\* The output of the line is there when the push parser says so, and is what it
\* says: the record that was reduced before the newline, or the first error and
\* its token, whatever was popped, destroyed or pushed by callbacks since.
OutputsAgree ==
    inLine /\ ~heap.crashed =>
        /\ output = NoOutput <=> out = NULL
        /\ out # NULL => Says(heap.objects, out, output)

\* Some objects that are reached from the outputs of callbacks that run, now
\* and after the step.
InCallbacks(K) ==
    \A p \in K : \/ \E i \in DOMAIN pending \cap DOMAIN pending' : p = pending[i].out
                 \/ \E q \in K : \E ref \in Refs(q, heap.objects[q]) : ref.at = p

\* Whatever a callback does, the lines that it pushes and the callbacks that
\* they lead to leave the output that it was given alone, and all that it owns.
TreesAreLeftAlone ==
    [][~heap'.crashed =>
          \A K \in SUBSET DOMAIN heap.objects :
             InCallbacks(K) => \A p \in K : /\ p \in DOMAIN heap'.objects
                                            /\ heap'.objects[p] = heap.objects[p]]_vars
=============================================================================
