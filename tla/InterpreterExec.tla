--------------------------- MODULE InterpreterExec ---------------------------
(***************************************************************************)
(* gdbwire_interpreter_exec over the parser it makes for itself: one call, *)
(* from the allocations of gdbwire_create through the push of the text,    *)
(* with its lines, tokens and callbacks, to gdbwire_destroy.               *)
(*                                                                         *)
(* Gdbwire is what this promises, with the parser left out.                *)
(***************************************************************************)
EXTENDS MiParser, FiniteSets, SequencesExt

CONSTANTS
    Texts,         \* the texts the front end may have
    AskedKinds,    \* the kinds of commands it may ask for
    RecordOf(_),   \* the result record a line is, when it is one
    Makes(_, _)    \* what gdbwire_get_mi_command can do with a kind and a
                   \* record: a set of [result, made]

ASSUME TextsAssumption == Texts \subseteq Seq(Input \ {"NUL"})

VARIABLES
    text, kind,  \* the arguments
    at,          \* where gdbwire_interpreter_exec is
    objects,     \* what gdbwire_create has made that is not freed
    result,      \* context.result
    mi_command,  \* context.mi_command, a command's number
    returned,    \* the result, and *out_mi_command if it was set
    made,        \* how many commands have been allocated
    live         \* those that are not freed

execVars == <<text, kind, at, objects, result, mi_command, returned, made,
              live>>

allVars == <<vars, execVars>>

NULL == 0

ExecInit ==
    /\ Init
    /\ text \in Texts /\ kind \in AskedKinds
    /\ at = "create" /\ objects = {}
    /\ result = "OK" /\ mi_command = NULL
    /\ returned = [result |-> "LOGIC", out |-> NULL]
    /\ made = 0 /\ live = {}

-----------------------------------------------------------------------------
(* gdbwire_create, gdbwire_mi_parser_create and their cleanup.             *)

\* In the order they are made.
Parts == <<"gdbwire", "parser", "buffer", "lexer", "pstate">>

NextPart == Parts[Cardinality(objects) + 1]

\* Mutant: the lexer is forgotten when there is no push parser.
FreesAllButLexer(part) ==
    CASE part = "gdbwire" -> {}
      [] part = "parser" -> {"gdbwire"}
      [] part = "buffer" -> {"gdbwire", "parser"}
      [] OTHER -> {"gdbwire", "parser", "buffer"}

\* What is freed when a part cannot be made.
FreesWithout(part) ==
    CASE part = "gdbwire" -> {}
      [] part = "parser" -> {"gdbwire"}
      [] part = "buffer" -> {"gdbwire", "parser"}
      [] part = "lexer" -> {"gdbwire", "parser", "buffer"}
      [] part = "pstate" -> {"gdbwire", "parser", "buffer", "lexer"}

Create ==
    /\ at = "create"
    /\ objects' = objects \cup {NextPart}
    /\ at' = IF NextPart = "pstate" THEN "ready" ELSE "create"
    /\ UNCHANGED <<vars, text, kind, result, mi_command, returned, made, live>>

\* GDBWIRE_ASSERT(wire).
CreateFails ==
    /\ at = "create"
    /\ faults < MaxFaults
    /\ faults' = faults + 1
    /\ objects' = objects \ FreesWithout(NextPart)
    /\ returned' = [result |-> "ASSERT", out |-> NULL]
    /\ at' = "returned"
    /\ UNCHANGED <<pushVars, buffer, pc, calls, line, unread, column, pushed,
                   consumed, delivered, reply, failed, dropped, text, kind,
                   result, mi_command, made, live>>

-----------------------------------------------------------------------------
(* gdbwire_push_data and the callbacks.                                    *)

PushText ==
    /\ at = "ready"
    /\ PushData(text) \/ PushNotStored
    /\ at' = "push"
    /\ UNCHANGED <<text, kind, objects, result, mi_command, returned, made,
                   live>>

ParserRuns == at = "push" /\ Library /\ UNCHANGED execVars

\* gdbwire_get_mi_command sets the pointer it is given to NULL, or to a new
\* command.
GetCommand(record) ==
    \E m \in Makes(kind, record) :
        /\ result' = m.result
        /\ IF m.made
           THEN /\ made' = made + 1
                /\ mi_command' = made + 1
                /\ live' = live \cup {made + 1}
           ELSE mi_command' = NULL /\ UNCHANGED <<made, live>>

\* Mutant: only a parse error spoils the text.
OnOutputForgives ==
    /\ CallbackReturns
    /\ IF Last(delivered).output.kind # "RESULT"
       THEN /\ result' = IF Last(delivered).output.kind = "PARSE_ERROR"
                         THEN "LOGIC" ELSE result
            /\ UNCHANGED <<mi_command, made, live>>
       ELSE IF result = "OK" THEN GetCommand(RecordOf(Last(delivered).line))
       ELSE UNCHANGED <<result, mi_command, made, live>>
    /\ UNCHANGED <<text, kind, at, objects, returned>>

\* The callback for the line's output.
OnOutput ==
    /\ CallbackReturns
    /\ IF Last(delivered).output.kind # "RESULT"
       THEN result' = "LOGIC" /\ UNCHANGED <<mi_command, made, live>>
       ELSE IF result = "OK" THEN GetCommand(RecordOf(Last(delivered).line))
       ELSE UNCHANGED <<result, mi_command, made, live>>
    /\ UNCHANGED <<text, kind, at, objects, returned>>

-----------------------------------------------------------------------------
(* What is made of it, and gdbwire_destroy.                                *)

Returning(r, out) ==
    /\ returned' = [result |-> r, out |-> out]
    /\ at' = "destroy"
    /\ UNCHANGED <<vars, text, kind, objects, result, mi_command, made>>

PushFailed ==
    /\ at = "push" /\ calls = 0
    /\ failed
    /\ Returning("ASSERT", NULL)
    /\ UNCHANGED live

\* "When it returns GDBWIRE_OK - the command will exist.  Otherwise it will
\* not."
PushSucceeded ==
    /\ at = "push" /\ calls = 0
    /\ ~failed
    /\ IF result = "OK" /\ mi_command = NULL
       THEN Returning("LOGIC", NULL) /\ UNCHANGED live
       ELSE IF result # "OK" /\ mi_command # NULL
       THEN Returning(result, NULL) /\ live' = live \ {mi_command}
       ELSE Returning(result, mi_command) /\ UNCHANGED live

DestroyWire ==
    /\ at = "destroy"
    /\ Destroy
    /\ objects' = {}
    /\ at' = "returned"
    /\ UNCHANGED <<text, kind, result, mi_command, returned, made, live>>

Done == at = "returned" /\ UNCHANGED allVars

ExecStep ==
    \/ Create \/ CreateFails
    \/ PushText \/ ParserRuns \/ OnOutput
    \/ PushFailed \/ PushSucceeded
    \/ DestroyWire

ExecNext == ExecStep \/ Done

ExecSpec == ExecInit /\ [][ExecNext]_allVars

\* It is one call of a sequential program.
FairExecSpec == ExecSpec /\ WF_allVars(ExecStep)

-----------------------------------------------------------------------------
\* Whatever fails, everything that was made to read the text is freed when the
\* call returns, and the parser's stack has nothing on it that dies with it.
NothingOutlives ==
    at = "returned" =>
        objects = {} /\ leaked = {} /\ dropped \cap Owning = {}

\* The command that is returned exists exactly when the result is GDBWIRE_OK.
CommandReturned ==
    /\ returned.result = "OK" <=> returned.out # NULL
    /\ returned.out \in live \cup {NULL}

\* The call returns.
ExecReturns == at = "create" ~> at = "returned"
=============================================================================
