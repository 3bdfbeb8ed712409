------------------------------- MODULE Gdbwire -------------------------------
(***************************************************************************)
(* gdbwire_interpreter_exec of gdbwire.c: a front end that has the output  *)
(* of a single interpreter-exec command is given the command it stands     *)
(* for.  The function makes a gdbwire of its own, pushes the text, and     *)
(* gathers what the callbacks are told, one output for each line, in a     *)
(* context that it looks at when the push is over.                         *)
(*                                                                         *)
(* The parser is what MiLineProtocol says of it, one output for each line, *)
(* in order, and a push that may fail between any two of them.  A text is  *)
(* the sequence of its outputs: result records, and the other callbacks.   *)
(***************************************************************************)
EXTENDS Naturals, Sequences

CONSTANTS
    Kinds,        \* the kinds of commands
    Records,      \* the result records
    Texts,        \* the texts the front end has
    Makes(_, _),  \* what gdbwire_get_mi_command can do with a kind and a
                  \* record: a set of [result, made]
    MaxCommands   \* bound: the commands made in the front end's life

\* The callbacks that are not gdbwire_interpreter_exec_result_record.
Unexpected == {"stream_record", "async_record", "prompt", "parse_error"}

Results == {"OK", "ASSERT", "LOGIC", "NOMEM"}

ASSUME RecordsAssumption == Records \cap Unexpected = {}
ASSUME TextsAssumption == Texts \subseteq Seq(Records \cup Unexpected)

\* gdbwire_get_mi_command makes a command exactly when it returns GDBWIRE_OK.
ASSUME MakesAssumption ==
    \A k \in Kinds, r \in Records : \A m \in Makes(k, r) :
        /\ m.result \in Results
        /\ m.made <=> m.result = "OK"

ASSUME MaxCommandsAssumption == MaxCommands \in Nat

NULL == 0

VARIABLES
    pc,          \* idle, or in the push
    kind,        \* context.kind
    result,      \* context.result
    mi_command,  \* context.mi_command, a command's number
    unread,      \* the outputs of the text the parser has not come to
    heard,       \* history: those the callbacks were told of
    push,        \* what gdbwire_push_data returned
    returned,    \* the result of the last call and its *out_mi_command
    made,        \* how many commands have been allocated
    live,        \* those that are not freed
    held,        \* those that the front end has
    lost         \* history: those that nobody had when the last call began

vars == <<pc, kind, result, mi_command, unread, heard, push, returned, made,
          live, held, lost>>

Init ==
    /\ pc = "idle" /\ kind \in Kinds
    /\ result = "OK" /\ mi_command = NULL
    /\ unread = << >> /\ heard = << >>
    /\ push = "OK" /\ returned = [result |-> "LOGIC", out |-> NULL]
    /\ made = 0 /\ live = {} /\ held = {} /\ lost = {}

\* The front end calls gdbwire_interpreter_exec, its pointer set to NULL.
Call(k, text) ==
    /\ pc = "idle"
    /\ made + Len(text) <= MaxCommands
    /\ kind' = k /\ result' = "OK" /\ mi_command' = NULL
    /\ unread' = text /\ heard' = << >>
    /\ lost' = live \ held
    /\ \/ pc' = "push" /\ UNCHANGED <<push, returned>>
       \* There is no memory for a gdbwire.
       \/ /\ pc' = "idle"
          /\ push' = "ASSERT"
          /\ returned' = [result |-> "ASSERT", out |-> NULL]
    /\ UNCHANGED <<made, live, held>>

\* The parser comes to the next output and calls back.
Hears ==
    /\ pc = "push"
    /\ unread # << >>
    /\ unread' = Tail(unread)
    /\ heard' = Append(heard, Head(unread))

UnexpectedRecord ==
    /\ Hears
    /\ Head(unread) \in Unexpected
    /\ result' = "LOGIC"
    /\ UNCHANGED <<pc, kind, mi_command, push, returned, made, live, held,
                   lost>>

\* gdbwire_get_mi_command sets the pointer it is given to NULL, or to a new
\* command.
GetCommand(record) ==
    \E m \in Makes(kind, record) :
        /\ result' = m.result
        /\ IF m.made
           THEN /\ made' = made + 1
                /\ mi_command' = made + 1
                /\ live' = live \cup {made + 1}
           ELSE mi_command' = NULL /\ UNCHANGED <<made, live>>

\* Mutant: a result record makes good for what came before it.
ResultAnyway ==
    /\ Hears
    /\ Head(unread) \in Records
    /\ GetCommand(Head(unread))
    /\ UNCHANGED <<pc, kind, push, returned, held, lost>>

\* A result record is looked at if nothing was wrong with the text so far.
ResultOfRecord ==
    /\ Hears
    /\ Head(unread) \in Records
    /\ IF result = "OK" THEN GetCommand(Head(unread))
       ELSE UNCHANGED <<result, mi_command, made, live>>
    /\ UNCHANGED <<pc, kind, push, returned, held, lost>>

Return(r, out) ==
    /\ pc' = "idle"
    /\ returned' = [result |-> r, out |-> out]
    /\ held' = held \cup ({out} \ {NULL})
    /\ UNCHANGED <<kind, result, mi_command, unread, heard, made, lost>>

\* gdbwire_push_data fails, after any output.
PushFails ==
    /\ pc = "push"
    /\ push' = "ASSERT"
    /\ Return("ASSERT", NULL)
    /\ UNCHANGED live

\* Mutant: the command that came with an error is not freed.
KeepsCommand ==
    /\ pc = "push"
    /\ unread = << >>
    /\ push' = "OK"
    /\ IF result = "OK" /\ mi_command = NULL
       THEN Return("LOGIC", NULL)
       ELSE Return(result, IF result = "OK" THEN mi_command ELSE NULL)
    /\ UNCHANGED live

\* Mutant: a command is returned whatever else the text had in it.
ReturnsAnyway ==
    /\ pc = "push"
    /\ unread = << >>
    /\ push' = "OK"
    /\ IF result = "OK" /\ mi_command = NULL
       THEN Return("LOGIC", NULL)
       ELSE Return(result, mi_command)
    /\ UNCHANGED live

\* Mutant: the command that came with an error is freed and returned.
ReturnsFreed ==
    /\ pc = "push"
    /\ unread = << >>
    /\ push' = "OK"
    /\ IF result = "OK" /\ mi_command = NULL
       THEN Return("LOGIC", NULL) /\ UNCHANGED live
       ELSE /\ Return(result, mi_command)
            /\ live' = IF result = "OK" THEN live ELSE live \ {mi_command}

\* gdbwire_push_data is done with the text: "when it returns GDBWIRE_OK, the
\* command will exist; otherwise it will not".
PushSucceeds ==
    /\ pc = "push"
    /\ unread = << >>
    /\ push' = "OK"
    /\ IF result = "OK" /\ mi_command = NULL
       THEN Return("LOGIC", NULL) /\ UNCHANGED live
       ELSE IF result # "OK" /\ mi_command # NULL
       THEN Return(result, NULL) /\ live' = live \ {mi_command}
       ELSE Return(result, mi_command) /\ UNCHANGED live

\* The front end frees a command it has, with gdbwire_mi_command_free.
Free(c) ==
    /\ pc = "idle"
    /\ c \in held
    /\ held' = held \ {c}
    /\ live' = live \ {c}
    /\ UNCHANGED <<pc, kind, result, mi_command, unread, heard, push, returned,
                   made, lost>>

Next ==
    \/ \E k \in Kinds, text \in Texts : Call(k, text)
    \/ UnexpectedRecord \/ ResultOfRecord
    \/ PushFails \/ PushSucceeds
    \/ \E c \in held : Free(c)

Spec == Init /\ [][Next]_vars

-----------------------------------------------------------------------------
TypeOK ==
    /\ pc \in {"idle", "push"} /\ kind \in Kinds
    /\ result \in Results
    /\ mi_command \in 0..MaxCommands
    /\ {unread, heard} \subseteq Seq(Records \cup Unexpected)
    /\ push \in {"OK", "ASSERT"}
    /\ returned \in [result : Results, out : 0..MaxCommands]
    /\ made \in 0..MaxCommands
    /\ live \subseteq 1..made

\* GDBWIRE_OK is returned exactly with a command.
CommandIffOK == returned.result = "OK" <=> returned.out # NULL

\* A command is made of a text of result records only: one line of anything
\* else, before the record or after it, spoils the text.
OnlyResultRecords ==
    pc = "idle" /\ returned.result = "OK" =>
        /\ heard # << >> /\ unread = << >>
        /\ \A i \in 1..Len(heard) : heard[i] \in Records

\* The front end never has a command that is freed.
NothingDangles == held \subseteq live

TwoRecords ==
    \E i, j \in 1..Len(heard) :
        i < j /\ heard[i] \in Records /\ heard[j] \in Records

HeardRecord == \E i \in 1..Len(heard) : heard[i] \in Records

\* A call loses a command only if the push failed after it was made, or if a
\* second result record took its place.
LosesOnlyThen ==
    pc = "idle" /\ live # held \cup lost =>
        TwoRecords \/ (push = "ASSERT" /\ HeardRecord)

-----------------------------------------------------------------------------
(* The inductive invariant behind them.                                    *)

\* In the push: the context has a command of its own exactly when there was
\* something to hear and nothing was wrong with it.
ContextInv ==
    pc = "push" =>
        /\ made + Len(unread) <= MaxCommands
        /\ mi_command # NULL =>
                mi_command \in live \ (held \cup lost) /\ HeardRecord
        /\ result = "OK" =>
              /\ mi_command # NULL <=> heard # << >>
              /\ \A i \in 1..Len(heard) : heard[i] \in Records
        /\ live \subseteq held \cup lost \cup {mi_command} \/ TwoRecords

ExecInv ==
    /\ TypeOK
    /\ held \cup lost \subseteq live /\ held \cap lost = {}
    /\ ContextInv
    /\ CommandIffOK /\ OnlyResultRecords /\ LosesOnlyThen
=============================================================================
