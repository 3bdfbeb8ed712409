--------------------------- MODULE MiCommandCalls ---------------------------
(***************************************************************************)
(* A caller of gdbwire_get_mi_command: it asks for a command with a result *)
(* record, while one allocation may fail, and frees what it was given.     *)
(***************************************************************************)
EXTENDS MiCommand

CONSTANTS
    Questions,  \* what is asked for: the kind of a command and a record
    MaxFault    \* bound: the allocation that fails is one of the first

ASSUME QuestionsAssumption == \A q \in Questions : q.kind \in CommandKinds

VARIABLES
    asked,   \* the question, once it is asked
    fault,   \* the allocation that fails, or 0
    answer,  \* what gdbwire_get_mi_command returned
    freed    \* the caller has freed it

askVars == <<asked, fault, answer, freed>>

AskInit ==
    /\ asked = [kind |-> "none"] /\ fault = 0
    /\ answer = Fault("ASSERT", Heap(0))
    /\ freed = FALSE

\* One call is like the next: each starts from nothing.
Ask ==
    /\ asked.kind = "none"
    /\ \E q \in Questions, n \in 0..MaxFault :
          /\ asked' = q /\ fault' = n
          /\ answer' = GetMiCommand(q.kind, q.record, Heap(n))
    /\ UNCHANGED freed

\* The caller frees the command, if there is one.
FreeAnswer ==
    /\ asked.kind # "none" /\ ~freed
    /\ answer.result # "UNDEFINED"
    /\ freed' = TRUE
    /\ answer' = [answer EXCEPT !.heap = CommandFree(answer.out, answer.heap)]
    /\ UNCHANGED <<asked, fault>>

AskNext == Ask \/ FreeAnswer

AskSpec == AskInit /\ [][AskNext]_askVars

-----------------------------------------------------------------------------
\* "GDBWIRE_OK on success, otherwise failure and out is NULL": no command is
\* returned with an error, and no success without a command, also when the
\* error comes late or for want of memory.
OutIffOK == answer.result = "OK" <=> answer.out # NoObject

\* Every allocation is freed, and none twice: by the functions themselves when
\* they fail, or with the command.  Only the locations of a breakpoint, and what
\* came with an error among them, can be lost.
FreesAll ==
    freed /\ answer.heap.live # 0 =>
        /\ answer.heap.live > 0
        /\ answer.out = NoObject /\ asked.kind = "BREAK_INFO"
        /\ \E r \in Range(Last(asked.record.result[1].result).result) :
              "locations" \in {f.variable : f \in Range(r.result)}
=============================================================================
