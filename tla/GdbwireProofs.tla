---------------------------- MODULE GdbwireProofs ----------------------------
(***************************************************************************)
(* For all records and texts, whatever gdbwire_get_mi_command makes of a   *)
(* record as long as it keeps its own promise, and wherever a push fails:  *)
(* what the front end of gdbwire_interpreter_exec can rely on.  And that   *)
(* gdbwire_get_mi_command does keep it, for all records.                   *)
(***************************************************************************)
EXTENDS Gdbwire, MiCommandCalls, TLAPS

-----------------------------------------------------------------------------
(* What the callbacks were told.                                           *)

\* The next output adds to what was heard.
LEMMA HeardMore ==
    ASSUME TypeOK, Hears
    PROVE  /\ heard' \in Seq(Records \cup Unexpected)
           /\ heard' # << >>
           /\ unread' \in Seq(Records \cup Unexpected)
           /\ Len(unread) \in Nat /\ Len(unread') = Len(unread) - 1
           /\ Len(unread) > 0
           /\ HeardRecord => HeardRecord'
           /\ TwoRecords => TwoRecords'
           /\ Head(unread) \in Records => HeardRecord'
           /\ Head(unread) \in Records /\ HeardRecord => TwoRecords'
           /\ Head(unread) \in Records
              /\ (\A i \in 1..Len(heard) : heard[i] \in Records) =>
                    \A i \in 1..Len(heard') : heard'[i] \in Records
<1> DEFINE x == Head(unread)
           n == Len(heard)
<1>1. /\ heard \in Seq(Records \cup Unexpected)
      /\ unread \in Seq(Records \cup Unexpected)
      /\ unread # << >>
      /\ x \in Records \cup Unexpected
  BY DEF TypeOK, Hears
<1>2. heard' = Append(heard, x) /\ unread' = Tail(unread)
  BY DEF Hears
<1>3. /\ n \in Nat
      /\ Len(heard') = n + 1
      /\ heard' \in Seq(Records \cup Unexpected)
      /\ heard'[n + 1] = x
      /\ \A i \in 1..n : heard'[i] = heard[i]
  BY <1>1, <1>2
<1>4. /\ unread' \in Seq(Records \cup Unexpected)
      /\ Len(unread) \in Nat /\ Len(unread') = Len(unread) - 1
      /\ Len(unread) > 0
  BY <1>1, <1>2
<1>5. heard' # << >>
  BY <1>3
<1> HIDE DEF x, n
<1>6. HeardRecord => HeardRecord'
  BY <1>3 DEF HeardRecord, n
<1>7. TwoRecords => TwoRecords'
  BY <1>3 DEF TwoRecords, n
<1>8. x \in Records => HeardRecord'
  BY <1>3 DEF HeardRecord
<1>9. x \in Records /\ HeardRecord => TwoRecords'
  <2> SUFFICES ASSUME x \in Records, NEW i \in 1..n, heard[i] \in Records
               PROVE  TwoRecords'
    BY DEF HeardRecord, n
  <2>1. i \in 1..(n + 1) /\ n + 1 \in 1..(n + 1) /\ i < n + 1
    BY <1>3
  <2> QED BY <1>3, <2>1 DEF TwoRecords
<1>10. x \in Records /\ (\A i \in 1..n : heard[i] \in Records) =>
          \A i \in 1..Len(heard') : heard'[i] \in Records
  BY <1>3
<1> QED
  BY <1>3, <1>4, <1>5, <1>6, <1>7, <1>8, <1>9, <1>10 DEF x, n

-----------------------------------------------------------------------------
(* The invariant, action by action.                                        *)

LEMMA InitExec == Init => ExecInv
<1> SUFFICES ASSUME Init PROVE ExecInv
  OBVIOUS
<1>1. TypeOK
  BY MaxCommandsAssumption DEF Init, TypeOK, Results, NULL
<1>2. ContextInv /\ CommandIffOK /\ OnlyResultRecords /\ LosesOnlyThen
  BY DEF Init, ContextInv, CommandIffOK, OnlyResultRecords, LosesOnlyThen,
         NULL
<1> QED BY <1>1, <1>2 DEF Init, ExecInv

\* Nothing is forgotten when a call begins: what nobody has is in lost.
LEMMA CallInv ==
    ASSUME ExecInv, NEW k \in Kinds, NEW text \in Texts, Call(k, text)
    PROVE  ExecInv'
<1> USE DEF ExecInv
<1>1. TypeOK'
  BY TextsAssumption, MaxCommandsAssumption
     DEF TypeOK, Call, Results, NULL
<1>2. (held \cup lost)' \subseteq live' /\ (held \cap lost)' = {}
  BY DEF Call
<1>3. live' = (held \cup lost)'
  BY DEF Call
<1>4. ContextInv'
  BY <1>3 DEF Call, ContextInv, NULL
<1>5. CommandIffOK'
  BY DEF Call, CommandIffOK, NULL
<1>6. OnlyResultRecords'
  BY DEF Call, OnlyResultRecords
<1>7. LosesOnlyThen'
  BY <1>3 DEF LosesOnlyThen
<1> QED BY <1>1, <1>2, <1>4, <1>5, <1>6, <1>7

\* What is not a result record leaves the commands alone.
LEMMA UnexpectedRecordInv == ExecInv /\ UnexpectedRecord => ExecInv'
<1> SUFFICES ASSUME ExecInv, UnexpectedRecord PROVE ExecInv'
  OBVIOUS
<1> USE DEF ExecInv
<1>1. TypeOK /\ Hears
  BY DEF UnexpectedRecord
<1>2. /\ pc = "push" /\ pc' = "push" /\ result' = "LOGIC"
      /\ UNCHANGED <<kind, mi_command, push, returned, made, live, held, lost>>
  BY DEF UnexpectedRecord, Hears
<1>3. TypeOK'
  BY <1>1, <1>2, HeardMore DEF TypeOK, Results
<1>4. ContextInv'
  <2>1. (made + Len(unread) <= MaxCommands)'
    BY <1>1, <1>2, HeardMore, MaxCommandsAssumption DEF ContextInv, TypeOK
  <2>2. mi_command' # NULL =>
            mi_command' \in live' \ (held \cup lost)' /\ HeardRecord'
    BY <1>1, <1>2, HeardMore DEF ContextInv
  <2>3. live' \subseteq (held \cup lost)' \cup {mi_command'} \/ TwoRecords'
    BY <1>1, <1>2, HeardMore DEF ContextInv
  <2> QED BY <1>2, <2>1, <2>2, <2>3 DEF ContextInv
<1>5. CommandIffOK' /\ OnlyResultRecords' /\ LosesOnlyThen'
  BY <1>2 DEF CommandIffOK, OnlyResultRecords, LosesOnlyThen
<1> QED BY <1>2, <1>3, <1>4, <1>5

\* A command that takes the place of another one means two result records.
LEMMA ResultOfRecordInv == ExecInv /\ ResultOfRecord => ExecInv'
<1> SUFFICES ASSUME ExecInv, ResultOfRecord PROVE ExecInv'
  OBVIOUS
<1> USE DEF ExecInv
<1>1. TypeOK /\ Hears /\ Head(unread) \in Records
  BY DEF ResultOfRecord
<1>2. /\ pc = "push" /\ pc' = "push"
      /\ UNCHANGED <<kind, push, returned, held, lost>>
  BY DEF ResultOfRecord, Hears
<1>3. CommandIffOK' /\ OnlyResultRecords' /\ LosesOnlyThen'
  BY <1>2 DEF CommandIffOK, OnlyResultRecords, LosesOnlyThen
<1>4. /\ made \in Nat /\ made < MaxCommands /\ MaxCommands \in Nat
      /\ made + 1 + Len(unread') <= MaxCommands
      /\ Len(unread') \in Nat
  BY <1>1, <1>2, HeardMore, MaxCommandsAssumption DEF ContextInv, TypeOK
<1>5. /\ HeardRecord' /\ heard' # << >>
      /\ mi_command # NULL => TwoRecords'
      /\ TwoRecords => TwoRecords'
  BY <1>1, <1>2, HeardMore DEF ContextInv
<1>6. CASE result # "OK"
  <2>1. UNCHANGED <<result, mi_command, made, live>>
    BY <1>6 DEF ResultOfRecord
  <2>2. TypeOK'
    BY <1>1, <1>2, <2>1, HeardMore DEF TypeOK
  <2>3. ContextInv'
    BY <1>2, <1>4, <1>5, <1>6, <2>1 DEF ContextInv
  <2> QED BY <1>2, <1>3, <2>1, <2>2, <2>3
<1>7. CASE result = "OK"
  <2>1. PICK m \in Makes(kind, Head(unread)) :
            /\ result' = m.result
            /\ IF m.made
               THEN /\ made' = made + 1
                    /\ mi_command' = made + 1
                    /\ live' = live \cup {made + 1}
               ELSE mi_command' = NULL /\ UNCHANGED <<made, live>>
    BY <1>7 DEF ResultOfRecord, GetCommand
  <2>2. m.result \in Results /\ (m.made <=> m.result = "OK")
    BY <1>1, MakesAssumption DEF TypeOK
  <2>3. \A i \in 1..Len(heard') : heard'[i] \in Records
    BY <1>1, <1>2, <1>7, HeardMore DEF ContextInv
  <2>4. CASE m.made
    <3>1. /\ result' = "OK" /\ made' = made + 1 /\ mi_command' = made + 1
          /\ live' = live \cup {made + 1}
      BY <2>1, <2>2, <2>4
    <3>2. made + 1 \notin live /\ made + 1 # NULL
      BY <1>1, <1>4 DEF TypeOK, NULL
    <3>3. TypeOK'
      BY <1>1, <1>2, <1>4, <3>1, HeardMore DEF TypeOK, Results
    <3>4. live' \subseteq (held \cup lost)' \cup {mi_command'} \/ TwoRecords'
      BY <1>1, <1>2, <1>5, <3>1 DEF ContextInv, TypeOK, NULL
    <3>5. ContextInv'
      BY <1>2, <1>4, <1>5, <2>3, <3>1, <3>2, <3>4 DEF ContextInv
    <3> QED BY <1>2, <1>3, <3>1, <3>3, <3>5
  <2>5. CASE ~m.made
    <3>1. /\ result' \in Results \ {"OK"} /\ mi_command' = NULL
          /\ UNCHANGED <<made, live>>
      BY <2>1, <2>2, <2>5
    <3>2. TypeOK'
      BY <1>1, <1>2, <3>1, HeardMore, MaxCommandsAssumption
         DEF TypeOK, NULL
    <3>3. live' \subseteq (held \cup lost)' \cup {mi_command'} \/ TwoRecords'
      BY <1>1, <1>2, <1>5, <3>1 DEF ContextInv
    <3>4. ContextInv'
      BY <1>2, <1>4, <3>1, <3>3 DEF ContextInv
    <3> QED BY <1>2, <1>3, <3>1, <3>2, <3>4
  <2> QED BY <2>4, <2>5
<1> QED BY <1>6, <1>7

\* While the push runs, what nobody has is the context's, or was lost to a
\* second record.
LEMMA Unheld ==
    ASSUME ExecInv, pc = "push"
    PROVE  /\ live \subseteq held \cup lost \cup ({mi_command} \ {NULL})
              \/ TwoRecords
           /\ mi_command # NULL =>
                 mi_command \in live \ (held \cup lost) /\ HeardRecord
BY DEF ExecInv, ContextInv, TypeOK, NULL

\* A push that fails loses what the context has.
LEMMA PushFailsInv == ExecInv /\ PushFails => ExecInv'
<1> SUFFICES ASSUME ExecInv, PushFails PROVE ExecInv'
  OBVIOUS
<1> USE DEF ExecInv
<1>1. /\ pc = "push" /\ pc' = "idle" /\ push' = "ASSERT"
      /\ returned' = [result |-> "ASSERT", out |-> NULL]
      /\ held' = held
      /\ UNCHANGED <<kind, result, mi_command, unread, heard, made, lost, live>>
  BY DEF PushFails, Return, NULL
<1>2. TypeOK'
  BY <1>1, MaxCommandsAssumption DEF TypeOK, Results, NULL
<1>3. ContextInv' /\ CommandIffOK' /\ OnlyResultRecords'
  BY <1>1 DEF ContextInv, CommandIffOK, OnlyResultRecords, NULL
<1>4. (TwoRecords <=> TwoRecords') /\ (HeardRecord <=> HeardRecord')
  BY <1>1 DEF TwoRecords, HeardRecord
<1>5. LosesOnlyThen'
  BY <1>1, <1>4, Unheld DEF LosesOnlyThen
<1> QED BY <1>1, <1>2, <1>3, <1>5

\* A push that succeeds hands over or frees what the context has.
LEMMA PushSucceedsInv == ExecInv /\ PushSucceeds => ExecInv'
<1> SUFFICES ASSUME ExecInv, PushSucceeds PROVE ExecInv'
  OBVIOUS
<1> USE DEF ExecInv
<1>1. /\ pc = "push" /\ pc' = "idle" /\ push' = "OK" /\ unread = << >>
      /\ UNCHANGED <<kind, result, mi_command, unread, heard, made, lost>>
  BY DEF PushSucceeds, Return
<1>2. (TwoRecords <=> TwoRecords') /\ (HeardRecord <=> HeardRecord')
  BY <1>1 DEF TwoRecords, HeardRecord
<1>3. ContextInv'
  BY <1>1 DEF ContextInv
<1>4. CASE result = "OK" /\ mi_command # NULL
  <2>1. /\ returned' = [result |-> "OK", out |-> mi_command]
        /\ held' = held \cup {mi_command} /\ live' = live
    BY <1>4 DEF PushSucceeds, Return
  <2>2. TypeOK'
    BY <1>1, <2>1 DEF TypeOK, Results
  <2>3. CommandIffOK' /\ OnlyResultRecords'
    BY <1>1, <1>4, <2>1 DEF ContextInv, CommandIffOK, OnlyResultRecords
  <2>4. LosesOnlyThen' /\ (held \cup lost)' \subseteq live'
        /\ (held \cap lost)' = {}
    BY <1>1, <1>2, <1>4, <2>1, Unheld DEF LosesOnlyThen
  <2> QED BY <1>3, <2>2, <2>3, <2>4
<1>5. CASE ~(result = "OK" /\ mi_command # NULL)
  <2>1. /\ returned'.result \in Results \ {"OK"} /\ returned'.out = NULL
        /\ returned' \in [result : Results, out : 0..MaxCommands]
        /\ held' = held /\ live' = live \ ({mi_command} \ {NULL})
    <3>1. result \in Results /\ NULL \in 0..MaxCommands /\ NULL \notin live
      BY MaxCommandsAssumption DEF TypeOK, NULL
    <3>2. CASE result = "OK" /\ mi_command = NULL
      <4>1. Return("LOGIC", NULL) /\ live' = live
        BY <3>2 DEF PushSucceeds
      <4> QED BY <3>1, <3>2, <4>1 DEF Return, Results
    <3>3. CASE result # "OK"
      <4>1. Return(result, NULL) /\ live' = live \ {mi_command}
        BY <3>1, <3>3 DEF PushSucceeds
      <4> QED BY <3>1, <3>3, <4>1 DEF Return, Results
    <3> QED BY <1>5, <3>2, <3>3
  <2>2. TypeOK'
    BY <1>1, <2>1 DEF TypeOK
  <2>3. CommandIffOK' /\ OnlyResultRecords'
    BY <2>1 DEF CommandIffOK, OnlyResultRecords
  <2>4. LosesOnlyThen' /\ (held \cup lost)' \subseteq live'
        /\ (held \cap lost)' = {}
    BY <1>1, <1>2, <2>1, Unheld DEF LosesOnlyThen
  <2> QED BY <1>3, <2>2, <2>3, <2>4
<1> QED BY <1>4, <1>5

LEMMA FreeInv ==
    ASSUME ExecInv, NEW c \in held, Free(c)
    PROVE  ExecInv'
<1> USE DEF ExecInv
<1>1. TypeOK' /\ ContextInv' /\ CommandIffOK' /\ OnlyResultRecords'
  BY DEF Free, TypeOK, ContextInv, CommandIffOK, OnlyResultRecords
<1>2. LosesOnlyThen'
  BY DEF Free, LosesOnlyThen, TwoRecords, HeardRecord
<1> QED BY <1>1, <1>2 DEF Free

LEMMA StutterExec == ExecInv /\ UNCHANGED vars => ExecInv'
BY DEF vars, ExecInv, TypeOK, ContextInv, CommandIffOK, OnlyResultRecords,
       LosesOnlyThen, TwoRecords, HeardRecord

\* The inductive invariant.
THEOREM ExecInvariance == Spec => []ExecInv
<1>1. ExecInv /\ [Next]_vars => ExecInv'
  <2> SUFFICES ASSUME ExecInv, [Next]_vars PROVE ExecInv'
    OBVIOUS
  <2>1. ASSUME NEW k \in Kinds, NEW text \in Texts, Call(k, text)
        PROVE  ExecInv'
    BY <2>1, CallInv
  <2>2. CASE UnexpectedRecord
    BY <2>2, UnexpectedRecordInv
  <2>3. CASE ResultOfRecord
    BY <2>3, ResultOfRecordInv
  <2>4. CASE PushFails
    BY <2>4, PushFailsInv
  <2>5. CASE PushSucceeds
    BY <2>5, PushSucceedsInv
  <2>6. ASSUME NEW c \in held, Free(c) PROVE ExecInv'
    BY <2>6, FreeInv
  <2>7. CASE UNCHANGED vars
    BY <2>7, StutterExec
  <2> QED BY <2>1, <2>2, <2>3, <2>4, <2>5, <2>6, <2>7 DEF Next
<1> QED BY InitExec, <1>1, PTL DEF Spec

\* gdbwire_interpreter_exec returns GDBWIRE_OK exactly with a command.
THEOREM OkMeansACommand == Spec => []CommandIffOK
<1>1. ExecInv => CommandIffOK
  BY DEF ExecInv
<1> QED BY ExecInvariance, <1>1, PTL

\* It makes a command of nothing but result records.
THEOREM NothingElseBecomesACommand == Spec => []OnlyResultRecords
<1>1. ExecInv => OnlyResultRecords
  BY DEF ExecInv
<1> QED BY ExecInvariance, <1>1, PTL

\* It never frees a command the front end has.
THEOREM HeldCommandsLive == Spec => []NothingDangles
<1>1. ExecInv => NothingDangles
  BY DEF ExecInv, NothingDangles
<1> QED BY ExecInvariance, <1>1, PTL

\* It loses a command in two ways only.
THEOREM LostCommandsExplained == Spec => []LosesOnlyThen
<1>1. ExecInv => LosesOnlyThen
  BY DEF ExecInv
<1> QED BY ExecInvariance, <1>1, PTL

-----------------------------------------------------------------------------
(* What gdbwire_get_mi_command promises.                                   *)

\* What one of gdbwire_get_mi_command's functions promises of what it returns.
Promised(m) ==
    /\ DOMAIN m = {"result", "out", "heap"}
    /\ m.result = "OK" <=> m.out # NoObject

\* An error comes without a command.
LEMMA FaultsArePromised ==
    ASSUME NEW why, why # "OK", NEW heap
    PROVE  Promised(Fault(why, heap))
BY DEF Promised, Fault

\* A command that is made whole comes with OK.
LEMMA MadeIsPromised ==
    ASSUME NEW object, NEW n, NEW heap, NEW why, why # "OK"
    PROVE  Promised(Made(object, n, heap, why))
<1>1. CASE Fails(heap, n)
  BY <1>1, FaultsArePromised DEF Made
<1>2. CASE ~Fails(heap, n)
  BY <1>2 DEF Made, Promised, NoObject
<1> QED BY <1>1, <1>2

\* break_info returns a command when the loop over the table had no error and
\* there is memory, and has cleaned up otherwise.
LEMMA BreakInfoIsPromised ==
    ASSUME NEW record, NEW heap
    PROVE  Promised(BreakInfo(record, heap))
<1>1. ASSUME NEW read PROVE Promised(FinishBreakInfo(read))
  <2>1. CASE read.result = "OK" /\ ~Fails(read.heap, 1)
    BY <2>1 DEF FinishBreakInfo, Promised, NoObject
  <2>2. CASE ~(read.result = "OK" /\ ~Fails(read.heap, 1))
    BY <2>2, FaultsArePromised DEF FinishBreakInfo
  <2> QED BY <2>1, <2>2
<1> DEFINE check == CheckTuple(record, "BreakpointTable")
           table == record.result[1].result
<1>2. CASE check # "OK"
  BY <1>2, FaultsArePromised DEF BreakInfo
<1>3. CASE check = "OK" /\ CheckTable(table) # "OK"
  BY <1>3, FaultsArePromised DEF BreakInfo
<1>4. CASE check = "OK" /\ CheckTable(table) = "OK"
  BY <1>1, <1>4 DEF BreakInfo
<1> QED BY <1>2, <1>3, <1>4

\* stack_info_frame.
LEMMA StackInfoFrameIsPromised ==
    ASSUME NEW record, NEW heap
    PROVE  Promised(StackInfoFrame(record, heap))
BY FaultsArePromised, MadeIsPromised DEF StackInfoFrame

\* file_list_exec_source_file; the first field that ends the loop ends it with
\* an error.
LEMMA SourceFileIsPromised ==
    ASSUME NEW record, NEW heap
    PROVE  Promised(FileListExecSourceFile(record, heap))
<1> DEFINE fields == record.result
           first == CHOOSE i \in FirstStop(fields) : TRUE
<1>1. FirstStop(fields) # {} => MacroStops(fields[first]) # "OK"
  BY DEF FirstStop
<1> HIDE DEF first
<1> QED BY <1>1, FaultsArePromised, MadeIsPromised DEF FileListExecSourceFile, first

\* file_list_exec_source_files.
LEMMA SourceFilesArePromised ==
    ASSUME NEW record, NEW heap
    PROVE  Promised(FileListExecSourceFiles(record, heap))
BY FaultsArePromised, MadeIsPromised DEF FileListExecSourceFiles

\* Of what there is to ask for, whatever record is given and whichever
\* allocation fails.
LEMMA CommandsArePromised ==
    ASSUME NEW k \in CommandKinds, NEW record, NEW heap
    PROVE  Promised(GetMiCommand(k, record, heap))
BY BreakInfoIsPromised, StackInfoFrameIsPromised, SourceFileIsPromised,
   SourceFilesArePromised DEF CommandKinds, GetMiCommand

\* Whatever record a command is asked for with and whichever allocation fails,
\* gdbwire_get_mi_command gives a command exactly when it returns GDBWIRE_OK.
THEOREM CommandExactlyWithOK == AskSpec => []OutIffOK
<1>1. AskInit => Promised(answer)
  BY FaultsArePromised DEF AskInit
<1>2. Promised(answer) /\ [AskNext]_askVars => Promised(answer)'
  <2> SUFFICES ASSUME Promised(answer), [AskNext]_askVars
               PROVE  Promised(answer)'
    OBVIOUS
  <2>1. CASE Ask
    BY <2>1, CommandsArePromised, QuestionsAssumption DEF Ask, Promised
  <2>2. CASE FreeAnswer
    BY <2>2 DEF FreeAnswer, Promised
  <2>3. CASE UNCHANGED askVars
    BY <2>3 DEF askVars, Promised
  <2> QED BY <2>1, <2>2, <2>3 DEF AskNext
<1>3. Promised(answer) => OutIffOK
  BY DEF Promised, OutIffOK
<1> QED BY <1>1, <1>2, <1>3, PTL DEF AskSpec

\* So what gdbwire_interpreter_exec takes for granted of a command (the second
\* part of MakesAssumption) is so, when Makes is what gdbwire_get_mi_command does
\* with the trees of the records, whatever they are and whichever allocation fails.
THEOREM MakesWhatWasPromised ==
    ASSUME Kinds \subseteq CommandKinds, NEW tree, NEW faults,
           \A k \in Kinds, r \in Records :
              Makes(k, r) = {[result |-> m.result, made |-> m.out # NoObject] :
                             m \in {GetMiCommand(k, tree[r], Heap(n)) : n \in faults}}
    PROVE  \A k \in Kinds, r \in Records : \A m \in Makes(k, r) :
              m.made <=> m.result = "OK"
<1> SUFFICES ASSUME NEW k \in Kinds, NEW r \in Records, NEW m \in Makes(k, r)
             PROVE  m.made <=> m.result = "OK"
  OBVIOUS
<1>1. PICK n \in faults :
         m = [result |-> GetMiCommand(k, tree[r], Heap(n)).result,
              made |-> GetMiCommand(k, tree[r], Heap(n)).out # NoObject]
  OBVIOUS
<1>2. Promised(GetMiCommand(k, tree[r], Heap(n)))
  BY CommandsArePromised
<1> QED BY <1>1, <1>2 DEF Promised
=============================================================================
