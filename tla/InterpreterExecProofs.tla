------------------------ MODULE InterpreterExecProofs ------------------------
(***************************************************************************)
(* For every text and every command that may be made of its records, and   *)
(* wherever an allocation fails: gdbwire_interpreter_exec frees what it    *)
(* made to read the text, returns a command when it says so, and decides   *)
(* that by the lines of the text as Gdbwire does, which it implements.     *)
(***************************************************************************)
EXTENDS InterpreterExecProtocol, MiParserProofs

-----------------------------------------------------------------------------
(* The parser under gdbwire_interpreter_exec.                              *)

\* An allocation of gdbwire_create's fails.
FaultElsewhere ==
    /\ faults < MaxFaults
    /\ faults' = faults + 1
    /\ UNCHANGED <<pushVars, buffer, pc, calls, line, unread, column, pushed,
                   consumed, delivered, reply, failed, dropped>>

LEMMA FaultElsewhereInv == ParserInv /\ FaultElsewhere => ParserInv'
<1> SUFFICES ASSUME ParserInv, FaultElsewhere PROVE ParserInv'
  OBVIOUS
<1>1. BufferInv' /\ LineInv'
  BY DEF ParserInv, FaultElsewhere, BufferInv, Gone, LineInv, HasNewline
<1>2. LingerInv' /\ NomemInv'
  BY DEF ParserInv, FaultElsewhere, LingerInv, InLine, BetweenLines, Resynced,
     NewlineSeen, HasNewline, NomemInv, pushVars
<1>3. CallsInv' /\ faults' # 0
  BY BoundsAssumption DEF ParserInv, FaultElsewhere, CallsInv
<1>4. PushInv'
  BY StutterInv DEF ParserInv, FaultElsewhere
<1>5. NulFreeInv'
  BY <1>3 DEF ParserInv, FaultElsewhere, NulFreeInv, NulFree, InLine, Resynced,
     HasNewline, pushVars
<1> QED BY <1>1, <1>2, <1>3, <1>4, <1>5 DEF ParserInv

LEMMA FaultElsewhereOutcome == OutcomeInv /\ FaultElsewhere => OutcomeInv'
<1> SUFFICES ASSUME OutcomeInv, FaultElsewhere PROVE OutcomeInv'
  OBVIOUS
<1>1. Here' = Here
  BY DEF FaultElsewhere, Here, pushVars
<1> QED BY <1>1 DEF FaultElsewhere, OutcomeInv, OnItsRun, InLine, pushVars

\* The text has no NUL: its length is strlen's.
TextInv == text \in Clean /\ buffer \in Clean /\ consumed \in Clean

LEMMA ExecDrivesParser ==
    TextInv /\ [ExecNext]_allVars => AnyStep \/ FaultElsewhere
<1> SUFFICES ASSUME TextInv, [ExecNext]_allVars
             PROVE  AnyStep \/ FaultElsewhere
  OBVIOUS
<1>1. CASE Create \/ PushFailed \/ PushSucceeded \/ Done \/ UNCHANGED allVars
  BY <1>1 DEF Create, PushFailed, PushSucceeded, Returning, Done, allVars,
     AnyStep
<1>2. CASE CreateFails
  BY <1>2 DEF CreateFails, FaultElsewhere
<1>3. CASE PushText
  <2>1. text \in Seq(Input)
    BY DEF TextInv, Clean
  <2> QED BY <1>3, <2>1 DEF PushText, AnyStep
<1>4. CASE ParserRuns \/ OnOutput \/ DestroyWire
  BY <1>4 DEF ParserRuns, OnOutput, DestroyWire, AnyStep
<1> QED BY <1>1, <1>2, <1>3, <1>4 DEF ExecNext, ExecStep

LEMMA TextStep ==
    ParserInv /\ TextInv /\ [ExecNext]_allVars => TextInv'
<1> SUFFICES ASSUME ParserInv, TextInv, [ExecNext]_allVars PROVE TextInv'
  OBVIOUS
<1>1. text' = text
  BY DEF ExecNext, ExecStep, Create, CreateFails, PushText, ParserRuns,
     OnOutput, PushFailed, PushSucceeded, Returning, DestroyWire, Done,
     allVars, execVars
<1>2. CASE PushText
  <2>1. buffer' \in {buffer \o text, << >>} /\ consumed' = consumed
    BY <1>2 DEF PushText, PushData, PushNotStored
  <2>2. buffer \o text \in Clean /\ << >> \in Clean
    BY DEF TextInv, Clean
  <2> QED BY <1>1, <2>1, <2>2 DEF TextInv
<1>3. CASE GetNextLine
  <2> DEFINE n == LineLength(buffer)
  <2>1. n \in 1..Len(buffer)
    BY <1>3, LineLengthFits DEF ParserInv, BufferInv, GetNextLine
  <2>2. buffer' = SubSeq(buffer, n + 1, Len(buffer))
        /\ consumed' = consumed \o SubSeq(buffer, 1, n)
    BY <1>3 DEF GetNextLine
  <2> HIDE DEF n
  <2>3. buffer' \in Clean /\ SubSeq(buffer, 1, n) \in Clean
    BY <2>1, <2>2 DEF TextInv, Clean
  <2>4. consumed' \in Clean
    BY <2>2, <2>3 DEF TextInv, Clean
  <2> QED BY <1>1, <2>3, <2>4 DEF TextInv
<1>4. CASE ~PushText /\ ~GetNextLine
  <2>1. UNCHANGED <<buffer, consumed>>
    BY <1>4 DEF ExecNext, ExecStep, Create, CreateFails, ParserRuns, Library,
       NoMoreLines, LineNotCopied, LexToken, SkipBlank, ParseToken, EndOfLine,
       Deliver, FailLine, OnOutput, CallbackReturns, PushFailed, PushSucceeded,
       Returning, DestroyWire, Destroy, Done, allVars, vars, parserVars
  <2> QED BY <1>1, <2>1 DEF TextInv
<1> QED BY <1>2, <1>3, <1>4

-----------------------------------------------------------------------------
(* What gdbwire_create makes.                                              *)

\* The first n parts.
Made(n) == {Parts[i] : i \in 1..n}

ObjectsInv ==
    /\ at \in {"create", "ready", "push", "destroy", "returned"}
    /\ at = "create" => \E n \in 0..4 : objects = Made(n)
    /\ at = "returned" => objects = {}

\* The parts are all different, so they can be counted.
LEMMA CountMade ==
    ASSUME NEW n \in 0..4
    PROVE  Cardinality(Made(n)) = n
<1> DEFINE Size(k) == IsFiniteSet(Made(k)) /\ Cardinality(Made(k)) = k
<1>1. Size(0)
  <2>1. Made(0) = {}
    BY DEF Made
  <2> QED BY <2>1, FS_EmptySet
<1>2. ASSUME NEW k \in 0..3, Size(k) PROVE Size(k + 1)
  <2>1. Made(k + 1) = Made(k) \cup {Parts[k + 1]}
    BY DEF Made
  <2>2. Parts[k + 1] \notin Made(k)
    BY DEF Made, Parts
  <2> QED BY <1>2, <2>1, <2>2, FS_AddElement
<1> HIDE DEF Size
<1>3. Size(1)
  BY <1>1, <1>2
<1>4. Size(2)
  BY <1>2, <1>3
<1>5. Size(3)
  BY <1>2, <1>4
<1>6. Size(4)
  BY <1>2, <1>5
<1> QED BY <1>1, <1>3, <1>4, <1>5, <1>6 DEF Size

\* A part that cannot be made takes those made before it with it.
LEMMA FreedWithout ==
    ASSUME NEW n \in 0..4
    PROVE  Made(n) \ FreesWithout(Parts[n + 1]) = {}
BY DEF Made, FreesWithout, Parts

LEMMA ObjectsStep == ObjectsInv /\ [ExecNext]_allVars => ObjectsInv'
<1> SUFFICES ASSUME ObjectsInv, [ExecNext]_allVars PROVE ObjectsInv'
  OBVIOUS
<1>1. CASE at = "create"
  <2>1. PICK n \in 0..4 : objects = Made(n)
    BY <1>1 DEF ObjectsInv
  <2>2. NextPart = Parts[n + 1]
    BY <2>1, CountMade DEF NextPart
  <2>3. CASE Create
    <3>1. /\ objects' = Made(n) \cup {Parts[n + 1]}
          /\ at' = IF Parts[n + 1] = "pstate" THEN "ready" ELSE "create"
      BY <2>1, <2>2, <2>3 DEF Create
    <3>2. Made(n) \cup {Parts[n + 1]} = Made(n + 1)
      BY DEF Made
    <3>3. n = 4 => Parts[n + 1] = "pstate"
      BY DEF Parts
    <3> QED BY <3>1, <3>2, <3>3 DEF ObjectsInv
  <2>4. CASE CreateFails
    BY <2>1, <2>2, <2>4, FreedWithout DEF CreateFails, ObjectsInv
  <2>5. CASE OnOutput \/ UNCHANGED allVars
    BY <2>5 DEF ObjectsInv, OnOutput, allVars, execVars
  <2> QED BY <1>1, <2>3, <2>4, <2>5 DEF ExecNext, ExecStep, PushText,
          ParserRuns, PushFailed, PushSucceeded, DestroyWire, Done
<1>2. CASE at # "create"
  <2>1. \/ at' = at /\ objects' = objects
        \/ at' \in {"push", "destroy"}
        \/ at' = "returned" /\ objects' = {}
    BY <1>2 DEF ExecNext, ExecStep, Create, CreateFails, PushText, ParserRuns,
       OnOutput, PushFailed, PushSucceeded, Returning, DestroyWire, Done,
       allVars, execVars
  <2> QED BY <1>2, <2>1 DEF ObjectsInv
<1> QED BY <1>1, <1>2

-----------------------------------------------------------------------------
(* What is made of the records.                                            *)

CommandInv ==
    /\ at # "push" => pc \in {"idle", "broken", "crashed", "destroyed"}
    /\ made \in Nat /\ live \subseteq 1..made
    /\ at \in {"create", "ready", "push"} => mi_command \in live \cup {NULL}
    /\ at \in {"destroy", "returned"} => CommandReturned

LEMMA CommandStep ==
    CallsInv /\ ObjectsInv /\ CommandInv /\ [ExecNext]_allVars => CommandInv'
<1> SUFFICES ASSUME CallsInv, ObjectsInv, CommandInv, [ExecNext]_allVars
             PROVE  CommandInv'
  OBVIOUS
<1>1. CASE OnOutput
  <2>1. at = "push" /\ at' = "push"
    BY <1>1 DEF OnOutput, CallbackReturns, CommandInv
  <2>2. CASE UNCHANGED <<mi_command, made, live>>
    BY <2>1, <2>2 DEF CommandInv
  <2>3. ASSUME NEW record, GetCommand(record)
        PROVE  CommandInv'
    <3>1. \/ /\ made' = made + 1 /\ mi_command' = made + 1
             /\ live' = live \cup {made + 1}
          \/ mi_command' = NULL /\ UNCHANGED <<made, live>>
      BY <2>3 DEF GetCommand
    <3>2. made \in Nat /\ live \subseteq 1..made
      BY DEF CommandInv
    <3>3. CASE mi_command' = NULL /\ UNCHANGED <<made, live>>
      BY <2>1, <3>2, <3>3 DEF CommandInv
    <3>4. CASE /\ made' = made + 1 /\ mi_command' = made + 1
               /\ live' = live \cup {made + 1}
      <4>1. made + 1 \in Nat /\ made + 1 \in 1..(made + 1)
            /\ 1..made \subseteq 1..(made + 1)
        BY <3>2
      <4>2. live \cup {made + 1} \subseteq 1..(made + 1)
        BY <3>2, <4>1
      <4> QED BY <2>1, <3>4, <4>1, <4>2 DEF CommandInv
    <3> QED BY <3>1, <3>3, <3>4
  <2> QED BY <1>1, <2>2, <2>3 DEF OnOutput
<1>2. CASE CreateFails
  BY <1>2 DEF CreateFails, CommandInv, CommandReturned, NULL
<1>3. CASE PushFailed \/ PushSucceeded
  <2>1. pc' \in {"idle", "broken", "crashed", "destroyed"}
    BY <1>3 DEF PushFailed, PushSucceeded, Returning, CallsInv, vars,
       parserVars
  <2>2. /\ at' = "destroy" /\ made' = made
        /\ live' = live \/ live' = live \ {mi_command}
    BY <1>3 DEF PushFailed, PushSucceeded, Returning
  <2>3. CommandReturned'
    BY <1>3 DEF PushFailed, PushSucceeded, Returning, CommandInv,
       CommandReturned, NULL
  <2> QED BY <2>1, <2>2, <2>3 DEF CommandInv
<1>4. CASE PushText \/ ParserRuns
  BY <1>4 DEF PushText, ParserRuns, execVars, CommandInv
<1>5. CASE Create
  BY <1>5 DEF Create, vars, parserVars, CommandInv
<1>6. CASE DestroyWire
  BY <1>6 DEF DestroyWire, Destroy, CommandInv, CommandReturned
<1>7. CASE Done \/ UNCHANGED allVars
  BY <1>7 DEF Done, allVars, execVars, vars, parserVars, CommandInv,
     CommandReturned
<1> QED BY <1>1, <1>2, <1>3, <1>4, <1>5, <1>6, <1>7 DEF ExecNext, ExecStep

-----------------------------------------------------------------------------
(* The theorems.                                                           *)

ExecInv ==
    ParserInv /\ OutcomeInv /\ TextInv /\ ObjectsInv /\ CommandInv

LEMMA ExecInvInit == ExecInit => ExecInv
<1> SUFFICES ASSUME ExecInit PROVE ExecInv
  OBVIOUS
<1>1. ParserInv
  BY ParserInvInit DEF ExecInit
<1>2. TextInv
  BY TextsAssumption DEF ExecInit, Init, TextInv, Clean
<1>3. ObjectsInv
  BY DEF ExecInit, ObjectsInv, Made
<1>4. CommandInv
  BY DEF ExecInit, Init, CommandInv, NULL
<1>5. OutcomeInv
  BY OutcomeInit DEF ExecInit
<1> QED BY <1>1, <1>2, <1>3, <1>4, <1>5 DEF ExecInv

LEMMA ExecInvariance ==
    ASSUME EveryColumn
    PROVE  ExecSpec => []ExecInv
<1>1. ExecInv /\ [ExecNext]_allVars => ExecInv'
  BY ExecDrivesParser, ParserInvStep, FaultElsewhereInv, OutcomeStep,
     FaultElsewhereOutcome, TextStep, ObjectsStep, CommandStep
     DEF ExecInv, ParserInv
<1> QED BY <1>1, ExecInvInit, PTL DEF ExecSpec

\* Whatever the text, and whichever of the allocations of gdbwire_create and of
\* the parser fails: gdbwire_interpreter_exec returns with everything freed that
\* it made to read the text, and with no value of the parser's stack lost.
THEOREM EverythingFreed ==
    ASSUME EveryColumn
    PROVE  ExecSpec => []NothingOutlives
<1>1. ExecInv => NothingOutlives
  <2> SUFFICES ASSUME ExecInv, at = "returned"
               PROVE  objects = {} /\ leaked = {} /\ dropped \cap Owning = {}
    BY DEF NothingOutlives
  <2>1. objects = {} /\ leaked = {}
    BY DEF ExecInv, ObjectsInv, ParserInv, PushInv, NoLeak
  <2>2. NulFree
    BY DEF ExecInv, TextInv, Clean, NulFree, Range
  <2>3. dropped \subseteq {"output", "buffer"}
    BY <2>2 DEF ExecInv, ParserInv, NulFreeInv
  <2> QED BY <2>1, <2>3 DEF Owning
<1> QED BY <1>1, ExecInvariance, PTL

\* gdbwire_interpreter_exec returns GDBWIRE_OK exactly when it returns a
\* command, and never one it has freed: over the parser itself, with every
\* failure of its memory and whatever gdbwire_get_mi_command does.
THEOREM CommandExists ==
    ASSUME EveryColumn
    PROVE  ExecSpec => [](at = "returned" => CommandReturned)
<1>1. ExecInv => (at = "returned" => CommandReturned)
  BY DEF ExecInv, CommandInv
<1> QED BY <1>1, ExecInvariance, PTL

-----------------------------------------------------------------------------
(* Counting the lines of the text, whichever newlines they have.           *)

\* The lines of s that end with its first n elements.
EndsBy(s, n) == Cardinality({i \in Protocol!Ends(s) : i <= n})

LEMMA EndsByGrows ==
    ASSUME NEW s \in Seq(Input), NEW m \in Nat, NEW n \in Nat, m <= n
    PROVE  /\ EndsBy(s, m) \in Nat /\ EndsBy(s, n) \in Nat
           /\ EndsBy(s, m) <= EndsBy(s, n)
           /\ (\A i \in Protocol!Ends(s) : i <= n => i <= m) =>
                 EndsBy(s, m) = EndsBy(s, n)
           /\ n \in Protocol!Ends(s) /\ m < n => EndsBy(s, m) < EndsBy(s, n)
           /\ /\ n \in Protocol!Ends(s) /\ m < n
              /\ \A i \in Protocol!Ends(s) : i < n => i <= m
              => EndsBy(s, n) = EndsBy(s, m) + 1
<1> DEFINE E == Protocol!Ends(s)
           T(k) == {i \in E : i <= k}
           U == {i \in E : i < n}
<1>1. E \subseteq 1..Len(s) /\ Len(s) \in Nat
  BY DEF Protocol!Ends
<1> HIDE DEF E
<1>0. \A i \in E : i \in Int
  BY <1>1
<1>2. IsFiniteSet(1..Len(s))
  BY <1>1, FS_Interval
<1>3. /\ T(m) \subseteq 1..Len(s) /\ T(n) \subseteq 1..Len(s)
      /\ U \subseteq 1..Len(s)
  BY <1>1
<1>4. IsFiniteSet(T(m)) /\ IsFiniteSet(T(n)) /\ IsFiniteSet(U)
  BY <1>2, <1>3, FS_Subset
<1>5. T(m) \subseteq T(n)
  BY <1>0
<1>6. n \in E /\ m < n => T(n) = U \cup {n} /\ n \notin U /\ T(m) \subseteq U
  <2> SUFFICES ASSUME n \in E, m < n
               PROVE  T(n) = U \cup {n} /\ n \notin U /\ T(m) \subseteq U
    OBVIOUS
  <2>1. \A i \in E : (i <= n <=> i < n \/ i = n) /\ (i <= m => i < n)
    BY <1>0
  <2>2. T(n) = U \cup {n}
    BY <2>1
  <2>3. n \notin U
    OBVIOUS
  <2>4. T(m) \subseteq U
    BY <2>1
  <2> QED BY <2>2, <2>3, <2>4
<1>7. (\A i \in E : i <= n => i <= m) => T(m) = T(n)
  BY <1>0
<1>8. m < n /\ (\A i \in E : i < n => i <= m) => U = T(m)
  BY <1>0
<1>9. EndsBy(s, m) = Cardinality(T(m)) /\ EndsBy(s, n) = Cardinality(T(n))
  BY DEF EndsBy, E
<1> HIDE DEF T, U
<1>10. Cardinality(T(m)) \in Nat /\ Cardinality(T(n)) \in Nat
       /\ Cardinality(U) \in Nat
  BY <1>4, FS_CardinalityType
<1>11. Cardinality(T(m)) <= Cardinality(T(n))
  BY <1>4, <1>5, FS_Subset
<1>12. n \in E /\ m < n => /\ Cardinality(T(n)) = Cardinality(U) + 1
                           /\ Cardinality(T(m)) <= Cardinality(U)
  <2> SUFFICES ASSUME n \in E, m < n
               PROVE  /\ Cardinality(T(n)) = Cardinality(U) + 1
                      /\ Cardinality(T(m)) <= Cardinality(U)
    OBVIOUS
  <2>1. T(n) = U \cup {n} /\ n \notin U /\ T(m) \subseteq U
    BY <1>6
  <2>2. Cardinality(U \cup {n}) = Cardinality(U) + 1
    BY <1>4, <2>1, FS_AddElement
  <2> QED BY <1>4, <2>1, <2>2, FS_Subset
<1> QED BY <1>7, <1>8, <1>9, <1>10, <1>11, <1>12 DEF E

\* Nothing ends before the first element, and everything with the last.
LEMMA EndsByBounds ==
    ASSUME NEW s \in Seq(Input)
    PROVE  EndsBy(s, 0) = 0 /\ EndsBy(s, Len(s)) = LineCount(s)
<1>1. \A i \in Protocol!Ends(s) : i \in 1..Len(s)
  BY DEF Protocol!Ends
<1>2. {i \in Protocol!Ends(s) : i <= 0} = {}
  BY <1>1
<1>3. {i \in Protocol!Ends(s) : i <= Len(s)} = Protocol!Ends(s)
  BY <1>1
<1> QED BY <1>2, <1>3, FS_EmptySet DEF EndsBy, LineCount

\* The protocol finds the end of a line by counting them.
LEMMA EndOfCount ==
    ASSUME NEW s \in Seq(Input), NEW n \in Nat, n = 0 \/ n \in Protocol!Ends(s)
    PROVE  Protocol!EndOf(s, EndsBy(s, n)) = n
<1> DEFINE c == EndsBy(s, n)
           Nth(j) == Cardinality({k \in Protocol!Ends(s) : k <= j}) = c
<1>1. CASE n = 0
  BY <1>1, EndsByBounds DEF Protocol!EndOf
<1>2. CASE n # 0
  <2>1. n \in Protocol!Ends(s) /\ 0 < n /\ 0 \in Nat
    BY <1>2
  <2>2. c # 0
    BY <2>1, EndsByGrows, EndsByBounds
  <2>3. Nth(n)
    BY DEF EndsBy
  <2>4. ASSUME NEW j \in Protocol!Ends(s), Nth(j)
        PROVE  j = n
    <3>1. j \in Nat /\ EndsBy(s, j) = c
      BY <2>4 DEF EndsBy, Protocol!Ends
    <3>2. ~(j < n)
      <4>1. j < n => EndsBy(s, j) < EndsBy(s, n)
        BY <2>1, <3>1, EndsByGrows
      <4>2. EndsBy(s, j) \in Nat
        BY <3>1, EndsByGrows
      <4> QED BY <3>1, <4>1, <4>2
    <3>3. ~(n < j)
      <4>1. n < j => EndsBy(s, n) < EndsBy(s, j)
        BY <2>4, <3>1, EndsByGrows
      <4>2. EndsBy(s, j) \in Nat
        BY <3>1, EndsByGrows
      <4> QED BY <3>1, <4>1, <4>2
    <3> QED BY <3>1, <3>2, <3>3
  <2> HIDE DEF c
  <2>5. Protocol!EndOf(s, c) = CHOOSE j \in Protocol!Ends(s) : Nth(j)
    BY <2>2, SameCardinality, Zenon DEF Protocol!EndOf
  <2> HIDE DEF Nth
  <2>6. Protocol!EndOf(s, c) = n
    BY <2>1, <2>3, <2>4, <2>5
  <2> QED BY <2>6 DEF c
<1> QED BY <1>1, <1>2

\* get_next_line cuts the buffer where the next line ends.
LEMMA CutsAtNextEnd ==
    ASSUME NEW s \in Seq(Input), NEW c \in Seq(Input), NEW b \in Seq(Input),
           c \o b = s, HasNewline(b)
    PROVE  LET n == Len(c) + LineLength(b)
           IN /\ n \in Protocol!Ends(s) /\ Len(c) < n
              /\ \A i \in Protocol!Ends(s) : i < n => i <= Len(c)
              /\ SubSeq(b, 1, LineLength(b)) = SubSeq(s, Len(c) + 1, n)
<1> DEFINE m == Len(c)
           f == FirstNewline(b)
           l == LineLength(b)
<1>1. /\ f \in 1..Len(b) /\ b[f] \in Newlines
      /\ \A j \in 1..(f - 1) : b[j] \notin Newlines
  BY FirstNewlineIsThere
<1>2. l \in 1..Len(b)
  BY LineLengthFits
<1>3. l = IF b[f] = "CR" /\ f < Len(b) /\ b[f + 1] = "LF" THEN f + 1 ELSE f
  BY DEF LineLength
<1>4. /\ Len(s) = m + Len(b) /\ m \in Nat /\ Len(b) \in Nat
      /\ \A j \in 1..Len(b) : s[m + j] = b[j]
  OBVIOUS
<1> HIDE DEF m, f, l
<1>5. m + l \in 1..Len(s) /\ m + f \in 1..Len(s) /\ f \in Nat /\ l \in Nat
  BY <1>1, <1>2, <1>4
<1>6. m + l \in Protocol!Ends(s)
  <2>1. CASE b[f] = "CR" /\ f < Len(b) /\ b[f + 1] = "LF"
    <3>1. s[m + l] = "LF"
      BY <1>1, <1>2, <1>3, <1>4, <2>1
    <3> QED BY <1>5, <3>1 DEF Protocol!Ends
  <2>2. CASE ~(b[f] = "CR" /\ f < Len(b) /\ b[f + 1] = "LF")
    <3>1. l = f /\ s[m + f] = b[f]
      BY <1>1, <1>3, <1>4, <2>2
    <3>2. CASE b[f] = "LF"
      BY <1>5, <3>1, <3>2 DEF Protocol!Ends
    <3>3. CASE b[f] = "CR"
      <4>1. ~(m + f < Len(s) /\ s[(m + f) + 1] = "LF")
        <5> SUFFICES ASSUME m + f < Len(s), s[(m + f) + 1] = "LF"
                     PROVE  FALSE
          OBVIOUS
        <5>1. f + 1 \in 1..Len(b) /\ f < Len(b)
          BY <1>1, <1>4, <1>5
        <5>2. (m + f) + 1 = m + (f + 1)
          BY <1>4, <1>5
        <5> QED BY <1>4, <2>2, <3>3, <5>1, <5>2
      <4> QED BY <1>5, <3>1, <3>3, <4>1 DEF Protocol!Ends
    <3> QED BY <1>1, <3>2, <3>3 DEF Newlines
  <2> QED BY <2>1, <2>2
<1>7. ASSUME NEW i \in Protocol!Ends(s), i < m + l, ~(i <= m)
      PROVE  FALSE
  <2>1. /\ i \in 1..Len(s) /\ s[i] \in Newlines
        /\ s[i] = "CR" => ~(i < Len(s) /\ s[i + 1] = "LF")
    BY DEF Protocol!Ends, Newlines
  <2>2. PICK j \in Int : j = i - m
    BY <1>4, <2>1
  <2>3. j \in 1..Len(b) /\ i = m + j /\ j < l
    BY <1>2, <1>4, <1>5, <1>7, <2>1, <2>2
  <2>4. s[i] = b[j]
    BY <1>4, <2>3
  <2>5. j = f /\ b[f] = "CR" /\ f < Len(b) /\ b[f + 1] = "LF"
    <3>1. ~(j < f)
      BY <1>1, <1>5, <2>1, <2>3, <2>4
    <3> QED BY <1>1, <1>3, <1>5, <2>3, <3>1
  <2>6. s[i + 1] = "LF" /\ i < Len(s)
    <3>1. f + 1 \in 1..Len(b)
      BY <1>5, <2>5, <1>4
    <3>2. i + 1 = m + (f + 1) /\ i < Len(s)
      BY <1>4, <1>5, <2>3, <2>5
    <3> QED BY <1>4, <2>5, <3>1, <3>2
  <2> QED BY <2>1, <2>4, <2>5, <2>6
<1>8. SubSeq(b, 1, l) = SubSeq(s, m + 1, m + l)
  <2> DEFINE x == SubSeq(b, 1, l)
             y == SubSeq(s, m + 1, m + l)
  <2>1. /\ x \in Seq(Input) /\ Len(x) = l
        /\ \A j \in 1..l : x[j] = b[j]
    BY <1>2, <1>4
  <2>2. /\ y \in Seq(Input) /\ Len(y) = l
        /\ \A j \in 1..l : y[j] = s[(m + 1) + j - 1]
    BY <1>4, <1>5
  <2> HIDE DEF x, y
  <2>3. ASSUME NEW j \in 1..l PROVE x[j] = y[j]
    <3>1. (m + 1) + j - 1 = m + j /\ j \in 1..Len(b)
      BY <1>2, <1>4, <1>5
    <3> QED BY <1>4, <2>1, <2>2, <3>1
  <2>4. x = y
    BY <2>1, <2>2, <2>3, SeqEqual
  <2> QED BY <2>4 DEF x, y
<1>9. m < m + l
  BY <1>2, <1>4, <1>5
<1> QED BY <1>6, <1>7, <1>8, <1>9, <1>4, <1>5 DEF m, l

\* Without a newline in the buffer all lines have ended.
LEMMA NoEndIsLeft ==
    ASSUME NEW s \in Seq(Input), NEW c \in Seq(Input), NEW b \in Seq(Input),
           c \o b = s, ~HasNewline(b)
    PROVE  EndsBy(s, Len(c)) = LineCount(s)
<1> DEFINE m == Len(c)
<1>1. /\ Len(s) = m + Len(b) /\ m \in Nat /\ Len(b) \in Nat
      /\ \A j \in 1..Len(b) : s[m + j] = b[j]
  OBVIOUS
<1> HIDE DEF m
<1>2. ASSUME NEW i \in Protocol!Ends(s), ~(i <= m)
      PROVE  FALSE
  <2>1. i \in 1..Len(s) /\ s[i] \in Newlines
    BY DEF Protocol!Ends, Newlines
  <2>2. PICK j \in Int : j = i - m
    BY <1>1, <2>1
  <2>3. j \in 1..Len(b) /\ i = m + j
    BY <1>1, <1>2, <2>1, <2>2
  <2> QED BY <1>1, <2>1, <2>3 DEF HasNewline
<1>3. m <= Len(s) /\ Len(s) \in Nat
  BY <1>1
<1>4. EndsBy(s, m) = EndsBy(s, Len(s))
  BY <1>1, <1>2, <1>3, EndsByGrows
<1> QED BY <1>4, EndsByBounds DEF m

-----------------------------------------------------------------------------
(* What the callbacks have been told.                                      *)

\* Until the text is pushed nothing has happened.
FreshInv ==
    at \in {"create", "ready"} =>
        /\ pc = "idle" /\ calls = 0 /\ ~failed
        /\ buffer = << >> /\ consumed = << >> /\ pushed = << >>
        /\ delivered = << >>
        /\ result = "OK" /\ mi_command = NULL /\ made = 0 /\ live = {}
        /\ returned = [result |-> "LOGIC", out |-> NULL]

\* The lines that have been taken out of the buffer are the first ones of the
\* text, and each was delivered for what it is.
LinesInv ==
    /\ pushed = text
    /\ Len(consumed) = 0 \/ Len(consumed) \in Protocol!Ends(text)
    /\ EndsBy(text, Len(consumed)) =
          Len(delivered) + (IF InLine THEN 1 ELSE 0)
    /\ InLine => line = LineOf(text, Len(delivered) + 1)
    /\ pc = "callback" => Len(delivered) # 0
    /\ \A n \in 1..Len(delivered) :
          /\ delivered[n].line = LineOf(text, n)
          /\ delivered[n].output.kind = Verdict(LineOf(text, n))

\* There is one push, which ends when it fails.
PushedInv ==
    at = "push" =>
        /\ calls <= 1 /\ pc \notin {"crashed", "destroyed"}
        /\ returned = [result |-> "LOGIC", out |-> NULL]
        /\ (failed => calls = 0) /\ (pc = "broken" => failed)
        /\ ~failed => LinesInv

StreamOfExec == FreshInv /\ PushedInv /\ OutputsInv

LEMMA PushTextStep ==
    ASSUME TextInv, FreshInv, BufferInv, PushText
    PROVE  PushedInv'
<1>1. /\ pc = "idle" /\ calls = 0 /\ ~failed /\ consumed = << >>
      /\ pushed = << >> /\ delivered = << >>
      /\ returned = [result |-> "LOGIC", out |-> NULL]
      /\ UNCHANGED <<text, returned>> /\ text \in Seq(Input)
  BY DEF FreshInv, PushText, TextInv, Clean
<1>2. CASE PushNotStored
  <2>1. calls' = 0 /\ pc' = "broken" /\ failed'
    BY <1>1, <1>2 DEF PushNotStored
  <2> QED BY <1>1, <2>1 DEF PushedInv
<1>3. CASE PushData(text)
  <2>1. /\ UNCHANGED <<consumed, delivered, failed>>
        /\ pushed' = << >> \o text
        /\ calls' \in {0, 1} /\ pc' \in {"idle", "next_line"}
    BY <1>1, <1>3 DEF PushData
  <2>2. pushed' = text
    BY <1>1, <2>1
  <2>3. EndsBy(text, 0) = 0
    BY <1>1, EndsByBounds
  <2>4. ~InLine' /\ pc' # "callback" /\ ~failed'
    BY <1>1, <2>1 DEF InLine
  <2>5. Len(consumed') = 0 /\ Len(delivered') = 0
    BY <1>1, <2>1
  <2>6. LinesInv'
    BY <1>1, <2>2, <2>3, <2>4, <2>5 DEF LinesInv, EndsBy
  <2> QED BY <1>1, <2>1, <2>4, <2>6 DEF PushedInv
<1> QED BY <1>2, <1>3 DEF PushText

LEMMA NextLineStep ==
    ASSUME TextInv, BufferInv, LinesInv, GetNextLine, text' = text
    PROVE  LinesInv'
<1> DEFINE m == Len(consumed)
           l == LineLength(buffer)
           n == m + l
           d == Len(delivered)
<1>1. /\ pc = "next_line" /\ HasNewline(buffer)
      /\ consumed' = consumed \o SubSeq(buffer, 1, l)
      /\ line' = CString(SubSeq(buffer, 1, l))
      /\ pc' = "lex" /\ UNCHANGED <<pushed, delivered>>
  BY DEF GetNextLine
<1>2. /\ text \in Seq(Input) /\ buffer \in Seq(Input) /\ consumed \in Seq(Input)
      /\ consumed \o buffer = text
      /\ \A i \in 1..Len(buffer) : buffer[i] # "NUL"
  BY <1>1 DEF TextInv, BufferInv, LinesInv, Gone, Clean
<1>3. /\ n \in Protocol!Ends(text) /\ m < n
      /\ \A i \in Protocol!Ends(text) : i < n => i <= m
      /\ SubSeq(buffer, 1, l) = SubSeq(text, m + 1, n)
  BY <1>1, <1>2, CutsAtNextEnd
<1>4. /\ l \in 1..Len(buffer) /\ SubSeq(buffer, 1, l) \in Seq(Input)
      /\ (\A i \in 1..l : buffer[i] # "NUL") =>
            CString(SubSeq(buffer, 1, l)) = SubSeq(buffer, 1, l)
  BY <1>1, <1>2, CutLine
<1>5. m \in Nat /\ n \in Nat /\ m <= n
  BY <1>2, <1>3, <1>4
<1>6. Len(consumed') = n
  BY <1>1, <1>2, <1>4
<1>7. line' = SubSeq(text, m + 1, n)
  <2>1. \A i \in 1..l : buffer[i] # "NUL"
    BY <1>2, <1>4
  <2> QED BY <1>1, <1>3, <1>4, <2>1
<1> HIDE DEF m, l, n
<1>8. EndsBy(text, m) = d /\ d \in Nat
  <2>1. EndsBy(text, m) = d + 0
    BY <1>1 DEF LinesInv, InLine, m
  <2>2. EndsBy(text, m) \in Nat
    BY <1>2, <1>5, EndsByGrows
  <2> QED BY <1>1, <2>1, <2>2 DEF LinesInv, InLine, m
<1>9. EndsBy(text, n) = d + 1
  <2>1. EndsBy(text, n) = EndsBy(text, m) + 1
    BY <1>2, <1>3, <1>5, EndsByGrows
  <2> QED BY <1>8, <2>1
<1>10. Protocol!EndOf(text, d) = m /\ Protocol!EndOf(text, d + 1) = n
  <2>1. m = 0 \/ m \in Protocol!Ends(text)
    BY DEF LinesInv, m
  <2>2. Protocol!EndOf(text, EndsBy(text, m)) = m
    BY <1>2, <1>5, <2>1, EndOfCount
  <2>3. Protocol!EndOf(text, EndsBy(text, n)) = n
    BY <1>2, <1>3, <1>5, EndOfCount
  <2> QED BY <1>8, <1>9, <2>2, <2>3
<1>11. line' = LineOf(text, d + 1)
  <2>1. (d + 1) - 1 = d
    BY <1>8
  <2> QED BY <1>7, <1>10, <2>1 DEF LineOf, Protocol!Line
<1>12. InLine'
  BY <1>1 DEF InLine
<1> QED BY <1>1, <1>3, <1>6, <1>9, <1>11, <1>12 DEF LinesInv, EndsBy

LEMMA DeliverStep ==
    ASSUME ParserInv, OutputsInv, TextInv, LinesInv, CleanLinesStandAlone,
           Deliver, text' = text
    PROVE  LinesInv'
<1> DEFINE d == Len(delivered)
           r == [output |-> output, line |-> line]
<1>1. /\ pc = "check" /\ pc' = "callback"
      /\ delivered' = Append(delivered, r)
      /\ UNCHANGED <<pushed, consumed>>
  BY DEF Deliver
<1>2. InLine /\ ~InLine'
  BY <1>1 DEF InLine
<1>3. /\ d \in Nat /\ Len(delivered') = d + 1
      /\ delivered'[d + 1] = r
      /\ \A k \in 1..d : delivered'[k] = delivered[k]
  BY <1>1 DEF OutputsInv
<1>4. line = LineOf(text, d + 1)
  BY <1>2 DEF LinesInv
<1>5. output.kind = Verdict(line)
  <2>1. NulFree
    BY DEF TextInv, Clean, NulFree, Range
  <2>2. HasNewline(line) /\ ~abandoned /\ status # "NOMEM"
    BY <1>2, <2>1 DEF ParserInv, NulFreeInv, Deliver, LineParsed
  <2> QED BY <1>1, <2>2 DEF CleanLinesStandAlone
<1>6. EndsBy(text, Len(consumed)) = d + 1
  BY <1>2 DEF LinesInv
<1>7. ASSUME NEW n \in 1..Len(delivered')
      PROVE  /\ delivered'[n].line = LineOf(text, n)
             /\ delivered'[n].output.kind = Verdict(LineOf(text, n))
  <2>1. CASE n = d + 1
    BY <1>3, <1>4, <1>5, <2>1
  <2>2. CASE n # d + 1
    <3>1. n \in 1..d
      BY <1>3, <2>2
    <3> QED BY <1>3, <3>1 DEF LinesInv
  <2> QED BY <2>1, <2>2
<1>8. Len(delivered') = d + 1 /\ d + 1 # 0 /\ (d + 1) + 0 = d + 1
  BY <1>3
<1> QED BY <1>1, <1>2, <1>6, <1>7, <1>8 DEF LinesInv, EndsBy, LineOf

LEMMA LinesSameStep ==
    ASSUME LinesInv, UNCHANGED <<pushed, text, consumed, delivered>>,
           InLine' <=> InLine, InLine' => line' = line,
           pc' = "callback" => pc = "callback"
    PROVE  LinesInv'
BY DEF LinesInv, EndsBy, LineOf

LEMMA ParserRunsStep ==
    ASSUME ParserInv, OutputsInv, TextInv, PushedInv, CleanLinesStandAlone,
           ParserRuns
    PROVE  PushedInv'
<1>1. /\ at = "push" /\ at' = "push" /\ returned' = returned /\ text' = text
      /\ Library
  BY DEF ParserRuns, execVars
<1>2. pc \in {"next_line", "lex", "push", "check"}
  BY <1>1 DEF Library, GetNextLine, NoMoreLines, LineNotCopied, LexToken,
     SkipBlank, ParseToken, EndOfLine, Deliver, FailLine
<1>3. calls = 1 /\ ~failed /\ LinesInv
      /\ returned = [result |-> "LOGIC", out |-> NULL]
  BY <1>1, <1>2, BoundsAssumption DEF PushedInv, ParserInv, CallsInv
<1>4. Return => calls' = 0 /\ pc' = "idle"
  BY <1>3 DEF Return
<1>5. CASE GetNextLine
  <2>1. LinesInv'
    BY <1>1, <1>3, <1>5, NextLineStep DEF ParserInv
  <2>2. pc' = "lex" /\ UNCHANGED <<calls, failed>>
    BY <1>5 DEF GetNextLine
  <2> QED BY <1>1, <1>3, <2>1, <2>2 DEF PushedInv
<1>6. CASE Deliver
  <2>1. LinesInv'
    BY <1>1, <1>3, <1>6, DeliverStep
  <2>2. pc' = "callback" /\ UNCHANGED <<calls, failed>>
    BY <1>6 DEF Deliver
  <2> QED BY <1>1, <1>3, <2>1, <2>2 DEF PushedInv
<1>7. CASE NoMoreLines
  <2>1. /\ pc = "next_line" /\ pc' = "idle" /\ calls' = 0 /\ ~failed'
        /\ UNCHANGED <<pushed, consumed, delivered>>
    BY <1>4, <1>7 DEF NoMoreLines
  <2>2. LinesInv'
    BY <1>1, <1>3, <2>1, LinesSameStep DEF InLine
  <2> QED BY <1>1, <1>3, <2>1, <2>2 DEF PushedInv
<1>8. CASE LineNotCopied \/ FailLine
  <2>1. pc' = "idle" /\ calls' = 0 /\ failed'
    BY <1>4, <1>8 DEF LineNotCopied, FailLine
  <2> QED BY <1>1, <1>3, <2>1 DEF PushedInv
<1>9. CASE LexToken \/ SkipBlank \/ EndOfLine \/ ParseToken
  <2>1. /\ pc \in {"lex", "push"} /\ pc' \in {"lex", "push", "check"}
        /\ UNCHANGED <<calls, failed, line, pushed, consumed, delivered>>
    BY <1>9 DEF LexToken, SkipBlank, EndOfLine, ParseToken
  <2>2. LinesInv'
    BY <1>1, <1>3, <2>1, LinesSameStep DEF InLine
  <2> QED BY <1>1, <1>3, <2>1, <2>2 DEF PushedInv
<1> QED BY <1>1, <1>5, <1>6, <1>7, <1>8, <1>9 DEF Library

LEMMA StreamOfExecStep ==
    ExecInv /\ StreamOfExec /\ CleanLinesStandAlone /\ [ExecNext]_allVars
    => StreamOfExec'
<1> SUFFICES ASSUME ExecInv, StreamOfExec, CleanLinesStandAlone,
                    [ExecNext]_allVars
             PROVE  StreamOfExec'
  OBVIOUS
<1> USE DEF StreamOfExec, ExecInv
<1>1. OutputsInv'
  <2>1. FaultElsewhere => OutputsInv'
    BY DEF FaultElsewhere, OutputsInv
  <2> QED BY <2>1, ExecDrivesParser, OutputsStep DEF ParserInv
<1>2. CASE Create
  <2>1. /\ at = "create" /\ at' # "push"
        /\ UNCHANGED <<vars, result, mi_command, returned, made, live>>
    BY <1>2 DEF Create
  <2> QED BY <1>1, <2>1 DEF FreshInv, PushedInv, vars, parserVars
<1>3. CASE CreateFails
  <2>1. at' = "returned"
    BY <1>3 DEF CreateFails
  <2> QED BY <1>1, <2>1 DEF FreshInv, PushedInv
<1>4. CASE PushText
  <2>1. at' = "push"
    BY <1>4 DEF PushText
  <2>2. PushedInv'
    BY <1>4, PushTextStep DEF ParserInv
  <2> QED BY <1>1, <2>1, <2>2 DEF FreshInv
<1>5. CASE ParserRuns
  <2>1. at' = "push"
    BY <1>5 DEF ParserRuns, execVars
  <2>2. PushedInv'
    BY <1>5, ParserRunsStep
  <2> QED BY <1>1, <2>1, <2>2 DEF FreshInv
<1>6. CASE OnOutput
  <2>1. /\ pc = "callback" /\ pc' = "next_line" /\ at' = at
        /\ UNCHANGED <<calls, line, pushed, consumed, delivered, failed,
                       text, returned>>
    BY <1>6 DEF OnOutput, CallbackReturns
  <2>2. at = "push"
    BY <2>1 DEF CommandInv
  <2>3. LinesInv => LinesInv'
    BY <2>1, LinesSameStep DEF InLine
  <2>4. PushedInv'
    BY <2>1, <2>2, <2>3 DEF PushedInv
  <2> QED BY <1>1, <2>1, <2>2, <2>4 DEF FreshInv
<1>7. CASE PushFailed \/ PushSucceeded \/ DestroyWire
  <2>1. at' \in {"destroy", "returned"}
    BY <1>7 DEF PushFailed, PushSucceeded, Returning, DestroyWire
  <2> QED BY <1>1, <2>1 DEF FreshInv, PushedInv
<1>8. CASE Done \/ UNCHANGED allVars
  <2>1. UNCHANGED allVars
    BY <1>8 DEF Done
  <2>2. /\ UNCHANGED <<at, text, returned, result, mi_command, made, live>>
        /\ UNCHANGED <<pc, calls, failed, buffer, consumed, pushed, delivered,
                       line>>
    BY <2>1 DEF allVars, execVars, vars, parserVars
  <2>3. LinesInv => LinesInv'
    BY <2>2, LinesSameStep DEF InLine
  <2> QED BY <1>1, <2>2, <2>3 DEF FreshInv, PushedInv
<1> QED BY <1>2, <1>3, <1>4, <1>5, <1>6, <1>7, <1>8 DEF ExecNext, ExecStep

LEMMA StreamOfExecInit == ExecInit => StreamOfExec
BY DEF ExecInit, Init, StreamOfExec, FreshInv, PushedInv, OutputsInv

-----------------------------------------------------------------------------
(* What is made of the lines that were heard.                              *)

ArgumentsInv == text \in Texts /\ kind \in AskedKinds

\* While nothing is wrong with the lines there is a command, and what is wrong
\* is wrong with one of them.
MadeInv ==
    at = "push" /\ ~failed =>
        /\ result = "OK" =>
              /\ \A n \in 1..Heard : Good(n)
              /\ mi_command # NULL <=> Heard # 0
        /\ (\A n \in 1..Heard : Good(n)) =>
              \/ Heard = 0 /\ result = "OK"
              \/ \E n \in 1..Heard : \E m \in MadeOf(n) : m.result = result

ReturnsInv == at \in {"destroy", "returned"} => ReturnsForLines

RecordsInv == ArgumentsInv /\ MadeInv /\ ReturnsInv

\* No more lines are delivered than the text has.
LEMMA DeliveredAreThere ==
    ASSUME TextInv, OutputsInv, LinesInv
    PROVE  /\ Len(delivered) \in Nat /\ LineCount(text) \in Nat
           /\ Len(delivered) <= LineCount(text)
           /\ EndsBy(text, Len(consumed)) \in Nat
<1> DEFINE m == Len(consumed)
           d == Len(delivered)
<1>1. /\ text \in Seq(Input) /\ Len(text) \in Nat /\ d \in Nat
      /\ m = 0 \/ m \in 1..Len(text)
      /\ EndsBy(text, m) = d + (IF InLine THEN 1 ELSE 0)
  BY DEF TextInv, Clean, OutputsInv, LinesInv, Protocol!Ends
<1> HIDE DEF m, d
<1>2. m \in Nat /\ m <= Len(text)
  BY <1>1
<1>3. /\ EndsBy(text, m) \in Nat /\ EndsBy(text, Len(text)) \in Nat
      /\ EndsBy(text, m) <= EndsBy(text, Len(text))
  BY <1>1, <1>2, EndsByGrows
<1>4. EndsBy(text, Len(text)) = LineCount(text)
  BY <1>1, EndsByBounds
<1> QED BY <1>1, <1>3, <1>4 DEF m, d

\* In the callback the last line delivered is the next one to be heard.
LEMMA NextHeard ==
    ASSUME ExecInv, StreamOfExec, pc = "callback"
    PROVE  LET k == Len(delivered)
           IN /\ at = "push" /\ ~failed /\ LinesInv
              /\ k \in 1..LineCount(text) /\ Heard = k - 1 /\ k \in Nat
              /\ Last(delivered) = delivered[k]
              /\ delivered[k].line = LineOf(text, k)
              /\ delivered[k].output.kind = Verdict(LineOf(text, k))
<1>1. at = "push"
  BY DEF ExecInv, CommandInv
<1>2. ~failed /\ LinesInv
  BY <1>1, BoundsAssumption
     DEF StreamOfExec, PushedInv, ExecInv, ParserInv, CallsInv
<1>3. /\ Len(delivered) \in Nat /\ LineCount(text) \in Nat
      /\ Len(delivered) <= LineCount(text) /\ Len(delivered) # 0
  BY <1>2, DeliveredAreThere DEF ExecInv, StreamOfExec, LinesInv
<1>4. Len(delivered) \in 1..LineCount(text)
      /\ Len(delivered) \in 1..Len(delivered)
  BY <1>3
<1> QED BY <1>1, <1>2, <1>3, <1>4 DEF LinesInv, Heard, Last

\* While the parser runs nothing is heard.
LEMMA ParserRunsHears ==
    ASSUME ExecInv, StreamOfExec, ParserRuns
    PROVE  /\ Heard' = Heard /\ ~failed /\ LinesInv
           /\ \A n \in 1..Heard : delivered'[n] = delivered[n]
<1>1. at = "push" /\ Library
  BY DEF ParserRuns
<1>2. pc \in {"next_line", "lex", "push", "check"}
  BY <1>1 DEF Library, GetNextLine, NoMoreLines, LineNotCopied, LexToken,
     SkipBlank, ParseToken, EndOfLine, Deliver, FailLine
<1>3. calls = 1 /\ ~failed /\ LinesInv
  BY <1>1, <1>2, BoundsAssumption
     DEF StreamOfExec, PushedInv, ExecInv, ParserInv, CallsInv
<1>4. delivered \in Seq([output : Outputs \ {NoOutput}, line : Seq(Input)])
      /\ Len(delivered) \in Nat
  BY DEF StreamOfExec, OutputsInv
<1>5. CASE Deliver
  <2> DEFINE r == [output |-> output, line |-> line]
  <2>1. delivered' = Append(delivered, r) /\ pc' = "callback"
    BY <1>5 DEF Deliver
  <2> HIDE DEF r
  <2>2. Len(delivered') = Len(delivered) + 1
        /\ \A n \in 1..Len(delivered) : delivered'[n] = delivered[n]
    BY <1>4, <2>1
  <2>3. Heard = Len(delivered) /\ Heard' = Len(delivered)
    BY <1>2, <1>4, <2>1, <2>2 DEF Heard
  <2> QED BY <1>3, <2>2, <2>3
<1>6. CASE ~Deliver
  <2>1. delivered' = delivered /\ pc' # "callback"
    BY <1>1, <1>3, <1>6 DEF Library, GetNextLine, NoMoreLines, LineNotCopied,
       LexToken, SkipBlank, ParseToken, EndOfLine, FailLine, Return
  <2> QED BY <1>2, <1>3, <2>1 DEF Heard
<1> QED BY <1>5, <1>6

\* What the records of the text's lines can make.
LEMMA MadeOfLines ==
    ASSUME ArgumentsInv, NEW n \in ResultLines(text)
    PROVE  \A m \in MadeOf(n) :
              /\ m.result \in {"OK", "ASSERT", "LOGIC", "NOMEM"}
              /\ m.made <=> m.result = "OK"
<1>1. RecordOf(LineOf(text, n)) \in Records
  BY DEF ArgumentsInv, Records
<1> QED BY <1>1, MakesAssumption DEF ArgumentsInv, MadeOf

LEMMA MadeSame ==
    ASSUME MadeInv, ~failed,
           UNCHANGED <<text, kind, at, result, mi_command>>, Heard' = Heard
    PROVE  MadeInv'
BY DEF MadeInv, Good, MadeOf, ResultLines, LineOf

LEMMA OnOutputMakes ==
    ASSUME ExecInv, StreamOfExec, ArgumentsInv, MadeInv, OnOutput
    PROVE  MadeInv'
<1> DEFINE k == Len(delivered)
           h == Heard
<1>1. /\ pc = "callback" /\ pc' = "next_line"
      /\ UNCHANGED <<delivered, failed, text, kind, at>>
  BY DEF OnOutput, CallbackReturns
<1>2. /\ at = "push" /\ ~failed /\ k \in 1..LineCount(text) /\ k \in Nat
      /\ h = k - 1 /\ Last(delivered) = delivered[k]
      /\ delivered[k].line = LineOf(text, k)
      /\ delivered[k].output.kind = Verdict(LineOf(text, k))
  BY <1>1, NextHeard
<1>3. Heard' = k
  BY <1>1, <1>2 DEF Heard
<1>4. \A n : Good(n)' <=> Good(n)
  BY <1>1 DEF Good, MadeOf, ResultLines, LineOf
<1>5. \A n : MadeOf(n)' = MadeOf(n)
  BY <1>1 DEF MadeOf, LineOf
<1>6. /\ result = "OK" => /\ \A n \in 1..h : Good(n)
                          /\ mi_command # NULL <=> h # 0
      /\ (\A n \in 1..h : Good(n)) =>
            \/ h = 0 /\ result = "OK"
            \/ \E n \in 1..h : \E m \in MadeOf(n) : m.result = result
  BY <1>2 DEF MadeInv
<1> SUFFICES
      /\ result' = "OK" => /\ \A n \in 1..k : Good(n)
                           /\ mi_command' # NULL
      /\ (\A n \in 1..k : Good(n)) =>
            \E n \in 1..k : \E m \in MadeOf(n) : m.result = result'
  <2>1. k # 0
    BY <1>2
  <2> HIDE DEF k
  <2> QED BY <1>3, <1>4, <1>5, <2>1 DEF MadeInv, NULL
<1> HIDE DEF k, h
<1>7. k \in 1..k /\ \A n \in 1..h : n \in 1..k
  BY <1>2
<1>8. \A n \in 1..k : n = k \/ n \in 1..h
  BY <1>2
<1>9. CASE Verdict(LineOf(text, k)) # "RESULT"
  <2>1. result' = "LOGIC"
    BY <1>2, <1>9 DEF OnOutput
  <2>2. ~Good(k)
    BY <1>9 DEF Good, ResultLines
  <2> QED BY <1>7, <2>1, <2>2
<1>10. CASE Verdict(LineOf(text, k)) = "RESULT"
  <2>1. k \in ResultLines(text)
    BY <1>2, <1>10 DEF ResultLines
  <2>2. CASE result = "OK"
    <3>1. GetCommand(RecordOf(LineOf(text, k)))
      BY <1>2, <1>10, <2>2 DEF OnOutput
    <3>2. PICK m \in MadeOf(k) :
            /\ result' = m.result
            /\ m.made => mi_command' = made + 1
      BY <3>1 DEF GetCommand, MadeOf
    <3>3. m.made <=> m.result = "OK"
      BY <2>1, MadeOfLines
    <3>4. made + 1 # NULL
      BY DEF ExecInv, CommandInv, NULL
    <3>5. result' = "OK" => mi_command' # NULL /\ Good(k)
      BY <2>1, <3>2, <3>3, <3>4 DEF Good
    <3>6. \A n \in 1..h : Good(n)
      BY <1>6, <2>2
    <3> QED BY <1>7, <1>8, <3>2, <3>5, <3>6
  <2>3. CASE result # "OK"
    <3>1. result' = result
      BY <1>2, <1>10, <2>3 DEF OnOutput
    <3> QED BY <1>6, <1>7, <2>3, <3>1
  <2> QED BY <2>2, <2>3
<1> QED BY <1>9, <1>10

\* A push that succeeds has heard all lines of the text.
LEMMA AllHeard ==
    ASSUME ExecInv, StreamOfExec, at = "push", calls = 0, ~failed
    PROVE  /\ Heard = LineCount(text) /\ LineCount(text) \in Nat
           /\ Len(delivered) = Heard /\ pc = "idle" /\ LinesInv
<1>1. /\ LinesInv /\ pc \notin {"broken", "crashed", "destroyed"}
      /\ pc = "idle"
  BY DEF StreamOfExec, PushedInv, ExecInv, ParserInv, CallsInv
<1>2. /\ text \in Seq(Input) /\ consumed \in Seq(Input) /\ buffer \in Seq(Input)
      /\ consumed \o buffer = text /\ ~HasNewline(buffer)
  BY <1>1 DEF ExecInv, ParserInv, BufferInv, Gone, LinesInv, TextInv, Clean
<1>3. EndsBy(text, Len(consumed)) = LineCount(text)
  BY <1>2, NoEndIsLeft
<1>4. ~InLine /\ pc # "callback"
  BY <1>1 DEF InLine
<1>5. Len(delivered) \in Nat /\ LineCount(text) \in Nat
  BY <1>1, DeliveredAreThere DEF ExecInv, StreamOfExec
<1>6. LineCount(text) = Len(delivered)
  BY <1>1, <1>3, <1>4, <1>5 DEF LinesInv
<1> QED BY <1>1, <1>4, <1>5, <1>6 DEF Heard

LEMMA ReturnsStep ==
    ASSUME ExecInv, StreamOfExec, RecordsInv, [ExecNext]_allVars
    PROVE  ReturnsInv'
<1> USE DEF ExecInv, RecordsInv
<1>1. text' = text /\ kind' = kind
  BY DEF ExecNext, ExecStep, Create, CreateFails, PushText, ParserRuns,
     OnOutput, PushFailed, PushSucceeded, Returning, DestroyWire, Done,
     allVars, execVars
<1>2. /\ AllGood' <=> AllGood
      /\ \A n : MadeOf(n)' = MadeOf(n)
      /\ LineCount(text)' = LineCount(text)
  BY <1>1 DEF AllGood, Good, MadeOf, ResultLines, LineOf, LineCount
<1>3. CASE CreateFails
  <2>1. returned'.result = "ASSERT" /\ faults' = faults + 1 /\ faults \in Nat
    BY <1>3 DEF CreateFails, ParserInv, CallsInv
  <2> QED BY <2>1 DEF ReturnsInv, ReturnsForLines
<1>4. CASE PushFailed
  <2>1. returned'.result = "ASSERT" /\ failed'
    BY <1>4 DEF PushFailed, Returning, vars, parserVars
  <2> QED BY <2>1 DEF ReturnsInv, ReturnsForLines
<1>5. CASE PushSucceeded
  <2>1. at = "push" /\ ~failed /\ Heard = LineCount(text)
        /\ LineCount(text) \in Nat
    BY <1>5, AllHeard DEF PushSucceeded
  <2>2. /\ result = "OK" =>
              /\ \A n \in 1..LineCount(text) : Good(n)
              /\ mi_command # NULL <=> LineCount(text) # 0
        /\ (\A n \in 1..LineCount(text) : Good(n)) =>
              \/ LineCount(text) = 0 /\ result = "OK"
              \/ \E n \in 1..LineCount(text) : \E m \in MadeOf(n) :
                    m.result = result
    BY <2>1 DEF MadeInv
  <2>3. returned'.result = IF result = "OK" /\ mi_command = NULL THEN "LOGIC"
                           ELSE result
    BY <1>5 DEF PushSucceeded, Returning
  <2>4. returned'.result = "OK" => AllGood
    BY <2>2, <2>3 DEF AllGood
  <2>5. AllGood => returned'.result = result
                   /\ \E n \in 1..LineCount(text) : \E m \in MadeOf(n) :
                         m.result = result
    BY <2>2, <2>3 DEF AllGood
  <2> QED BY <1>2, <2>4, <2>5 DEF ReturnsInv, ReturnsForLines
<1>6. CASE Create \/ PushText \/ ParserRuns \/ OnOutput
  <2>1. at' \in {"create", "ready", "push"}
    BY <1>6 DEF Create, PushText, ParserRuns, OnOutput, CallbackReturns,
       execVars, CommandInv
  <2> QED BY <2>1 DEF ReturnsInv
<1>7. CASE DestroyWire \/ Done \/ UNCHANGED allVars
  <2>1. /\ at' \in {"destroy", "returned"} => at \in {"destroy", "returned"}
        /\ UNCHANGED <<returned, faults, failed>>
    BY <1>7 DEF DestroyWire, Destroy, Done, allVars, execVars, vars, parserVars
  <2> QED BY <1>2, <2>1 DEF ReturnsInv, ReturnsForLines
<1> QED BY <1>3, <1>4, <1>5, <1>6, <1>7 DEF ExecNext, ExecStep

LEMMA RecordsStep ==
    ExecInv /\ StreamOfExec /\ RecordsInv /\ [ExecNext]_allVars => RecordsInv'
<1> SUFFICES ASSUME ExecInv, StreamOfExec, RecordsInv, [ExecNext]_allVars
             PROVE  RecordsInv'
  OBVIOUS
<1>1. ArgumentsInv'
  BY DEF RecordsInv, ArgumentsInv, ExecNext, ExecStep, Create, CreateFails,
     PushText, ParserRuns, OnOutput, PushFailed, PushSucceeded, Returning,
     DestroyWire, Done, allVars, execVars
<1>2. ReturnsInv'
  BY ReturnsStep
<1>3. CASE Create \/ CreateFails \/ PushFailed \/ PushSucceeded \/ DestroyWire
  <2>1. at' # "push"
    BY <1>3 DEF Create, CreateFails, PushFailed, PushSucceeded, Returning,
       DestroyWire
  <2> QED BY <1>1, <1>2, <2>1 DEF RecordsInv, MadeInv
<1>4. CASE PushText
  <2>1. /\ result = "OK" /\ mi_command = NULL /\ delivered = << >>
        /\ UNCHANGED <<result, mi_command, delivered>> /\ pc' # "callback"
    BY <1>4 DEF PushText, PushData, PushNotStored, StreamOfExec, FreshInv
  <2>2. Heard' = 0
    BY <2>1 DEF Heard
  <2> QED BY <1>1, <1>2, <2>1, <2>2 DEF RecordsInv, MadeInv
<1>5. CASE ParserRuns
  <2>1. Heard' = Heard /\ ~failed
    BY <1>5, ParserRunsHears
  <2>2. UNCHANGED <<text, kind, at, result, mi_command>>
    BY <1>5 DEF ParserRuns, execVars
  <2>3. MadeInv'
    BY <2>1, <2>2, MadeSame DEF RecordsInv
  <2> QED BY <1>1, <1>2, <2>3 DEF RecordsInv
<1>6. CASE OnOutput
  BY <1>1, <1>2, <1>6, OnOutputMakes DEF RecordsInv
<1>7. CASE Done \/ UNCHANGED allVars
  <2>1. UNCHANGED <<text, kind, at, result, mi_command, failed, delivered, pc>>
    BY <1>7 DEF Done, allVars, execVars, vars, parserVars
  <2>2. Heard' = Heard
    BY <2>1 DEF Heard
  <2>3. failed' = failed
    BY <2>1
  <2>4. MadeInv'
    BY <2>1, <2>2, <2>3, MadeSame DEF RecordsInv, MadeInv
  <2> QED BY <1>1, <1>2, <2>4 DEF RecordsInv
<1> QED BY <1>3, <1>4, <1>5, <1>6, <1>7 DEF ExecNext, ExecStep

LEMMA RecordsInit == ExecInit => RecordsInv
BY DEF ExecInit, RecordsInv, ArgumentsInv, MadeInv, ReturnsInv

LEMMA ExecOverLines ==
    ASSUME EveryColumn, VerdictIsOutcome
    PROVE  ExecSpec => [](ExecInv /\ StreamOfExec /\ RecordsInv)
<1>1. ExecSpec => []ExecInv
  BY ExecInvariance
<1>2. ExecInv => CleanLinesStandAlone
  BY OutcomeOfLine DEF ExecInv, ParserInv
<1> QED BY <1>1, <1>2, StreamOfExecInit, StreamOfExecStep, RecordsInit,
           RecordsStep, PTL DEF ExecSpec

\* A command is returned exactly for the texts whose complete lines are all
\* result records that the command can be made of, as far as the memory and the
\* parser's stack reach: what gdbwire_interpreter_exec gathers in its context,
\* one callback at a time, comes to that, whatever the text.
THEOREM CommandOfRecordsOnly ==
    ASSUME EveryColumn, VerdictIsOutcome
    PROVE  ExecSpec => []OkIffOnlyRecords
<1>1. RecordsInv => OkIffOnlyRecords
  BY DEF RecordsInv, ReturnsInv, OkIffOnlyRecords
<1> QED BY <1>1, ExecOverLines, PTL

-----------------------------------------------------------------------------
(* The call implements the abstract one.                                   *)

\* The rest of a sequence begins with its next element.
LEMMA RestOf ==
    ASSUME NEW S, NEW s \in Seq(S), NEW h \in Nat
    PROVE  /\ h = Len(s) => SubSeq(s, h + 1, Len(s)) = << >>
           /\ h = 0 => SubSeq(s, h + 1, Len(s)) = s
           /\ h < Len(s) =>
                 /\ SubSeq(s, h + 1, Len(s)) # << >>
                 /\ Head(SubSeq(s, h + 1, Len(s))) = s[h + 1]
                 /\ Tail(SubSeq(s, h + 1, Len(s)))
                       = SubSeq(s, (h + 1) + 1, Len(s))
<1> DEFINE n == Len(s)
           x == SubSeq(s, h + 1, n)
<1>1. n \in Nat
  OBVIOUS
<1>2. h = n => x = << >>
  OBVIOUS
<1>3. h = 0 => x = s
  OBVIOUS
<1>4. ASSUME h < n
      PROVE  /\ x # << >> /\ Head(x) = s[h + 1]
             /\ Tail(x) = SubSeq(s, (h + 1) + 1, n)
  <2>1. /\ x \in Seq(S) /\ Len(x) = n - h
        /\ \A i \in 1..(n - h) : x[i] = s[(h + 1) + i - 1]
    BY <1>1, <1>4
  <2> DEFINE t == Tail(x)
             u == SubSeq(s, (h + 1) + 1, n)
  <2>2. /\ u \in Seq(S) /\ Len(u) = (n - h) - 1
        /\ \A i \in 1..((n - h) - 1) : u[i] = s[((h + 1) + 1) + i - 1]
    BY <1>1, <1>4
  <2> HIDE DEF x, u
  <2>3. x # << >> /\ Head(x) = s[h + 1]
    BY <1>1, <1>4, <2>1
  <2>4. /\ t \in Seq(S) /\ Len(t) = (n - h) - 1
        /\ \A i \in 1..((n - h) - 1) : t[i] = x[i + 1]
    BY <1>1, <1>4, <2>1, <2>3
  <2> HIDE DEF t, n
  <2>5. ASSUME NEW i \in 1..((n - h) - 1) PROVE t[i] = u[i]
    <3>1. i + 1 \in 1..(n - h)
      BY <1>1, <1>4
    <3>2. (h + 1) + (i + 1) - 1 = ((h + 1) + 1) + i - 1
      BY <1>1
    <3> QED BY <2>1, <2>2, <2>4, <3>1, <3>2
  <2>6. t = u
    BY <2>2, <2>4, <2>5, SeqEqual
  <2> QED BY <2>3, <2>6 DEF t, u, x, n
<1> HIDE DEF n
<1> QED BY <1>2, <1>3, <1>4 DEF x, n

\* What the callbacks are told of the text, line by line.
LEMMA ToldText ==
    ASSUME TextInv, ArgumentsInv
    PROVE  LET s == ToldBy[text]
           IN /\ s \in ToldTexts /\ Len(s) = LineCount(text)
              /\ LineCount(text) \in Nat /\ LineCount(text) <= MaxLines
              /\ s \in Seq({s[n] : n \in 1..LineCount(text)})
              /\ \A n \in 1..LineCount(text) :
                    s[n] = Told(Verdict(LineOf(text, n)), LineOf(text, n))
<1> DEFINE s == ToldBy[text]
           c == LineCount(text)
<1>1. text \in Texts
  BY DEF ArgumentsInv
<1>2. text \in Seq(Input) /\ Len(text) \in Nat
  BY DEF TextInv, Clean
<1>3. c \in Nat
  <2>1. EndsBy(text, Len(text)) \in Nat
    BY <1>2, EndsByGrows
  <2> QED BY <1>2, <2>1, EndsByBounds
<1>4. c <= MaxLines
  BY <1>1, MaxLinesAssumption
<1>5. s = [n \in 1..c |-> Told(Verdict(LineOf(text, n)), LineOf(text, n))]
  BY <1>1 DEF ToldBy
<1>6. s \in ToldTexts
  BY <1>1 DEF ToldTexts
<1> HIDE DEF s, c
<1>7. \A n \in 1..c : s[n] = Told(Verdict(LineOf(text, n)), LineOf(text, n))
  BY <1>5
<1>8. s \in [1..c -> {s[n] : n \in 1..c}]
  BY <1>5
<1>9. s \in Seq({s[n] : n \in 1..c}) /\ Len(s) = c
  BY <1>3, <1>8
<1> QED BY <1>3, <1>4, <1>6, <1>7, <1>9 DEF s, c

\* A line is told to the callback its output has.
LEMMA OutputKinds ==
    ASSUME NEW o \in Outputs \ {NoOutput}
    PROVE  o.kind \in {"OOB", "RESULT", "PROMPT", "PARSE_ERROR"}
BY DEF Outputs, NoOutput, Kinds

LEMMA ToldUnexpected ==
    ASSUME NEW l, NEW v \in {"OOB", "PROMPT", "PARSE_ERROR"}
    PROVE  Told(v, l) \in Exec!Unexpected
BY DEF Told, Exec!Unexpected

LEMMA ToldRecord == \A l : Told("RESULT", l) = RecordOf(l)
BY DEF Told

LEMMA HeardSame ==
    ASSUME Heard' = Heard, \A n \in 1..Heard : delivered'[n] = delivered[n]
    PROVE  HeardOutputs' = HeardOutputs
BY DEF HeardOutputs

LEMMA ToldSame == text' = text => ToldBy[text]' = ToldBy[text]
BY DEF ToldBy, LineCount, LineOf

LEMMA UnreadSame ==
    ASSUME text' = text, Heard' = Heard, at' = "create" <=> at = "create"
    PROVE  UnreadOutputs' = UnreadOutputs
BY ToldSame DEF UnreadOutputs

\* Where nothing is heard and nothing returned, the abstract call stands still.
LEMMA Stutters ==
    ASSUME UNCHANGED <<text, kind, result, mi_command, returned, made, live>>,
           Heard' = Heard, \A n \in 1..Heard : delivered'[n] = delivered[n],
           at' = "create" <=> at = "create",
           Pushing' = Pushing, PushResult' = PushResult
    PROVE  UNCHANGED Exec!vars
<1>1. UNCHANGED <<HeardOutputs, UnreadOutputs>>
  BY HeardSame, UnreadSame
<1>2. Held' = Held
  BY DEF Held
<1> QED BY <1>1, <1>2 DEF Exec!vars

\* With the last part made, or without the part that cannot be, the front end's
\* call has begun.
LEMMA CreateCalls ==
    ASSUME TextInv, ArgumentsInv, FreshInv, CallsInv, Create \/ CreateFails
    PROVE  \/ \E k \in AskedKinds, t \in ToldTexts : Exec!Call(k, t)
           \/ UNCHANGED Exec!vars
<1>1. /\ at = "create" /\ pc = "idle" /\ ~failed /\ delivered = << >>
      /\ result = "OK" /\ mi_command = NULL /\ made = 0 /\ live = {}
      /\ returned = [result |-> "LOGIC", out |-> NULL]
      /\ UNCHANGED <<text, kind, pc, failed, delivered, result, mi_command,
                     made, live>>
  BY DEF FreshInv, Create, CreateFails, vars, parserVars
<1>2. Heard = 0 /\ Heard' = 0
  BY <1>1 DEF Heard
<1>3. /\ HeardOutputs = << >> /\ HeardOutputs' = << >>
      /\ UnreadOutputs = << >> /\ Held = {}
      /\ Pushing = "idle" /\ PushResult = "OK"
  BY <1>1, <1>2 DEF HeardOutputs, UnreadOutputs, Held, Pushing, PushResult, NULL
<1>4. kind \in AskedKinds /\ ToldBy[text] \in ToldTexts
  BY ToldText DEF ArgumentsInv
<1>5. made + Len(ToldBy[text]) <= MaxLines
  BY <1>1, ToldText
<1>6. at' # "create" => UnreadOutputs' = ToldBy[text]
  <2>1. SubSeq(ToldBy[text], 0 + 1, Len(ToldBy[text])) = ToldBy[text]
    BY ToldText, RestOf
  <2> QED BY <1>1, <1>2, <2>1, ToldSame DEF UnreadOutputs
<1>7. CASE Create
  <2>1. returned' = returned /\ at' \in {"create", "ready"}
    BY <1>7 DEF Create
  <2>2. PushResult' = "OK" /\ Held' = Held
    BY <1>1, <2>1 DEF PushResult, Held
  <2>3. CASE at' = "create"
    <3>1. Pushing' = Pushing
      BY <1>1, <2>3 DEF Pushing
    <3> QED BY <1>1, <1>2, <1>3, <2>1, <2>2, <2>3, <3>1, Stutters
  <2>4. CASE at' = "ready"
    <3>1. Pushing' = "push" /\ UnreadOutputs' = ToldBy[text]
      BY <1>6, <2>4 DEF Pushing
    <3>2. Exec!Call(kind, ToldBy[text])
      BY <1>1, <1>3, <1>5, <2>1, <2>2, <3>1 DEF Exec!Call, Exec!NULL, NULL
    <3> QED BY <1>4, <3>2
  <2> QED BY <2>1, <2>3, <2>4
<1>8. CASE CreateFails
  <2>1. at' = "returned" /\ returned' = [result |-> "ASSERT", out |-> NULL]
    BY <1>8 DEF CreateFails
  <2>2. /\ Pushing' = "idle" /\ PushResult' = "ASSERT" /\ Held' = {}
        /\ UnreadOutputs' = ToldBy[text]
    BY <1>1, <1>6, <2>1 DEF Pushing, PushResult, Held
  <2>3. Exec!Call(kind, ToldBy[text])
    BY <1>1, <1>3, <1>5, <2>1, <2>2 DEF Exec!Call, Exec!NULL, NULL
  <2> QED BY <1>4, <2>3
<1> QED BY <1>7, <1>8

\* A callback hears the next output of the text.
LEMMA OnOutputHears ==
    ASSUME ExecInv, StreamOfExec, ArgumentsInv, OnOutput
    PROVE  Exec!UnexpectedRecord \/ Exec!ResultOfRecord
<1> DEFINE k == Len(delivered)
           s == ToldBy[text]
           v == Verdict(LineOf(text, k))
<1>1. /\ pc = "callback" /\ pc' = "next_line"
      /\ UNCHANGED <<delivered, failed, text, kind, at, returned>>
  BY DEF OnOutput, CallbackReturns
<1>2. /\ at = "push" /\ ~failed /\ k \in 1..LineCount(text) /\ k \in Nat
      /\ Heard = k - 1 /\ Last(delivered) = delivered[k]
      /\ delivered[k].line = LineOf(text, k)
      /\ delivered[k].output.kind = v
  BY <1>1, NextHeard
<1>3. Heard' = k
  BY <1>1, <1>2 DEF Heard
<1>4. /\ Len(s) = LineCount(text) /\ Len(s) \in Nat
      /\ s \in Seq({s[n] : n \in 1..LineCount(text)})
      /\ s[k] = Told(v, LineOf(text, k))
  BY <1>2, ToldText DEF ExecInv
<1>5. v \in {"OOB", "RESULT", "PROMPT", "PARSE_ERROR"}
  <2>1. k \in 1..Len(delivered)
    BY <1>2
  <2>2. delivered[k].output \in Outputs \ {NoOutput}
    <3>1. delivered
            \in Seq([output : Outputs \ {NoOutput}, line : Seq(Input)])
      BY DEF StreamOfExec, OutputsInv
    <3>2. \A S : delivered \in Seq(S) => delivered[k] \in S
      BY <2>1
    <3>3. delivered[k] \in [output : Outputs \ {NoOutput}, line : Seq(Input)]
      BY <3>1, <3>2, Zenon
    <3> QED BY <3>3
  <2> QED BY <1>2, <2>2, OutputKinds
<1> HIDE DEF k, s
<1>6. /\ UnreadOutputs = SubSeq(s, (k - 1) + 1, Len(s))
      /\ UnreadOutputs' = SubSeq(s, k + 1, Len(s))
  BY <1>1, <1>2, <1>3, ToldSame DEF UnreadOutputs, s
<1>7. /\ UnreadOutputs # << >> /\ Head(UnreadOutputs) = s[k]
      /\ UnreadOutputs' = Tail(UnreadOutputs)
  <2> DEFINE h == k - 1
  <2>1. h \in Nat /\ h < Len(s) /\ h + 1 = k
    BY <1>2, <1>4
  <2>2. /\ SubSeq(s, h + 1, Len(s)) # << >>
        /\ Head(SubSeq(s, h + 1, Len(s))) = s[h + 1]
        /\ Tail(SubSeq(s, h + 1, Len(s))) = SubSeq(s, (h + 1) + 1, Len(s))
    <3> HIDE DEF h
    <3> QED BY <1>4, <2>1, RestOf
  <2> QED BY <1>6, <2>1, <2>2
<1>8. HeardOutputs' = Append(HeardOutputs, s[k])
  <2> DEFINE f == [n \in 1..(k - 1) |->
                     Told(delivered[n].output.kind, delivered[n].line)]
             g == [n \in 1..k |->
                     Told(delivered[n].output.kind, delivered[n].line)]
  <2>1. HeardOutputs = f /\ HeardOutputs' = g
    BY <1>1, <1>2, <1>3 DEF HeardOutputs
  <2>2. g[k] = s[k]
    BY <1>2, <1>4
  <2>3. Append(f, s[k]) = g
    <3>1. Len(f) = k - 1 /\ DOMAIN f = 1..(k - 1)
      BY <1>2
    <3>2. /\ DOMAIN Append(f, s[k]) = 1..k
          /\ Append(f, s[k])[k] = s[k]
          /\ \A n \in 1..(k - 1) : Append(f, s[k])[n] = f[n]
      BY <1>2, <3>1
    <3>3. \A n \in 1..k : Append(f, s[k])[n] = g[n]
      BY <1>2, <2>2, <3>2
    <3>4. Append(f, s[k]) = [n \in 1..k |-> Append(f, s[k])[n]]
      BY <1>2, <3>1
    <3> QED BY <3>3, <3>4
  <2> QED BY <2>1, <2>3
<1>9. /\ Pushing = "push" /\ Pushing' = "push" /\ PushResult' = PushResult
      /\ Held' = Held
  BY <1>1, <1>2 DEF Pushing, PushResult, Held
<1>10. Exec!Hears
  BY <1>7, <1>8, <1>9 DEF Exec!Hears
<1>11. CASE v # "RESULT"
  <2>1. s[k] \in Exec!Unexpected
    BY <1>4, <1>5, <1>11, ToldUnexpected
  <2>2. result' = "LOGIC" /\ UNCHANGED <<mi_command, made, live>>
    BY <1>2, <1>11 DEF OnOutput
  <2>3. Exec!UnexpectedRecord
    BY <1>1, <1>7, <1>9, <1>10, <2>1, <2>2 DEF Exec!UnexpectedRecord
  <2> QED BY <2>3
<1>12. CASE v = "RESULT"
  <2>1. s[k] = RecordOf(LineOf(text, k))
    BY <1>4, <1>12, ToldRecord
  <2>2. s[k] \in Records
    BY <1>2, <1>12, <2>1 DEF ArgumentsInv, Records, ResultLines
  <2>3. IF result = "OK" THEN GetCommand(s[k])
        ELSE UNCHANGED <<result, mi_command, made, live>>
    BY <1>2, <1>12, <2>1 DEF OnOutput
  <2>4. IF result = "OK" THEN Exec!GetCommand(s[k])
        ELSE UNCHANGED <<result, mi_command, made, live>>
    BY <2>3 DEF GetCommand, Exec!GetCommand, Exec!NULL, NULL
  <2>5. Exec!ResultOfRecord
    BY <1>1, <1>7, <1>9, <1>10, <2>2, <2>4 DEF Exec!ResultOfRecord
  <2> QED BY <2>5
<1> QED BY <1>11, <1>12

LEMMA PushReturnsAbstract ==
    ASSUME ExecInv, StreamOfExec, RecordsInv, PushFailed \/ PushSucceeded
    PROVE  Exec!PushFails \/ Exec!PushSucceeds
<1>1. /\ at = "push" /\ at' = "destroy" /\ calls = 0
      /\ UNCHANGED <<vars, text, kind, result, mi_command, made>>
      /\ returned = [result |-> "LOGIC", out |-> NULL]
  BY DEF PushFailed, PushSucceeded, Returning, StreamOfExec, PushedInv
<1>2. Heard' = Heard /\ delivered' = delivered /\ failed' = failed
  BY <1>1 DEF Heard, vars, parserVars
<1>3. UNCHANGED <<HeardOutputs, UnreadOutputs>>
  BY <1>1, <1>2, HeardSame, UnreadSame
<1>4. /\ Pushing = "push" /\ Pushing' = "idle"
      /\ PushResult' = IF failed THEN "ASSERT" ELSE "OK"
      /\ Held = {} /\ Held' = {returned'.out} \ {NULL}
  BY <1>1, <1>2 DEF Pushing, PushResult, Held
<1>5. ASSUME NEW r, NEW out, returned' = [result |-> r, out |-> out]
      PROVE  Exec!Return(r, out)
  <2>1. Held' = Held \cup ({out} \ {NULL})
    BY <1>4, <1>5
  <2> QED BY <1>1, <1>3, <1>4, <1>5, <2>1 DEF Exec!Return, Exec!NULL, NULL
<1>6. CASE PushFailed
  <2>1. /\ failed /\ live' = live
        /\ returned' = [result |-> "ASSERT", out |-> NULL]
    BY <1>6 DEF PushFailed, Returning
  <2>2. Exec!Return("ASSERT", 0)
    BY <1>5, <2>1 DEF NULL
  <2> QED BY <1>4, <2>1, <2>2 DEF Exec!PushFails, Exec!NULL
<1>7. CASE PushSucceeded
  <2>1. ~failed
    BY <1>7 DEF PushSucceeded
  <2>2. UnreadOutputs = << >>
    <3>1. Heard = LineCount(text) /\ LineCount(text) \in Nat
      BY <1>1, <2>1, AllHeard
    <3>2. /\ ToldBy[text] \in Seq({ToldBy[text][n] : n \in 1..LineCount(text)})
          /\ Len(ToldBy[text]) = LineCount(text)
      BY ToldText DEF ExecInv, RecordsInv
    <3>3. SubSeq(ToldBy[text], Heard + 1, Len(ToldBy[text])) = << >>
      BY <3>1, <3>2, RestOf
    <3> QED BY <1>1, <3>3 DEF UnreadOutputs
  <2>3. CASE result = "OK" /\ mi_command = NULL
    <3>1. returned' = [result |-> "LOGIC", out |-> NULL] /\ live' = live
      BY <1>7, <2>3 DEF PushSucceeded, Returning
    <3>2. Exec!Return("LOGIC", 0)
      BY <1>5, <3>1 DEF NULL
    <3> QED BY <1>4, <2>1, <2>2, <2>3, <3>1, <3>2
            DEF Exec!PushSucceeds, Exec!NULL, NULL
  <2>4. CASE result # "OK" /\ mi_command # NULL
    <3>1. returned' = [result |-> result, out |-> NULL]
          /\ live' = live \ {mi_command}
      BY <1>7, <2>4 DEF PushSucceeded, Returning
    <3>2. Exec!Return(result, 0)
      BY <1>5, <3>1 DEF NULL
    <3> QED BY <1>4, <2>1, <2>2, <2>4, <3>1, <3>2
            DEF Exec!PushSucceeds, Exec!NULL, NULL
  <2>5. CASE /\ ~(result = "OK" /\ mi_command = NULL)
             /\ ~(result # "OK" /\ mi_command # NULL)
    <3>1. returned' = [result |-> result, out |-> mi_command] /\ live' = live
      BY <1>7, <2>5 DEF PushSucceeded, Returning
    <3>2. Exec!Return(result, mi_command)
      BY <1>5, <3>1
    <3> QED BY <1>4, <2>1, <2>2, <2>5, <3>1, <3>2
            DEF Exec!PushSucceeds, Exec!NULL, NULL
  <2> QED BY <2>3, <2>4, <2>5
<1> QED BY <1>6, <1>7

LEMMA ExecStepImplements ==
    ASSUME ExecInv, StreamOfExec, RecordsInv, [ExecNext]_allVars
    PROVE  [Exec!Next]_(Exec!vars)
<1>1. CASE Create \/ CreateFails
  BY <1>1, CreateCalls DEF ExecInv, StreamOfExec, RecordsInv, ParserInv,
     Exec!Next
<1>2. CASE OnOutput
  BY <1>2, OnOutputHears DEF RecordsInv, Exec!Next
<1>3. CASE PushFailed \/ PushSucceeded
  BY <1>3, PushReturnsAbstract DEF Exec!Next
<1>4. CASE PushText
  <2>1. /\ at = "ready" /\ at' = "push" /\ delivered = << >>
        /\ delivered' = delivered /\ pc = "idle" /\ pc' # "callback"
        /\ UNCHANGED <<text, kind, result, mi_command, returned, made, live>>
    BY <1>4 DEF PushText, PushData, PushNotStored, StreamOfExec, FreshInv
  <2>2. Heard = 0 /\ Heard' = 0
    BY <2>1 DEF Heard
  <2>3. Pushing' = Pushing /\ PushResult' = PushResult
    BY <2>1 DEF Pushing, PushResult
  <2> QED BY <2>1, <2>2, <2>3, Stutters
<1>5. CASE ParserRuns
  <2>1. /\ at = "push" /\ at' = "push"
        /\ UNCHANGED <<text, kind, result, mi_command, returned, made, live>>
    BY <1>5 DEF ParserRuns, execVars
  <2>2. Heard' = Heard /\ \A n \in 1..Heard : delivered'[n] = delivered[n]
    BY <1>5, ParserRunsHears
  <2>3. Pushing' = Pushing /\ PushResult' = PushResult
    BY <2>1 DEF Pushing, PushResult
  <2> QED BY <2>1, <2>2, <2>3, Stutters
<1>6. CASE DestroyWire
  <2>1. /\ at = "destroy" /\ at' = "returned"
        /\ pc \in {"idle", "broken"} /\ pc' = "destroyed"
        /\ UNCHANGED <<text, kind, result, mi_command, returned, made, live,
                       delivered, failed>>
    BY <1>6 DEF DestroyWire, Destroy
  <2>2. Heard' = Heard
    BY <2>1 DEF Heard
  <2>3. Pushing' = Pushing /\ PushResult' = PushResult
    BY <2>1 DEF Pushing, PushResult
  <2> QED BY <2>1, <2>2, <2>3, Stutters
<1>7. CASE Done \/ UNCHANGED allVars
  <2>1. UNCHANGED <<text, kind, at, result, mi_command, returned, made, live,
                    delivered, failed, pc>>
    BY <1>7 DEF Done, allVars, execVars, vars, parserVars
  <2>2. Heard' = Heard
    BY <2>1 DEF Heard
  <2>3. Pushing' = Pushing /\ PushResult' = PushResult
    BY <2>1 DEF Pushing, PushResult
  <2> QED BY <2>1, <2>2, <2>3, Stutters
<1> QED BY <1>1, <1>2, <1>3, <1>4, <1>5, <1>6, <1>7 DEF ExecNext, ExecStep

LEMMA ExecInitImplements == ExecInit => Exec!Init
<1> SUFFICES ASSUME ExecInit PROVE Exec!Init
  OBVIOUS
<1>1. /\ at = "create" /\ pc = "idle" /\ delivered = << >> /\ ~failed
      /\ kind \in AskedKinds /\ result = "OK" /\ mi_command = NULL
      /\ returned = [result |-> "LOGIC", out |-> NULL]
      /\ made = 0 /\ live = {}
  BY DEF ExecInit, Init
<1>2. Heard = 0
  BY <1>1 DEF Heard
<1>3. /\ HeardOutputs = << >> /\ UnreadOutputs = << >>
      /\ Pushing = "idle" /\ PushResult = "OK" /\ Held = {}
  BY <1>1, <1>2 DEF HeardOutputs, UnreadOutputs, Pushing, PushResult, Held, NULL
<1> QED BY <1>1, <1>3 DEF Exec!Init, Exec!NULL, NULL

\* gdbwire_interpreter_exec over the parser, with its buffer, tokens and stack,
\* and every allocation that may fail, is the call that Gdbwire describes: each
\* step of it is a step of that, or none.  What is proved of Gdbwire holds of
\* the code below it.
THEOREM ExecImplementsGdbwire ==
    ASSUME EveryColumn, VerdictIsOutcome
    PROVE  ExecSpec => ImplementsExec
<1>1. /\ ExecInv /\ StreamOfExec /\ RecordsInv /\ [ExecNext]_allVars
         => [Exec!Next]_(Exec!vars)
  BY ExecStepImplements
<1> QED BY <1>1, ExecInitImplements, ExecOverLines, PTL
        DEF ExecSpec, ImplementsExec, Exec!Spec
=============================================================================
