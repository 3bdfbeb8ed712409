----------------------- MODULE InterpreterExecProtocol -----------------------
(***************************************************************************)
(* gdbwire_interpreter_exec as its front end sees it: what the lines of    *)
(* the text stand for decides what it returns.  Gdbwire says how, with the *)
(* parser left out; here it is what the call over the parser implements.   *)
(***************************************************************************)
EXTENDS InterpreterExec, MiParserProtocol

CONSTANT MaxLines  \* bound: the lines of a text

LineCount(s) == Cardinality(Protocol!Ends(s))

\* The lines are complete ones: what follows the last newline is none.
LineOf(s, n) == Protocol!Line(s, n)

ASSUME MaxLinesAssumption ==
    MaxLines \in Nat /\ \A s \in Texts : LineCount(s) <= MaxLines

\* The lines of s that are result records.
ResultLines(s) == {n \in 1..LineCount(s) : Verdict(LineOf(s, n)) = "RESULT"}

Records ==
    UNION {{RecordOf(LineOf(s, n)) : n \in ResultLines(s)} : s \in Texts}

ASSUME MakesAssumption ==
    \A k \in AskedKinds, r \in Records : \A m \in Makes(k, r) :
        /\ m.result \in {"OK", "ASSERT", "LOGIC", "NOMEM"}
        /\ m.made <=> m.result = "OK"

\* The callback for a line's output, and its record.
Told(outputKind, l) ==
    CASE outputKind = "OOB" -> "stream_record"
      [] outputKind = "PROMPT" -> "prompt"
      [] outputKind = "PARSE_ERROR" -> "parse_error"
      [] outputKind = "RESULT" -> RecordOf(l)

\* What the callbacks are to be told of each text.
ToldBy ==
    [s \in Texts |->
        [n \in 1..LineCount(s) |-> Told(Verdict(LineOf(s, n)), LineOf(s, n))]]

ToldTexts == {ToldBy[s] : s \in Texts}

\* How many callbacks have returned.
Heard == Len(delivered) - (IF pc = "callback" THEN 1 ELSE 0)

HeardOutputs ==
    [n \in 1..Heard |-> Told(delivered[n].output.kind, delivered[n].line)]

UnreadOutputs ==
    IF at = "create" THEN << >>
    ELSE SubSeq(ToldBy[text], Heard + 1, Len(ToldBy[text]))

\* What gdbwire_push_data has returned; without a gdbwire nothing was pushed.
PushResult ==
    IF \/ at \in {"destroy", "returned"} /\ failed
       \/ at = "returned" /\ pc = "idle"
    THEN "ASSERT" ELSE "OK"

Pushing == IF at \in {"ready", "push"} THEN "push" ELSE "idle"

Held == {returned.out} \ {NULL}

Exec == INSTANCE Gdbwire WITH
    Kinds <- AskedKinds,
    Texts <- ToldTexts,
    MaxCommands <- MaxLines,
    pc <- Pushing,
    unread <- UnreadOutputs,
    heard <- HeardOutputs,
    push <- PushResult,
    held <- Held,
    lost <- {}

\* The call over the parser is the abstract one over its outputs: every line is
\* heard once, in order and for what it is by itself, and what is returned is
\* what was heard.
ImplementsExec == Exec!Spec

\* What gdbwire_get_mi_command can do with the record that line n is.
MadeOf(n) == Makes(kind, RecordOf(LineOf(text, n)))

\* Line n of the text is a result record that the command can be made of.
Good(n) == n \in ResultLines(text) /\ \E m \in MadeOf(n) : m.made

\* There is a complete line, and each of them makes a command.
AllGood == LineCount(text) # 0 /\ \A n \in 1..LineCount(text) : Good(n)

\* What is returned, if nothing but the lines decides.
ReturnsForLines ==
    /\ returned.result = "OK" => AllGood
    /\ AllGood /\ faults = 0 /\ ~failed =>
          \E n \in 1..LineCount(text) : \E m \in MadeOf(n) :
              m.result = returned.result

\* The text makes a command only if each of its complete lines is a result
\* record that the kind can be made of, and there is one; and if so, with
\* memory for the parser and no line too deep, what is returned is what
\* gdbwire_get_mi_command returned for one of them.  What follows the last
\* newline does not count.
OkIffOnlyRecords == at = "returned" => ReturnsForLines
=============================================================================
