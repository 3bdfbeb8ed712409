----------------------------- MODULE ByteString -----------------------------
(***************************************************************************)
(* What gdbwire_string.h promises: a sequence of bytes that can be added   *)
(* to, searched, cut and cleared.  Its memory, and how that grows, are no  *)
(* part of it; a call that wants more of it takes its time and may fail.   *)
(***************************************************************************)
EXTENDS Integers, Sequences

CONSTANTS
    Texts,      \* what is appended
    Positions,  \* where an erase begins
    Counts,     \* and how many bytes it is to erase
    CharSets    \* what is searched for

Running == -2

VARIABLES
    contents,  \* the bytes
    usable,    \* neither destroyed nor left without memory
    call,      \* the last call
    result     \* what it returned, or Running

vars == <<contents, usable, call, result>>

AppendCall(op, text) == [op |-> op, text |-> text]
EraseCall(pos, count) == [op |-> "erase", pos |-> pos, count |-> count]
FindCall(chars) == [op |-> "find_first_of", chars |-> chars]
ClearCall == [op |-> "clear"]

\* The string is created empty.
Init ==
    /\ contents = << >> /\ usable = TRUE
    /\ call = AppendCall("append_cstr", << >>) /\ result = Running

Ready == usable /\ result # Running

AppendText(op, text) ==
    /\ Ready
    /\ call' = AppendCall(op, text) /\ result' = Running
    /\ UNCHANGED <<contents, usable>>

Appended ==
    /\ usable /\ result = Running
    /\ contents' = contents \o call.text
    /\ result' = 0
    /\ UNCHANGED <<usable, call>>

OutOfMemory ==
    /\ usable /\ result = Running
    /\ usable' = FALSE /\ contents' = << >>
    /\ result' = -1
    /\ UNCHANGED call

Clear ==
    /\ Ready
    /\ contents' = << >>
    /\ call' = ClearCall /\ result' = 0
    /\ UNCHANGED usable

\* "If count goes past the end of the string it is adjusted to erase until the
\* end"; a position past the end is an error.
Erase(pos, count) ==
    /\ Ready
    /\ call' = EraseCall(pos, count)
    /\ LET last == IF pos + count < Len(contents) THEN pos + count
                                                  ELSE Len(contents)
           n == last - pos
       IN IF pos < Len(contents)
          THEN /\ contents' = [i \in 1..(Len(contents) - n) |->
                                IF i <= pos THEN contents[i]
                                            ELSE contents[i + n]]
               /\ result' = 0
          ELSE result' = -1 /\ UNCHANGED contents
    /\ UNCHANGED usable

\* The position of the first byte that is in chars, or the string's size.
FindFirstOf(chars) ==
    /\ Ready
    /\ call' = FindCall(chars)
    /\ result' \in 0..Len(contents)
    /\ \A i \in 1..result' : contents[i] \notin chars
    /\ result' < Len(contents) => contents[result' + 1] \in chars
    /\ UNCHANGED <<contents, usable>>

Destroy ==
    /\ result # Running
    /\ usable' = FALSE /\ contents' = << >>
    /\ UNCHANGED <<call, result>>

Next ==
    \/ \E op \in {"append_data", "append_cstr"}, text \in Texts :
          AppendText(op, text)
    \/ Appended \/ OutOfMemory \/ Clear \/ Destroy
    \/ \E pos \in Positions, count \in Counts : Erase(pos, count)
    \/ \E chars \in CharSets : FindFirstOf(chars)

Spec == Init /\ [][Next]_vars
=============================================================================
