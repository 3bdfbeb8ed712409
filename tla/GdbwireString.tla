---------------------------- MODULE GdbwireString ----------------------------
(***************************************************************************)
(* The growing string of gdbwire_string.c: a block of memory, of which the *)
(* first "size" bytes are the string.  Positions count from 0, as in the   *)
(* code.  The loop of gdbwire_string_append_data is a step for each byte,  *)
(* and one for each time the memory has to grow.                           *)
(***************************************************************************)
EXTENDS Integers, Sequences

CONSTANTS
    Bytes,      \* the bytes that are told apart
    NUL,        \* the one that ends a C string
    Junk,       \* what memory holds before it is written to
    First,      \* the first capacity, 128
    Step,       \* the one from which on it grows linearly, 4096
    Texts,      \* what the client appends
    Modes,      \* with which of the two functions
    Counts,     \* the counts it erases; pos + count does not wrap
    CharSets,   \* what it searches for
    MaxSize     \* bound: the bytes the string has to hold

ASSUME BytesAssumption == NUL \in Bytes /\ Junk \notin Bytes
ASSUME GrowthAssumption == First \in Nat \ {0} /\ Step \in Nat \ {0}
ASSUME TextsAssumption == Texts \subseteq Seq(Bytes)
ASSUME ModesAssumption == Modes \subseteq {"append_data", "append_cstr"}
ASSUME CountsAssumption == Counts \subseteq Nat
ASSUME CharSetsAssumption == CharSets \subseteq SUBSET (Bytes \ {NUL})
ASSUME MaxSizeAssumption == MaxSize \in Nat

Running == -2

VARIABLES
    data,      \* string->data, a function on 0..(capacity - 1)
    size,      \* string->size
    capacity,  \* string->capacity
    broken,    \* realloc has returned NULL, and so data is
    pc,        \* idle, or in the loop of append_data
    chunk,     \* the bytes that append_data is given
    index,     \* data_index, how many of them are appended
    call,      \* the client's last call
    result     \* what it returned, or Running

vars == <<data, size, capacity, broken, pc, chunk, index, call, result>>

AppendCall(op, text) == [op |-> op, text |-> text]
EraseCall(pos, count) == [op |-> "erase", pos |-> pos, count |-> count]
FindCall(chars) == [op |-> "find_first_of", chars |-> chars]
ClearCall == [op |-> "clear"]

\* gdbwire_string_create: the string of no bytes, to which it appends "".
Init ==
    /\ data = [i \in {} |-> Junk] /\ size = 0 /\ capacity = 0
    /\ broken = FALSE
    /\ pc = "append" /\ chunk = <<NUL>> /\ index = 0
    /\ call = AppendCall("append_cstr", << >>) /\ result = Running

-----------------------------------------------------------------------------
(* Appending.                                                              *)

\* The client calls gdbwire_string_append_data or _append_cstr; a C string has
\* no NUL in it, and is appended with the one that ends it.
AppendText(op, text) ==
    /\ pc = "idle" /\ ~broken
    /\ size + Len(text) < MaxSize
    /\ op = "append_cstr" => \A i \in 1..Len(text) : text[i] # NUL
    /\ chunk' = IF op = "append_cstr" THEN Append(text, NUL) ELSE text
    /\ index' = 0
    /\ pc' = "append"
    /\ call' = AppendCall(op, text) /\ result' = Running
    /\ UNCHANGED <<data, size, capacity, broken>>

\* Mutant: the check for room is off by one.
RoomForOneTooMany == size <= capacity

Room == size < capacity

\* gdbwire_string_increase_capacity.
Larger(c) == IF c = 0 THEN First ELSE IF c < Step THEN 2 * c ELSE c + Step

AppendByte ==
    /\ pc = "append"
    /\ index < Len(chunk)
    /\ Room
    /\ data' = [data EXCEPT ![size] = chunk[index + 1]]
    /\ size' = size + 1 /\ index' = index + 1
    /\ UNCHANGED <<capacity, broken, pc, chunk, call, result>>

Grow ==
    /\ pc = "append"
    /\ index < Len(chunk)
    /\ ~Room
    /\ capacity' = Larger(capacity)
    /\ data' = [i \in 0..(capacity' - 1) |->
                    IF i < capacity THEN data[i] ELSE Junk]
    /\ UNCHANGED <<size, broken, pc, chunk, index, call, result>>

\* There is no memory: the string keeps its new capacity and the bytes counted
\* so far, and has no data any more.  gdbwire_string_create then destroys it.
CannotGrow ==
    /\ pc = "append"
    /\ index < Len(chunk)
    /\ ~Room
    /\ capacity' = Larger(capacity)
    /\ broken' = TRUE
    /\ pc' = IF capacity = 0 THEN "destroyed" ELSE "idle"
    /\ result' = -1 /\ chunk' = << >> /\ index' = 0
    /\ UNCHANGED <<data, size, call>>

\* Mutant: the NUL that ends a C string counts.
CountsNul(op) == 0

\* The bytes of the chunk that do not count.
Uncounted(op) == IF op = "append_cstr" THEN 1 ELSE 0

AppendDone ==
    /\ pc = "append"
    /\ index = Len(chunk)
    /\ size' = size - Uncounted(call.op)
    /\ pc' = "idle" /\ result' = 0 /\ chunk' = << >> /\ index' = 0
    /\ UNCHANGED <<data, capacity, broken, call>>

-----------------------------------------------------------------------------
(* The other functions.                                                    *)

Clear ==
    /\ pc = "idle" /\ ~broken
    /\ size' = 0
    /\ data' = [data EXCEPT ![0] = NUL]
    /\ call' = ClearCall /\ result' = 0
    /\ UNCHANGED <<capacity, broken, pc, chunk, index>>

\* Mutant: the count is not adjusted to what is there.
ErasesFromTheEnd(pos, count) ==
    /\ pc = "idle" /\ ~broken
    /\ call' = EraseCall(pos, count)
    /\ IF pos < size
       THEN /\ size' = size - (IF pos + count < size THEN count ELSE size)
            /\ data' = [i \in DOMAIN data |->
                            IF pos <= i /\ i < size - count
                            THEN data[i + count] ELSE data[i]]
            /\ result' = 0
       ELSE result' = -1 /\ UNCHANGED <<data, size>>
    /\ UNCHANGED <<capacity, broken, pc, chunk, index>>

\* gdbwire_string_erase ends the string where it erases to the end, and moves
\* what is behind the gap to the left where it does not.
Erase(pos, count) ==
    /\ pc = "idle" /\ ~broken
    /\ call' = EraseCall(pos, count)
    /\ IF pos >= size
       THEN result' = -1 /\ UNCHANGED <<data, size>>
       ELSE /\ result' = 0
            /\ IF pos + count >= size
               THEN /\ data' = [data EXCEPT ![pos] = NUL]
                    /\ size' = pos
               ELSE /\ data' = [i \in DOMAIN data |->
                                    IF pos <= i /\ i < size - count
                                    THEN data[i + count] ELSE data[i]]
                    /\ size' = size - count
    /\ UNCHANGED <<capacity, broken, pc, chunk, index>>

FindFirstOf(chars) ==
    /\ pc = "idle" /\ ~broken
    /\ call' = FindCall(chars)
    /\ result' \in 0..size
    /\ \A i \in 0..(result' - 1) : data[i] \notin chars
    /\ result' < size => data[result'] \in chars
    /\ UNCHANGED <<data, size, capacity, broken, pc, chunk, index>>

Destroy ==
    /\ pc = "idle"
    /\ pc' = "destroyed"
    /\ UNCHANGED <<data, size, capacity, broken, chunk, index, call, result>>

\* A call that looks at the data of a string that has none.  The ones that do
\* not (to append nothing, to erase behind the end) change nothing in it.
Crash ==
    /\ pc = "idle" /\ broken
    /\ pc' = "crashed"
    /\ UNCHANGED <<data, size, capacity, broken, chunk, index, call, result>>

Stopped == pc \in {"destroyed", "crashed"} /\ UNCHANGED vars

Loop == AppendByte \/ Grow \/ CannotGrow \/ AppendDone

Next ==
    \/ \E op \in Modes, text \in Texts : AppendText(op, text)
    \/ Loop \/ Clear \/ Destroy \/ Crash \/ Stopped
    \/ \E pos \in 0..MaxSize, count \in Counts : Erase(pos, count)
    \/ \E chars \in CharSets : FindFirstOf(chars)

Spec == Init /\ [][Next]_vars

-----------------------------------------------------------------------------
(* What the string promises.                                               *)

\* The size at which the append that is running began.
Start == IF pc = "append" THEN size - index ELSE size

\* The string keeps the promise of its header, however its memory grows: a
\* call has its effect when it returns.
Bytestring == INSTANCE ByteString WITH
    Positions <- 0..MaxSize,
    contents <- IF broken \/ pc = "destroyed" THEN << >>
                ELSE [i \in 1..Start |-> data[i - 1]],
    usable <- ~broken /\ pc # "destroyed"

ImplementsByteString == Bytestring!Spec

\* What append_cstr and create return can be read as a C string, also when
\* the NUL needed memory of its own.
AppendedIsTerminated ==
    pc = "idle" /\ call.op = "append_cstr" /\ result = 0 =>
        size < capacity /\ data[size] = NUL

-----------------------------------------------------------------------------
(* The inductive invariant.                                                *)

Calls ==
    [op : {"append_data", "append_cstr"}, text : Seq(Bytes)]
    \cup {ClearCall}
    \cup [op : {"erase"}, pos : Nat, count : Nat]
    \cup [op : {"find_first_of"}, chars : SUBSET Bytes]

TypeOK ==
    /\ capacity \in Nat
    /\ ~broken => data \in [0..(capacity - 1) -> Bytes \cup {Junk}]
    /\ size \in 0..capacity
    /\ broken \in BOOLEAN
    /\ pc \in {"idle", "append", "destroyed", "crashed"}
    /\ chunk \in Seq(Bytes)
    /\ index \in 0..Len(chunk)
    /\ call \in Calls
    /\ result \in Nat \cup {-1, Running}

\* The string is made of bytes that were written.
Written == ~broken => \A i \in 0..(size - 1) : data[i] \in Bytes

\* In the loop the last bytes of the string are the first ones of the chunk.
LoopInv ==
    IF pc = "append"
    THEN /\ ~broken /\ result = Running
         /\ index <= size
         /\ capacity = 0 => call.op = "append_cstr"
         /\ call.op \in {"append_data", "append_cstr"}
         /\ chunk = IF call.op = "append_cstr" THEN Append(call.text, NUL)
                                               ELSE call.text
         /\ \A j \in 1..index : data[size - index + j - 1] = chunk[j]
    ELSE /\ result # Running /\ chunk = << >> /\ index = 0
         /\ IF broken THEN size < capacity /\ result = -1 ELSE capacity > 0

StringInv == TypeOK /\ Written /\ LoopInv /\ AppendedIsTerminated
=============================================================================
