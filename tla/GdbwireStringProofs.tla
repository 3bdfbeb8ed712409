------------------------- MODULE GdbwireStringProofs -------------------------
(***************************************************************************)
(* The growing string is a sequence of bytes, for every first capacity,    *)
(* every step it grows by and every sequence of calls: its memory is never *)
(* used beyond its capacity, and a call does what its header says.         *)
(***************************************************************************)
EXTENDS GdbwireString, SequenceTheorems, TLAPS

\* The memory always becomes larger: gdbwire_string_increase_capacity.
LEMMA LargerIsLarger ==
    \A c \in Nat : Larger(c) \in Nat /\ Larger(c) > c
BY GrowthAssumption DEF Larger

LEMMA InitEstablishes == Init => StringInv
<1> SUFFICES ASSUME Init PROVE StringInv
    OBVIOUS
<1> USE BytesAssumption DEF Init, AppendCall
<1>1. TypeOK
    <2>1. data \in [0..(capacity - 1) -> Bytes \cup {Junk}]
        BY 0..(0 - 1) = {}
    <2>2. call \in Calls
        BY DEF Calls
    <2>3. chunk \in Seq(Bytes) /\ index \in 0..Len(chunk)
        OBVIOUS
    <2>4. capacity \in Nat /\ size \in 0..capacity
        OBVIOUS
    <2>5. /\ broken \in BOOLEAN
          /\ pc \in {"idle", "append", "destroyed", "crashed"}
          /\ result \in Nat \cup {-1, Running}
        OBVIOUS
    <2> HIDE DEF Init
    <2> QED
        BY <2>1, <2>2, <2>3, <2>4, <2>5 DEF TypeOK
<1>2. Written /\ AppendedIsTerminated
    BY DEF Written, AppendedIsTerminated
<1>3. LoopInv
    BY DEF LoopInv, Running
<1> QED
    BY <1>1, <1>2, <1>3 DEF StringInv

-----------------------------------------------------------------------------
(* Appending, a byte at a time.                                            *)

LEMMA AppendTextPreserves ==
    ASSUME StringInv, NEW op \in Modes, NEW text \in Texts,
           AppendText(op, text)
    PROVE  StringInv'
<1> USE BytesAssumption, ModesAssumption, TextsAssumption DEF AppendText
<1>1. text \in Seq(Bytes) /\ op \in {"append_data", "append_cstr"}
    OBVIOUS
<1>2. chunk' \in Seq(Bytes) /\ call' \in Calls
    BY <1>1 DEF Calls, AppendCall
<1>3. TypeOK'
    BY <1>2 DEF StringInv, TypeOK, Running
<1>4. Written' /\ AppendedIsTerminated'
    BY DEF StringInv, Written, AppendedIsTerminated
<1>5. LoopInv'
    <2>1. capacity > 0 /\ size \in Nat /\ capacity \in Nat
        BY DEF StringInv, LoopInv, TypeOK
    <2> QED
        BY <2>1, <1>1 DEF LoopInv, AppendCall
<1> QED
    BY <1>3, <1>4, <1>5 DEF StringInv

LEMMA AppendBytePreserves == StringInv /\ AppendByte => StringInv'
<1> SUFFICES ASSUME StringInv, AppendByte PROVE StringInv'
    OBVIOUS
<1> USE BytesAssumption DEF AppendByte, Room
<1>1. /\ size \in Nat /\ capacity \in Nat /\ index \in Nat
      /\ size < capacity /\ index < Len(chunk) /\ index <= size
      /\ chunk \in Seq(Bytes) /\ ~broken
      /\ data \in [0..(capacity - 1) -> Bytes \cup {Junk}]
    BY DEF StringInv, TypeOK, LoopInv
<1>2. chunk[index + 1] \in Bytes
    BY <1>1
<1>3. TypeOK'
    BY <1>1, <1>2 DEF StringInv, TypeOK
<1>4. Written' /\ AppendedIsTerminated'
    BY <1>1, <1>2 DEF StringInv, Written, AppendedIsTerminated
<1>5. \A j \in 1..index' : data'[size' - index' + j - 1] = chunk[j]
    <2> TAKE j \in 1..index'
    <2>1. CASE j = index + 1
        BY <1>1, <2>1
    <2>2. CASE j # index + 1
        <3>1. j \in 1..index /\ size - index + j - 1 \in 0..(size - 1)
            BY <1>1, <2>2
        <3>2. data'[size - index + j - 1] = data[size - index + j - 1]
            BY <1>1, <3>1
        <3>3. data[size - index + j - 1] = chunk[j]
            BY <3>1 DEF StringInv, LoopInv
        <3>4. size' - index' = size - index
            BY <1>1
        <3> QED
            BY <3>2, <3>3, <3>4
    <2> QED
        BY <2>1, <2>2
<1>6. LoopInv'
    BY <1>1, <1>5 DEF StringInv, LoopInv
<1> QED
    BY <1>3, <1>4, <1>6 DEF StringInv

LEMMA GrowPreserves == StringInv /\ Grow => StringInv'
<1> SUFFICES ASSUME StringInv, Grow PROVE StringInv'
    OBVIOUS
<1> USE DEF Grow, Room
<1>1. /\ size \in Nat /\ capacity \in Nat /\ index \in Nat
      /\ size <= capacity /\ index <= size /\ ~broken
      /\ data \in [0..(capacity - 1) -> Bytes \cup {Junk}]
    BY DEF StringInv, TypeOK, LoopInv
<1>2. capacity' \in Nat /\ capacity' > capacity
    BY <1>1, LargerIsLarger
<1>3. \A i \in 0..(size - 1) : data'[i] = data[i]
    BY <1>1, <1>2
<1>4. TypeOK'
    BY <1>1, <1>2 DEF StringInv, TypeOK
<1>5. Written' /\ AppendedIsTerminated'
    BY <1>1, <1>3 DEF StringInv, Written, AppendedIsTerminated
<1>6. LoopInv'
    <2>1. \A j \in 1..index : size - index + j - 1 \in 0..(size - 1)
        BY <1>1
    <2> QED
        BY <1>1, <1>2, <1>3, <2>1 DEF StringInv, LoopInv
<1> QED
    BY <1>4, <1>5, <1>6 DEF StringInv

LEMMA CannotGrowPreserves == StringInv /\ CannotGrow => StringInv'
<1> SUFFICES ASSUME StringInv, CannotGrow PROVE StringInv'
    OBVIOUS
<1> USE DEF CannotGrow, Room
<1>1. size \in Nat /\ capacity \in Nat /\ size <= capacity
    BY DEF StringInv, TypeOK
<1>2. capacity' \in Nat /\ capacity' > capacity
    BY <1>1, LargerIsLarger
<1>3. TypeOK'
    BY <1>1, <1>2 DEF StringInv, TypeOK
<1>4. Written' /\ AppendedIsTerminated'
    BY DEF StringInv, Written, AppendedIsTerminated
<1>5. LoopInv'
    BY <1>1, <1>2 DEF LoopInv, Running
<1> QED
    BY <1>3, <1>4, <1>5 DEF StringInv

\* What the loop has appended, when it has appended everything.
LEMMA AllAppended ==
    ASSUME StringInv, AppendDone
    PROVE  /\ size \in Nat /\ size' \in Nat /\ capacity \in Nat
           /\ call.text \in Seq(Bytes)
           /\ call.op \in {"append_data", "append_cstr"}
           /\ size' = size - index + Len(call.text)
           /\ size' <= size /\ size <= capacity /\ index <= size
           /\ index \in Nat
           /\ \A j \in 1..Len(call.text) :
                 data[size - index + j - 1] = call.text[j]
           /\ call.op = "append_cstr" => size' = size - 1 /\ data[size'] = NUL
           /\ capacity > 0
<1> USE DEF AppendDone
<1>1. /\ pc = "append" /\ index = Len(chunk)
      /\ size' = size - Uncounted(call.op)
    OBVIOUS
<1> HIDE DEF AppendDone
<1>2. /\ size \in Nat /\ capacity \in Nat /\ size <= capacity
      /\ chunk \in Seq(Bytes) /\ call \in Calls /\ index \in Nat
    BY DEF StringInv, TypeOK
<1>3. /\ index <= size
      /\ call.op \in {"append_data", "append_cstr"}
      /\ chunk = IF call.op = "append_cstr" THEN Append(call.text, NUL)
                                            ELSE call.text
      /\ \A j \in 1..index : data[size - index + j - 1] = chunk[j]
      /\ capacity = 0 => call.op = "append_cstr"
    BY <1>1 DEF StringInv, LoopInv
<1>4. call.text \in Seq(Bytes)
    BY <1>2, <1>3 DEF Calls, ClearCall
<1>5. CASE call.op = "append_cstr"
    <2>1. /\ Len(chunk) = Len(call.text) + 1
          /\ \A j \in 1..Len(call.text) : chunk[j] = call.text[j]
          /\ chunk[Len(chunk)] = NUL
        BY <1>3, <1>4, <1>5
    <2>2. /\ Len(call.text) \in Nat
          /\ size' = size - 1 /\ index >= 1 /\ index = Len(call.text) + 1
        BY <1>1, <1>4, <1>5, <2>1 DEF Uncounted
    <2>3. data[size - index + index - 1] = NUL
        <3>1. index \in 1..index
            BY <1>2, <2>2
        <3> QED
            BY <1>1, <1>3, <2>1, <3>1
    <2>4. size - index + index - 1 = size'
        BY <1>2, <2>2
    <2>5. \A j \in 1..Len(call.text) :
              data[size - index + j - 1] = call.text[j]
        BY <1>3, <2>1, <2>2
    <2>6. /\ size' \in Nat /\ size' <= size /\ capacity > 0
          /\ size' = size - index + Len(call.text)
        BY <1>2, <1>3, <2>2
    <2>7. data[size'] = NUL
        BY <2>3, <2>4
    <2> QED
        BY <1>2, <1>3, <1>4, <2>2, <2>5, <2>6, <2>7
<1>6. CASE call.op = "append_data"
    <2>1. chunk = call.text /\ size' = size /\ capacity # 0
        BY <1>1, <1>2, <1>3, <1>6 DEF Uncounted
    <2>2. \A j \in 1..Len(call.text) :
              data[size - index + j - 1] = call.text[j]
        BY <1>1, <1>3, <2>1
    <2>3. size' = size - index + Len(call.text)
        BY <1>1, <1>2, <2>1
    <2>4. size' \in Nat /\ size' <= size /\ capacity > 0
        BY <1>2, <2>1
    <2> QED
        BY <1>2, <1>3, <1>4, <1>6, <2>2, <2>3, <2>4
<1> QED
    BY <1>3, <1>5, <1>6

LEMMA AppendDonePreserves == StringInv /\ AppendDone => StringInv'
<1> SUFFICES ASSUME StringInv, AppendDone PROVE StringInv'
    OBVIOUS
<1> USE DEF AppendDone
<1>1. TypeOK'
    BY AllAppended DEF StringInv, TypeOK
<1>2. ~broken
    BY DEF StringInv, LoopInv
<1>3. Written'
    BY AllAppended, <1>2, SMTT(20) DEF StringInv, Written
<1>4. AppendedIsTerminated'
    BY AllAppended DEF AppendedIsTerminated
<1>5. LoopInv'
    BY AllAppended, <1>2 DEF LoopInv, Running
<1> QED
    BY <1>1, <1>3, <1>4, <1>5 DEF StringInv

-----------------------------------------------------------------------------
(* The other functions.                                                    *)

LEMMA ClearPreserves == StringInv /\ Clear => StringInv'
<1> SUFFICES ASSUME StringInv, Clear PROVE StringInv'
    OBVIOUS
<1> USE BytesAssumption DEF Clear
<1>1. /\ ~broken /\ capacity \in Nat /\ capacity > 0
      /\ data \in [0..(capacity - 1) -> Bytes \cup {Junk}]
    BY DEF StringInv, TypeOK, LoopInv
<1>2. TypeOK'
    BY <1>1 DEF StringInv, TypeOK, Calls, ClearCall
<1>3. Written' /\ AppendedIsTerminated'
    BY DEF Written, AppendedIsTerminated, ClearCall
<1>4. LoopInv'
    BY <1>1 DEF StringInv, LoopInv, Running
<1> QED
    BY <1>2, <1>3, <1>4 DEF StringInv

LEMMA ErasePreserves ==
    ASSUME StringInv, NEW pos \in 0..MaxSize, NEW count \in Counts,
           Erase(pos, count)
    PROVE  StringInv'
<1> USE BytesAssumption, CountsAssumption, MaxSizeAssumption DEF Erase
<1>1. /\ ~broken /\ capacity \in Nat /\ capacity > 0
      /\ data \in [0..(capacity - 1) -> Bytes \cup {Junk}]
      /\ size \in Nat /\ size <= capacity
      /\ pos \in Nat /\ count \in Nat
      /\ \A i \in 0..(size - 1) : data[i] \in Bytes
    BY DEF StringInv, TypeOK, LoopInv, Written
<1>2. call' \in Calls /\ call'.op = "erase" /\ result' \in {0, -1}
    BY <1>1 DEF Calls, EraseCall
<1>3. /\ size' \in 0..capacity
      /\ data' \in [0..(capacity - 1) -> Bytes \cup {Junk}]
      /\ \A i \in 0..(size' - 1) : data'[i] \in Bytes
    <2>1. CASE pos >= size
        BY <1>1, <2>1
    <2>2. CASE pos < size /\ pos + count >= size
        BY <1>1, <2>2
    <2>3. CASE pos < size /\ pos + count < size
        <3>1. \A i \in 0..(capacity - 1) :
                  i < size - count => i + count \in 0..(size - 1)
            BY <1>1
        <3>2. /\ data' = [i \in 0..(capacity - 1) |->
                              IF pos <= i /\ i < size - count
                              THEN data[i + count] ELSE data[i]]
              /\ size' = size - count
            BY <1>1, <2>3
        <3> QED
            BY <1>1, <2>3, <3>1, <3>2
    <2> QED
        BY <1>1, <2>1, <2>2, <2>3
<1>4. TypeOK'
    BY <1>1, <1>2, <1>3 DEF StringInv, TypeOK
<1>5. Written' /\ AppendedIsTerminated'
    BY <1>2, <1>3 DEF Written, AppendedIsTerminated
<1>6. LoopInv'
    BY <1>1, <1>2 DEF StringInv, LoopInv, Running
<1> QED
    BY <1>4, <1>5, <1>6 DEF StringInv

LEMMA FindFirstOfPreserves ==
    ASSUME StringInv, NEW chars \in CharSets, FindFirstOf(chars)
    PROVE  StringInv'
<1> USE CharSetsAssumption DEF FindFirstOf
<1>1. call' \in Calls /\ call'.op = "find_first_of"
    BY DEF Calls, FindCall
<1>2. result' \in Nat
    BY DEF StringInv, TypeOK
<1>3. TypeOK'
    BY <1>1, <1>2 DEF StringInv, TypeOK
<1>4. Written' /\ AppendedIsTerminated'
    BY <1>1 DEF StringInv, Written, AppendedIsTerminated
<1>5. LoopInv'
    BY <1>2 DEF StringInv, LoopInv, Running
<1> QED
    BY <1>3, <1>4, <1>5 DEF StringInv

LEMMA EndPreserves ==
    ASSUME StringInv, Destroy \/ Crash \/ UNCHANGED vars
    PROVE  StringInv'
<1>1. CASE Destroy
    BY <1>1 DEF Destroy, StringInv, TypeOK, Written, LoopInv,
                AppendedIsTerminated
<1>2. CASE Crash
    BY <1>2 DEF Crash, StringInv, TypeOK, Written, LoopInv,
                AppendedIsTerminated
<1>3. CASE UNCHANGED vars
    BY <1>3 DEF vars, StringInv, TypeOK, Written, LoopInv,
                AppendedIsTerminated
<1> QED
    BY <1>1, <1>2, <1>3

LEMMA StepPreserves == StringInv /\ [Next]_vars => StringInv'
<1> SUFFICES ASSUME StringInv, [Next]_vars PROVE StringInv'
    OBVIOUS
<1>1. ASSUME NEW op \in Modes, NEW text \in Texts, AppendText(op, text)
      PROVE  StringInv'
    BY <1>1, AppendTextPreserves
<1>2. CASE Loop
    BY <1>2, AppendBytePreserves, GrowPreserves, CannotGrowPreserves,
       AppendDonePreserves DEF Loop
<1>3. CASE Clear
    BY <1>3, ClearPreserves
<1>4. ASSUME NEW pos \in 0..MaxSize, NEW count \in Counts, Erase(pos, count)
      PROVE  StringInv'
    BY <1>4, ErasePreserves
<1>5. ASSUME NEW chars \in CharSets, FindFirstOf(chars)
      PROVE  StringInv'
    BY <1>5, FindFirstOfPreserves
<1>6. CASE Destroy \/ Crash \/ Stopped \/ UNCHANGED vars
    BY <1>6, EndPreserves DEF Stopped
<1> QED
    BY <1>1, <1>2, <1>3, <1>4, <1>5, <1>6 DEF Next

\* The string's memory is used up to its capacity and never beyond it, every
\* byte of the string was written, and the loop of append_data has appended
\* the first bytes of what it was given.
THEOREM StringInvariance == Spec => []StringInv
<1>1. Init => StringInv
    BY InitEstablishes
<1>2. StringInv /\ [Next]_vars => StringInv'
    BY StepPreserves
<1> QED
    BY <1>1, <1>2, PTL DEF Spec

\* After gdbwire_string_append_cstr the data can be read as a C string, also
\* when the string's size is one less than its capacity.
THEOREM AppendTerminates == Spec => []AppendedIsTerminated
<1>1. StringInv => AppendedIsTerminated
    BY DEF StringInv
<1> QED
    BY <1>1, StringInvariance, PTL

-----------------------------------------------------------------------------
(* The string is the sequence of bytes its header promises.                *)

\* What the bytes of the abstract string are.
LEMMA ContentsAre ==
    ASSUME StringInv, ~broken, pc # "destroyed"
    PROVE  /\ Start \in 0..size
           /\ Len([i \in 1..Start |-> data[i - 1]]) = Start
           /\ [i \in 1..Start |-> data[i - 1]] \in Seq(Bytes)
<1>1. size \in Nat /\ index \in Nat /\ (pc = "append" => index <= size)
    BY DEF StringInv, TypeOK, LoopInv
<1>2. Start \in 0..size
    BY <1>1 DEF Start
<1>3. \A i \in 1..Start : data[i - 1] \in Bytes
    <2> TAKE i \in 1..Start
    <2>1. i - 1 \in 0..(size - 1)
        BY <1>1, <1>2
    <2> QED
        BY <2>1 DEF StringInv, Written
<1> QED
    BY <1>1, <1>2, <1>3

LEMMA InitRefines == Init => Bytestring!Init
<1> SUFFICES ASSUME Init PROVE Bytestring!Init
    OBVIOUS
<1>1. ~broken /\ pc # "destroyed" /\ Start = 0
    BY DEF Init, Start
<1>2. [i \in 1..Start |-> data[i - 1]] = << >>
    BY <1>1
<1> QED
    BY <1>1, <1>2 DEF Init, Bytestring!Init, AppendCall, Bytestring!AppendCall,
                      Running, Bytestring!Running

LEMMA AppendTextRefines ==
    ASSUME StringInv, NEW op \in Modes, NEW text \in Texts,
           AppendText(op, text)
    PROVE  Bytestring!AppendText(op, text)
<1>1. /\ ~broken /\ pc = "idle" /\ ~broken' /\ pc' = "append"
      /\ data' = data /\ result # Running
    BY DEF AppendText, StringInv, LoopInv
<1>2. Start' = Start
    BY DEF AppendText, Start, StringInv, TypeOK
<1> QED
    BY <1>1, <1>2 DEF AppendText, Bytestring!AppendText, Bytestring!Ready,
                      AppendCall, Bytestring!AppendCall,
                      Running, Bytestring!Running

\* Until the append returns the client sees nothing of it.
LEMMA LoopStutters ==
    ASSUME StringInv, AppendByte \/ Grow
    PROVE  UNCHANGED Bytestring!vars
<1>1. /\ ~broken /\ pc = "append" /\ ~broken' /\ pc' = "append"
      /\ call' = call /\ result' = result
    BY DEF AppendByte, Grow, StringInv, LoopInv
<1>2. /\ size \in Nat /\ capacity \in Nat /\ index \in Nat
      /\ index <= size /\ size <= capacity
      /\ data \in [0..(capacity - 1) -> Bytes \cup {Junk}]
    BY <1>1 DEF StringInv, TypeOK, LoopInv
<1>3. Start' = Start /\ Start \in 0..size
    BY <1>1, <1>2 DEF AppendByte, Grow, Start
<1>4. \A i \in 0..(size - 1) : data'[i] = data[i]
    <2>1. CASE AppendByte
        BY <1>2, <2>1 DEF AppendByte
    <2>2. CASE Grow
        BY <1>2, <2>2, LargerIsLarger DEF Grow
    <2> QED
        BY <2>1, <2>2
<1>5. [i \in 1..Start |-> data[i - 1]]' = [i \in 1..Start |-> data[i - 1]]
    <2>1. \A i \in 1..Start : data'[i - 1] = data[i - 1]
        BY <1>2, <1>3, <1>4
    <2> QED
        BY <1>3, <2>1
<1> QED
    BY <1>1, <1>5 DEF Bytestring!vars

LEMMA CannotGrowRefines == StringInv /\ CannotGrow => Bytestring!OutOfMemory
BY DEF StringInv, LoopInv, CannotGrow, Bytestring!OutOfMemory,
       Running, Bytestring!Running

\* A concatenation as a function.
LEMMA Joined ==
    ASSUME NEW S, NEW s \in Seq(S), NEW t \in Seq(S)
    PROVE  s \o t = [i \in 1..(Len(s) + Len(t)) |->
                        IF i <= Len(s) THEN s[i] ELSE t[i - Len(s)]]
<1> DEFINE st == s \o t
           n == Len(s) + Len(t)
<1>1. /\ st \in Seq(S) /\ Len(st) = n
      /\ \A i \in 1..n : st[i] = IF i <= Len(s) THEN s[i] ELSE t[i - Len(s)]
    BY ConcatProperties
<1> HIDE DEF st, n
<1>2. st \in [1..n -> S]
    BY <1>1, LenProperties
<1>3. st = [i \in 1..n |-> st[i]]
    BY <1>2
<1>4. st = [i \in 1..n |-> IF i <= Len(s) THEN s[i] ELSE t[i - Len(s)]]
    BY <1>1, <1>3, Zenon
<1> QED
    BY <1>4 DEF st, n

LEMMA AppendDoneRefines == StringInv /\ AppendDone => Bytestring!Appended
<1> SUFFICES ASSUME StringInv, AppendDone PROVE Bytestring!Appended
    OBVIOUS
<1>1. /\ ~broken /\ pc = "append" /\ ~broken' /\ pc' = "idle"
      /\ call' = call /\ result = Running /\ result' = 0 /\ data' = data
    BY DEF AppendDone, StringInv, LoopInv
<1> DEFINE before == [i \in 1..Start |-> data[i - 1]]
           after == [i \in 1..size' |-> data[i - 1]]
           text == call.text
<1>2. /\ size \in Nat /\ size' \in Nat /\ index \in Nat /\ index <= size
      /\ text \in Seq(Bytes) /\ size' = size - index + Len(text)
      /\ \A j \in 1..Len(text) : data[size - index + j - 1] = text[j]
    BY AllAppended
<1>3. Start = size - index /\ Start \in Nat /\ Start' = size'
    BY <1>1, <1>2 DEF Start
<1>4. /\ before \in Seq(Bytes) /\ Len(before) = Start
      /\ \A i \in 1..Start : before[i] = data[i - 1]
    BY <1>1, ContentsAre
<1>5. text \in Seq(Bytes)
    BY <1>2
<1> HIDE DEF before, text
<1>6. after = before \o text
    <2>1. before \o text =
              [i \in 1..(Start + Len(text)) |->
                  IF i <= Start THEN before[i] ELSE text[i - Start]]
        <3>1. before \o text =
                  [i \in 1..(Len(before) + Len(text)) |->
                      IF i <= Len(before) THEN before[i]
                                          ELSE text[i - Len(before)]]
            BY <1>4, <1>5, Joined, Zenon
        <3> QED
            BY <1>4, <3>1, Zenon
    <2>2. ASSUME NEW i \in 1..size'
          PROVE  data[i - 1] = IF i <= Start THEN before[i] ELSE text[i - Start]
        <3>1. ASSUME i <= Start PROVE data[i - 1] = before[i]
            BY <1>3, <1>4, <3>1
        <3>2. ASSUME ~(i <= Start) PROVE data[i - 1] = text[i - Start]
            <4>1. i - Start \in 1..Len(text)
                BY <1>2, <1>3, <3>2
            <4>2. data[size - index + (i - Start) - 1] = text[i - Start]
                BY <1>2, <4>1
            <4>3. size - index + (i - Start) - 1 = i - 1
                BY <1>2, <1>3
            <4> QED
                BY <4>2, <4>3
        <3> QED
            BY <3>1, <3>2
    <2>3. size' = Start + Len(text)
        BY <1>2, <1>3
    <2> QED
        BY <2>1, <2>2, <2>3
<1>7. [i \in 1..Start |-> data[i - 1]]' = after
    BY <1>1, <1>3
<1> HIDE DEF after
<1>8. before = [i \in 1..Start |-> data[i - 1]]
    BY DEF before
<1> QED
    BY <1>1, <1>6, <1>7, <1>8 DEF Bytestring!Appended,
                                  Running, Bytestring!Running, text

LEMMA ClearRefines == StringInv /\ Clear => Bytestring!Clear
<1> SUFFICES ASSUME StringInv, Clear PROVE Bytestring!Clear
    OBVIOUS
<1>1. /\ ~broken /\ pc = "idle" /\ ~broken' /\ pc' = "idle" /\ size' = 0
      /\ result # Running
    BY DEF Clear, StringInv, LoopInv
<1>2. Start' = 0
    BY <1>1 DEF Start
<1>3. [i \in 1..Start |-> data[i - 1]]' = << >>
    BY <1>2
<1> QED
    BY <1>1, <1>3 DEF Clear, Bytestring!Clear, Bytestring!Ready,
                      ClearCall, Bytestring!ClearCall,
                      Running, Bytestring!Running

LEMMA EraseRefines ==
    ASSUME StringInv, NEW pos \in 0..MaxSize, NEW count \in Counts,
           Erase(pos, count)
    PROVE  Bytestring!Erase(pos, count)
<1> USE CountsAssumption, MaxSizeAssumption
<1>1. /\ ~broken /\ pc = "idle" /\ ~broken' /\ pc' = "idle"
      /\ result # Running /\ call' = EraseCall(pos, count)
      /\ capacity \in Nat /\ size \in Nat /\ size <= capacity
      /\ data \in [0..(capacity - 1) -> Bytes \cup {Junk}]
      /\ pos \in Nat /\ count \in Nat
    BY DEF Erase, StringInv, TypeOK, LoopInv
<1> DEFINE before == [i \in 1..Start |-> data[i - 1]]
           last == IF pos + count < size THEN pos + count ELSE size
           n == last - pos
           cut == [i \in 1..(size - n) |->
                      IF i <= pos THEN before[i] ELSE before[i + n]]
<1>2. /\ Start = size /\ Start' = size' /\ Len(before) = size
      /\ \A i \in 1..size : before[i] = data[i - 1]
    BY <1>1, ContentsAre DEF Start
<1>3. CASE pos >= size
    <2>1. before' = before /\ result' = -1
        BY <1>1, <1>2, <1>3 DEF Erase
    <2> QED
        BY <1>1, <1>2, <1>3, <2>1
           DEF Bytestring!Erase, Bytestring!Ready, EraseCall,
               Bytestring!EraseCall, Running, Bytestring!Running
<1>4. CASE pos < size
    <2>1. result' = 0
        BY <1>1, <1>4 DEF Erase
    <2>2. size' = size - n /\ n \in Nat
        BY <1>1, <1>4 DEF Erase
    <2>3. ASSUME NEW i \in 1..size'
          PROVE  data'[i - 1] = IF i <= pos THEN before[i] ELSE before[i + n]
        <3>1. CASE pos + count >= size
            <4>1. data' = [data EXCEPT ![pos] = NUL] /\ size' = pos
                BY <1>1, <1>4, <3>1 DEF Erase
            <4>2. data'[i - 1] = data[i - 1] /\ i <= pos
                BY <1>1, <1>4, <4>1
            <4> QED
                BY <1>1, <1>2, <1>4, <4>2
        <3>2. CASE pos + count < size
            <4>1. /\ data' = [k \in DOMAIN data |->
                                  IF pos <= k /\ k < size - count
                                  THEN data[k + count] ELSE data[k]]
                  /\ n = count
                BY <1>1, <1>4, <3>2 DEF Erase
            <4>2. i - 1 \in DOMAIN data /\ i - 1 < size - count
                BY <1>1, <2>2, <4>1
            <4>3. data'[i - 1] = IF i <= pos THEN data[i - 1]
                                             ELSE data[i - 1 + count]
                BY <1>1, <4>1, <4>2
            <4>4. i <= pos => before[i] = data[i - 1]
                BY <1>1, <1>2, <1>4
            <4>5. ~(i <= pos) => before[i + n] = data[i - 1 + count]
                <5> DEFINE k == i + n
                <5>1. k \in 1..size /\ k - 1 = i - 1 + count
                    BY <1>1, <2>2, <4>1
                <5> HIDE DEF k
                <5>2. before[k] = data[k - 1]
                    BY <1>2, <5>1
                <5> QED
                    BY <5>1, <5>2 DEF k
            <4> QED
                BY <4>3, <4>4, <4>5
        <3> QED
            BY <1>1, <3>1, <3>2
    <2>4. before' = [i \in 1..size' |-> data'[i - 1]]
        BY <1>2
    <2> HIDE DEF before
    <2>5. before' = cut
        BY <2>2, <2>3, <2>4
    <2> QED
        BY <1>1, <1>2, <1>4, <2>1, <2>5, ZenonT(60)
           DEF before, Bytestring!Erase, Bytestring!Ready, EraseCall,
               Bytestring!EraseCall, Running, Bytestring!Running
<1> QED
    BY <1>1, <1>3, <1>4

LEMMA FindFirstOfRefines ==
    ASSUME StringInv, NEW chars \in CharSets, FindFirstOf(chars)
    PROVE  Bytestring!FindFirstOf(chars)
<1>1. /\ ~broken /\ pc = "idle" /\ ~broken' /\ pc' = "idle"
      /\ result # Running /\ call' = FindCall(chars) /\ size \in Nat
      /\ data' = data /\ size' = size
    BY DEF FindFirstOf, StringInv, TypeOK, LoopInv
<1> DEFINE before == [i \in 1..Start |-> data[i - 1]]
<1>2. /\ Start = size /\ Start' = size /\ Len(before) = size
      /\ \A i \in 1..size : before[i] = data[i - 1]
    BY <1>1, ContentsAre DEF Start
<1>3. before' = before
    BY <1>1, <1>2
<1>4. /\ result' \in 0..size
      /\ \A i \in 0..(result' - 1) : data[i] \notin chars
      /\ result' < size => data[result'] \in chars
    BY DEF FindFirstOf
<1> DEFINE found == result'
<1>5. found \in Nat /\ found <= size /\ size \in Nat
    BY <1>1, <1>4
<1> HIDE DEF before, found
<1>6. \A i \in 1..found : before[i] \notin chars
    <2> TAKE i \in 1..found
    <2>1. i \in 1..size /\ i - 1 \in 0..(found - 1)
        BY <1>5
    <2> QED
        BY <1>2, <1>4, <2>1 DEF found
<1>7. found < size => before[found + 1] \in chars
    <2> HAVE found < size
    <2>1. found + 1 \in 1..size /\ (found + 1) - 1 = found
        BY <1>5
    <2>2. before[found + 1] = data[(found + 1) - 1]
        BY <1>2, <2>1
    <2> QED
        BY <1>4, <2>1, <2>2 DEF found
<1> QED
    BY <1>1, <1>2, <1>3, <1>4, <1>6, <1>7
       DEF before, found, Bytestring!FindFirstOf, Bytestring!Ready, FindCall,
           Bytestring!FindCall, Running, Bytestring!Running

LEMMA EndRefines ==
    ASSUME StringInv, Destroy \/ Crash \/ UNCHANGED vars
    PROVE  Bytestring!Destroy \/ UNCHANGED Bytestring!vars
<1>1. CASE Destroy
    BY <1>1 DEF Destroy, StringInv, LoopInv, Bytestring!Destroy,
                Running, Bytestring!Running
<1>2. CASE Crash
    BY <1>2 DEF Crash, Bytestring!vars
<1>3. CASE UNCHANGED vars
    <2>1. Start' = Start
        BY <1>3 DEF vars, Start
    <2> QED
        BY <1>3, <2>1 DEF vars, Bytestring!vars
<1> QED
    BY <1>1, <1>2, <1>3

LEMMA StepRefines ==
    StringInv /\ [Next]_vars => [Bytestring!Next]_(Bytestring!vars)
<1> SUFFICES ASSUME StringInv, [Next]_vars
             PROVE  Bytestring!Next \/ UNCHANGED Bytestring!vars
    OBVIOUS
<1>1. ASSUME NEW op \in Modes, NEW text \in Texts, AppendText(op, text)
      PROVE  Bytestring!Next
    BY <1>1, AppendTextRefines, ModesAssumption DEF Bytestring!Next
<1>2. CASE AppendByte \/ Grow
    BY <1>2, LoopStutters
<1>3. CASE CannotGrow \/ AppendDone \/ Clear
    BY <1>3, CannotGrowRefines, AppendDoneRefines, ClearRefines
       DEF Bytestring!Next
<1>4. ASSUME NEW pos \in 0..MaxSize, NEW count \in Counts, Erase(pos, count)
      PROVE  Bytestring!Next
    BY <1>4, EraseRefines DEF Bytestring!Next
<1>5. ASSUME NEW chars \in CharSets, FindFirstOf(chars)
      PROVE  Bytestring!Next
    BY <1>5, FindFirstOfRefines DEF Bytestring!Next
<1>6. CASE Destroy \/ Crash \/ Stopped \/ UNCHANGED vars
    BY <1>6, EndRefines DEF Stopped, Bytestring!Next
<1> QED
    BY <1>1, <1>2, <1>3, <1>4, <1>5, <1>6 DEF Next, Loop

\* Whatever its memory does, gdbwire_string is the sequence of bytes that its
\* header promises: every call of gdbwire_string.c has the effect of the call
\* of the abstract string, or it is out of memory.
THEOREM Refinement == Spec => ImplementsByteString
<1>1. Init => Bytestring!Init
    BY InitRefines
<1>2. StringInv /\ [Next]_vars => [Bytestring!Next]_(Bytestring!vars)
    BY StepRefines
<1> QED
    BY <1>1, <1>2, StringInvariance, PTL
       DEF Spec, ImplementsByteString, Bytestring!Spec
=============================================================================
