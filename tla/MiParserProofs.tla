--------------------------- MODULE MiParserProofs ---------------------------
(***************************************************************************)
(* For every input, however it is cut into pushes and wherever an          *)
(* allocation fails: the parser hands every byte on once and in order,     *)
(* leaves no complete line behind, drives the push parser as               *)
(* MiPushParser says it is driven, and leaves nothing of a complete line   *)
(* in it.                                                                  *)
(*                                                                         *)
(* The parser implements the stream protocol: for every text, whoever      *)
(* pushes it, the client is given the verdicts of its lines, one for each  *)
(* and in order.                                                           *)
(***************************************************************************)
EXTENDS MiParserProtocol, MiLineOutcome, MiPushParserProofs,
        SequenceTheorems, FiniteSetTheorems, WellFoundedInduction

-----------------------------------------------------------------------------
(* Sequences.                                                              *)

\* A set of naturals that is not empty has a least element.
LEMMA LeastOf ==
    ASSUME NEW T \in SUBSET Nat, T # {}
    PROVE  \E i \in T : \A j \in T : i <= j
<1> DEFINE R == OpToRel(<, Nat)
<1>1. IsWellFoundedOn(R, Nat)
  BY NatLessThanWellFounded DEF R
<1>2. \A i, j \in Nat : j < i => <<j, i>> \in R
  BY DEF OpToRel
<1> HIDE DEF R
<1>3. PICK i \in T : \A j \in T : ~ (<<j, i>> \in R)
  BY <1>1, WFMin
<1>4. ASSUME NEW j \in T PROVE i <= j
  <2>1. ~ (j < i)
    BY <1>2, <1>3, Zenon
  <2> QED BY <2>1
<1> QED BY <1>4

\* find_first_of finds the newline there is.
LEMMA FirstNewlineIsThere ==
    ASSUME NEW s \in Seq(Input), HasNewline(s)
    PROVE  /\ FirstNewline(s) \in 1..Len(s) /\ s[FirstNewline(s)] \in Newlines
           /\ \A j \in 1..(FirstNewline(s) - 1) : s[j] \notin Newlines
<1> DEFINE T == {i \in 1..Len(s) : s[i] \in Newlines}
<1>1. T \in SUBSET Nat /\ T # {}
  BY DEF HasNewline
<1>2. PICK i \in T : \A j \in T : i <= j
  BY <1>1, LeastOf
<1>3. i \in 1..Len(s) /\ s[i] \in Newlines
      /\ \A j \in 1..(i - 1) : s[j] \notin Newlines
  BY <1>2
<1> QED BY <1>3 DEF FirstNewline

\* A line is not empty and does not reach past the buffer.
LEMMA LineLengthFits ==
    ASSUME NEW b \in Seq(Input), HasNewline(b)
    PROVE  LineLength(b) \in 1..Len(b)
<1> DEFINE i == FirstNewline(b)
<1>1. i \in 1..Len(b) /\ Len(b) \in Nat
  BY FirstNewlineIsThere
<1> HIDE DEF i
<1> QED BY <1>1 DEF LineLength, i

\* What strlen and the scanner see of a string has no NUL, and is the string
\* when that has none.
LEMMA CStringIsClean ==
    ASSUME NEW s \in Seq(Input)
    PROVE  CString(s) \in Seq(Input \ {"NUL"}) /\ CString(s) \in Seq(Input)
<1> DEFINE T == {i \in 1..Len(s) : s[i] = "NUL"}
<1>1. CASE T = {}
  <2>1. CString(s) = s
    BY <1>1 DEF CString
  <2>2. \A i \in 1..Len(s) : s[i] \in Input \ {"NUL"}
    BY <1>1
  <2> QED BY <2>1, <2>2
<1>2. CASE T # {}
  <2>0. T \in SUBSET Nat
    OBVIOUS
  <2>1. PICK i \in T : \A j \in T : i <= j
    <3> HIDE DEF T
    <3> QED BY <1>2, <2>0, LeastOf
  <2> DEFINE First(k) == s[k] = "NUL" /\ \A j \in 1..(k - 1) : s[j] # "NUL"
             k == CHOOSE k \in 1..Len(s) : First(k)
  <2>2. i \in 1..Len(s) /\ First(i)
    BY <2>1
  <2>3. k \in 1..Len(s) /\ First(k)
    <3> HIDE DEF First
    <3> QED BY <2>2
  <2>4. CString(s) = SubSeq(s, 1, k - 1)
    BY <1>2 DEF CString
  <2> HIDE DEF k
  <2>5. \A j \in 1..(k - 1) : s[j] \in Input \ {"NUL"}
    BY <2>3
  <2>6. k - 1 \in Nat /\ k - 1 <= Len(s)
    BY <2>3
  <2> HIDE DEF First
  <2> QED BY <2>4, <2>5, <2>6
<1> QED BY <1>1, <1>2

\* What a client can push is a string of the input's elements.
LEMMA ChunksAreInput ==
    ASSUME NEW chunk \in Chunks
    PROVE  chunk \in Seq(Input) /\ CString(chunk) \in Seq(Input)
<1>1. chunk \in Seq(Input)
  BY BoundsAssumption DEF Chunks
<1> QED BY <1>1, CStringIsClean

\* What is pushed in two parts is pushed.
LEMMA JoinAssociative ==
    ASSUME NEW a \in Seq(Input), NEW b \in Seq(Input), NEW c \in Seq(Input)
    PROVE  (a \o b) \o c = a \o (b \o c)
BY ConcatAssociative, SMTT(30)

\* A buffer cut in two is what it was.
LEMMA CutAndJoin ==
    ASSUME NEW c \in Seq(Input), NEW b \in Seq(Input), NEW n \in 1..Len(b)
    PROVE  /\ SubSeq(b, 1, n) \in Seq(Input)
           /\ SubSeq(b, n + 1, Len(b)) \in Seq(Input)
           /\ (c \o SubSeq(b, 1, n)) \o SubSeq(b, n + 1, Len(b)) = c \o b
<1> DEFINE s == SubSeq(b, 1, n)
           t == SubSeq(b, n + 1, Len(b))
<1>1. s \in Seq(Input) /\ t \in Seq(Input)
  OBVIOUS
<1>2. s \o t = b
  <2>1. SubSeq(b, 1, Len(b)) = b
    OBVIOUS
  <2>2. 1 \in 1..(Len(b) + 1) /\ n \in (1 - 1)..Len(b) /\ Len(b) \in n..Len(b)
    OBVIOUS
  <2>3. s \o t = SubSeq(b, 1, Len(b))
    BY <2>2, ConcatAdjacentSubSeq
  <2> QED BY <2>1, <2>3
<1> HIDE DEF s, t
<1>3. (c \o s) \o t = c \o (s \o t)
  BY <1>1, JoinAssociative
<1> QED BY <1>1, <1>2, <1>3 DEF s, t

\* There is a newline in a text if there is one in a part of it.
LEMMA NewlineOfParts ==
    ASSUME NEW s \in Seq(Input), NEW t \in Seq(Input)
    PROVE  HasNewline(s \o t) => HasNewline(s) \/ HasNewline(t)
BY DEF HasNewline

LEMMA NewlineOfTail ==
    ASSUME NEW s \in Seq(Input), s # << >>, s[1] \notin Newlines, HasNewline(s)
    PROVE  HasNewline(SubSeq(s, 2, Len(s)))
<1>1. PICK i \in 1..Len(s) : s[i] \in Newlines
  BY DEF HasNewline
<1>2. i - 1 \in 1..Len(SubSeq(s, 2, Len(s)))
      /\ SubSeq(s, 2, Len(s))[i - 1] = s[i]
  BY <1>1
<1> QED BY <1>1, <1>2 DEF HasNewline

-----------------------------------------------------------------------------
(* Steps.                                                                  *)

\* The parser under a client of any kind, which pushes what it likes.
AnyStep ==
    \/ \E chunk \in Seq(Input) : PushData(chunk)
    \/ PushNotStored \/ Library \/ CallbackReturns \/ Crash \/ Destroy
    \/ UNCHANGED vars

LEMMA NextIsStep == [Next]_vars => AnyStep
<1>1. ASSUME NEW chunk \in Chunks, PushData(chunk) \/ Push(chunk)
      PROVE  AnyStep
  BY <1>1, ChunksAreInput DEF Push, AnyStep
<1> QED BY <1>1 DEF Next, Client, Stopped, AnyStep

-----------------------------------------------------------------------------
(* The parser's own state.                                                 *)

Clean == Seq(Input \ {"NUL"})

\* The parser has no buffer any more.
Gone == pc \in {"broken", "crashed", "destroyed"}

BufferInv ==
    /\ buffer \in Seq(Input) /\ pushed \in Seq(Input)
    /\ consumed \in Seq(Input)
    /\ ~Gone => consumed \o buffer = pushed
    /\ failed \in BOOLEAN /\ reply \in Replies \cup {"none"}
    /\ reply = "OK" => ~failed
    /\ pc = "idle" /\ ~failed => ~HasNewline(buffer)

LineInv ==
    /\ line \in Clean /\ unread \in Clean
    /\ column \in Nat \ {0}

CallsInv ==
    /\ pc \in {"idle", "next_line", "lex", "push", "check", "callback",
               "broken", "crashed", "destroyed"}
    /\ calls \in 0..MaxCalls
    /\ pc \notin {"broken", "crashed"} =>
          (pc \notin {"idle", "destroyed"} <=> calls # 0)
    /\ faults \in 0..MaxFaults

\* push_data takes what it is given behind what it has.
LEMMA PushDataBuffer ==
    ASSUME NEW chunk \in Seq(Input), BufferInv, PushData(chunk)
    PROVE  BufferInv'
<1>1. buffer' \in Seq(Input) /\ pushed' \in Seq(Input)
      /\ consumed' \in Seq(Input) /\ failed' \in BOOLEAN
      /\ reply' \in Replies \cup {"none"} /\ (reply' = "OK" => ~failed')
  BY DEF BufferInv, PushData, Replies
<1>2. consumed' \o buffer' = pushed'
  <2>1. (consumed \o buffer) \o chunk = consumed \o (buffer \o chunk)
    <3>1. consumed \in Seq(Input) /\ buffer \in Seq(Input)
      BY DEF BufferInv
    <3> QED BY <3>1, JoinAssociative
  <2> QED BY <2>1 DEF BufferInv, PushData, Gone
<1>3. ASSUME pc' = "idle", ~failed'
      PROVE  ~HasNewline(buffer')
  <2>1. ~HasNewline(chunk) /\ pc = "idle" /\ ~failed
    BY <1>3 DEF PushData
  <2> QED BY <2>1, NewlineOfParts DEF BufferInv, PushData
<1> QED BY <1>1, <1>2, <1>3 DEF BufferInv, Gone

LEMMA GetNextLineBuffer ==
    ASSUME BufferInv, GetNextLine
    PROVE  BufferInv'
<1> DEFINE n == LineLength(buffer)
<1>1. buffer \in Seq(Input) /\ consumed \in Seq(Input) /\ n \in 1..Len(buffer)
  BY LineLengthFits DEF BufferInv, GetNextLine
<1>2. consumed' = consumed \o SubSeq(buffer, 1, n)
      /\ buffer' = SubSeq(buffer, n + 1, Len(buffer))
      /\ pushed' = pushed /\ failed' = failed /\ reply' = reply /\ pc' = "lex"
      /\ pc = "next_line"
  BY DEF GetNextLine
<1> HIDE DEF n
<1>3. SubSeq(buffer, 1, n) \in Seq(Input) /\ buffer' \in Seq(Input)
      /\ consumed' \o buffer' = consumed \o buffer
  BY <1>1, <1>2, CutAndJoin
<1>4. consumed' \in Seq(Input)
  BY <1>1, <1>2, <1>3
<1> QED BY <1>2, <1>3, <1>4 DEF BufferInv, Gone

LEMMA BufferStep == BufferInv /\ AnyStep => BufferInv'
<1> SUFFICES ASSUME BufferInv, AnyStep PROVE BufferInv'
  OBVIOUS
<1>1. ASSUME NEW chunk \in Seq(Input), PushData(chunk) PROVE BufferInv'
  BY <1>1, PushDataBuffer
<1>2. CASE PushNotStored
  BY <1>2 DEF BufferInv, PushNotStored, Replies, Gone
<1>3. CASE GetNextLine
  BY <1>3, GetNextLineBuffer
<1>4. CASE NoMoreLines
  BY <1>4 DEF BufferInv, NoMoreLines, Replies, Gone
<1>5. CASE LineNotCopied
  BY <1>5 DEF BufferInv, LineNotCopied, Replies, Gone
<1>6. CASE LexToken \/ SkipBlank \/ EndOfLine \/ Deliver \/ ParseToken
  <2>1. UNCHANGED <<buffer, pushed, consumed, failed, reply>>
    BY <1>6 DEF LexToken, SkipBlank, EndOfLine, Deliver, ParseToken
  <2>2. pc' # "idle" /\ ~Gone
    BY <1>6 DEF LexToken, SkipBlank, EndOfLine, Deliver, ParseToken, Gone
  <2> QED BY <2>1, <2>2 DEF BufferInv
<1>7. CASE FailLine
  BY <1>7 DEF BufferInv, FailLine, Replies, Gone
<1>8. CASE CallbackReturns \/ Crash \/ Destroy \/ UNCHANGED vars
  <2>1. UNCHANGED <<buffer, pushed, consumed, failed, reply>>
    BY <1>8 DEF CallbackReturns, Crash, Destroy, vars, parserVars
  <2>2. (pc' = "idle" => pc = "idle") /\ (Gone => Gone')
    BY <1>8 DEF CallbackReturns, Crash, Destroy, vars, parserVars, Gone
  <2> QED BY <2>1, <2>2 DEF BufferInv
<1> QED BY <1>1, <1>2, <1>3, <1>4, <1>5, <1>6, <1>7, <1>8
        DEF AnyStep, Library

LEMMA BufferInit == Init => BufferInv
<1> SUFFICES ASSUME Init PROVE BufferInv
  OBVIOUS
<1>1. buffer = << >> /\ pushed = << >> /\ consumed = << >>
      /\ failed = FALSE /\ reply = "none"
  BY Zenon DEF Init
<1>2. << >> \in Seq(Input) /\ << >> \o << >> = << >> /\ ~HasNewline(<< >>)
  BY DEF HasNewline
<1> QED BY <1>1, <1>2 DEF BufferInv, Replies

LEMMA BufferHolds == Spec => []BufferInv
BY BufferInit, BufferStep, NextIsStep, PTL DEF Spec

\* Not a byte of the stream is lost, doubled or moved between what the client
\* pushes and the lines that are cut, however it is pushed, from wherever, and
\* whichever allocation of push_data or get_next_line fails.
THEOREM NothingIsLost == Spec => []Conservation
<1>1. BufferInv => Conservation
  BY DEF BufferInv, Conservation, Gone
<1> QED BY <1>1, BufferHolds, PTL

\* A complete line waits in the buffer between two pushes only from a push that
\* fails to the next one that has a newline in its data and returns GDBWIRE_OK,
\* although push_data looks for newlines in that data only.
THEOREM NoLineIsLeft == Spec => []NothingLeftBehind
<1>1. BufferInv => NothingLeftBehind
  BY DEF BufferInv, NothingLeftBehind
<1> QED BY <1>1, BufferHolds, PTL

-----------------------------------------------------------------------------
(* The scanner's state, and the calls.                                     *)

\* What the lexer returns is a lexeme, and takes some of what is unread.
LEMMA MatchFacts ==
    ASSUME unread \in Clean, unread # << >>, unread[1] # "blank"
    PROVE  /\ Match.size \in 1..Len(unread)
           /\ Match.bytes \in Nat \ {0}
           /\ Match.text \in Lexemes
           /\ unread[1] \in Newlines => Match.text = "NEWLINE"
           /\ unread[1] \notin Newlines => Match.size = 1
<1>1. Len(unread) \in Nat /\ Len(unread) >= 1
      /\ \A i \in 1..Len(unread) : unread[i] \in Input \ {"NUL"}
  BY DEF Clean
<1>2. unread[1] \in Input \ {"NUL"}
  BY <1>1
<1>3. \A x \in Input : Width[x] \in Nat \ {0}
  BY WidthAssumption
<1>4. unread[1] \notin Newlines => unread[1] \in Lexemes
  BY <1>2, InputAssumption
<1>5. "NEWLINE" \in Lexemes
  BY DEF Lexemes, Tokens
<1>6. CASE Len(unread) > 1 /\ unread[1] = "CR" /\ unread[2] = "LF"
  <2>1. Match = [size |-> 2, text |-> "NEWLINE",
                 bytes |-> Width["CR"] + Width["LF"]]
    BY <1>6 DEF Match
  <2>2. unread[2] \in Input
    BY <1>1, <1>6
  <2>3. Width["CR"] \in Nat \ {0} /\ Width["LF"] \in Nat \ {0}
    BY <1>2, <1>3, <1>6, <2>2
  <2> QED BY <1>1, <1>5, <1>6, <2>1, <2>3 DEF Newlines
<1>7. CASE ~(Len(unread) > 1 /\ unread[1] = "CR" /\ unread[2] = "LF")
  <2>1. Match = [size |-> 1,
                 text |-> IF unread[1] \in Newlines THEN "NEWLINE"
                          ELSE unread[1],
                 bytes |-> Width[unread[1]]]
    BY <1>7 DEF Match
  <2> QED BY <1>1, <1>2, <1>3, <1>4, <1>5, <2>1
<1> QED BY <1>6, <1>7

LEMMA LineStep == BufferInv /\ LineInv /\ AnyStep => LineInv'
<1> SUFFICES ASSUME BufferInv, LineInv, AnyStep PROVE LineInv'
  OBVIOUS
<1>1. CASE GetNextLine
  <2>1. SubSeq(buffer, 1, LineLength(buffer)) \in Seq(Input)
    BY <1>1, LineLengthFits DEF BufferInv, GetNextLine
  <2>2. line' \in Clean
    BY <1>1, <2>1, CStringIsClean DEF GetNextLine, Clean
  <2> QED BY <1>1, <2>2 DEF LineInv, GetNextLine
<1>2. CASE LexToken
  <2>1. /\ unread \in Clean /\ unread # << >> /\ unread[1] # "blank"
        /\ column \in Nat \ {0}
        /\ unread' = SubSeq(unread, Match.size + 1, Len(unread))
        /\ column' = column + Match.bytes /\ line' = line
    BY <1>2 DEF LineInv, LexToken
  <2>2. Match.size \in 1..Len(unread) /\ Match.bytes \in Nat \ {0}
    BY <2>1, MatchFacts
  <2>3. unread' \in Clean
    BY <2>1, <2>2 DEF Clean
  <2> QED BY <2>1, <2>2, <2>3 DEF LineInv
<1>3. CASE SkipBlank
  <2>1. /\ unread \in Clean /\ unread # << >> /\ unread[1] = "blank"
        /\ unread' = Tail(unread) /\ line' = line
        /\ column' = column + Width["blank"]
    BY <1>3 DEF LineInv, SkipBlank
  <2>2. unread' \in Clean /\ "blank" \in Input
    BY <2>1 DEF Clean
  <2>3. Width["blank"] \in Nat \ {0}
    BY <2>2, WidthAssumption
  <2> QED BY <2>1, <2>2, <2>3 DEF LineInv
<1>4. ASSUME NEW chunk, PushData(chunk) PROVE LineInv'
  BY <1>4 DEF LineInv, PushData
<1>5. CASE PushNotStored \/ NoMoreLines \/ LineNotCopied \/ ParseToken
           \/ EndOfLine \/ Deliver \/ FailLine \/ CallbackReturns \/ Crash
           \/ Destroy
  BY <1>5 DEF LineInv, PushNotStored, NoMoreLines, LineNotCopied, ParseToken,
     EndOfLine, Deliver, FailLine, CallbackReturns, Crash, Destroy
<1>6. CASE UNCHANGED vars
  BY <1>6 DEF LineInv, vars, parserVars
<1> QED BY <1>1, <1>2, <1>3, <1>4, <1>5, <1>6 DEF AnyStep, Library

LEMMA LineInit == Init => LineInv
BY DEF Init, LineInv, Clean

LEMMA LineHolds == Spec => []LineInv
BY LineInit, LineStep, NextIsStep, BufferHolds, PTL DEF Spec

LEMMA ReturnCalls == CallsInv /\ pc \in {"next_line", "check"} /\ Return =>
    /\ calls' \in 0..MaxCalls /\ pc' \in {"idle", "callback"}
    /\ pc' # "idle" <=> calls' # 0
BY BoundsAssumption DEF CallsInv, Return

LEMMA CallsStep == CallsInv /\ AnyStep => CallsInv'
<1> SUFFICES ASSUME CallsInv, AnyStep PROVE CallsInv'
  OBVIOUS
<1>1. ASSUME NEW chunk, PushData(chunk) PROVE CallsInv'
  BY <1>1, BoundsAssumption DEF CallsInv, PushData
<1>2. CASE PushNotStored
  BY <1>2, BoundsAssumption DEF CallsInv, PushNotStored
<1>3. CASE NoMoreLines
  <2>1. pc = "next_line" /\ Return /\ faults' = faults
    BY <1>3 DEF NoMoreLines
  <2> QED BY <2>1, ReturnCalls DEF CallsInv
<1>4. CASE LineNotCopied
  <2>1. pc = "next_line" /\ Return /\ faults < MaxFaults /\ faults' = faults + 1
    BY <1>4 DEF LineNotCopied
  <2> QED BY <2>1, ReturnCalls, BoundsAssumption DEF CallsInv
<1>5. CASE FailLine
  <2>1. pc = "check" /\ Return /\ faults' = faults
    BY <1>5 DEF FailLine
  <2> QED BY <2>1, ReturnCalls DEF CallsInv
<1>6. CASE GetNextLine \/ LexToken \/ SkipBlank \/ EndOfLine \/ Deliver
           \/ CallbackReturns \/ Crash \/ Destroy
  BY <1>6 DEF CallsInv, GetNextLine, LexToken, SkipBlank, EndOfLine, Deliver,
     CallbackReturns, Crash, Destroy
<1>7. CASE ParseToken
  <2>1. pc = "push" /\ pc' \in {"lex", "check", "push"}
        /\ calls' = calls /\ faults' = faults
    BY <1>7 DEF ParseToken
  <2> QED BY <2>1 DEF CallsInv
<1>8. CASE UNCHANGED vars
  BY <1>8 DEF CallsInv, vars, parserVars
<1> QED BY <1>1, <1>2, <1>3, <1>4, <1>5, <1>6, <1>7, <1>8
        DEF AnyStep, Library

LEMMA CallsInit == Init => CallsInv
BY BoundsAssumption DEF Init, CallsInv

LEMMA CallsHold == Spec => []CallsInv
BY CallsInit, CallsStep, NextIsStep, PTL DEF Spec

-----------------------------------------------------------------------------
(* The push parser within the parser.                                      *)

\* The lexer's columns are positions: the instances bound them, the code has
\* an int for each.
EveryColumn == (Nat \ {0}) \X (Nat \ {0}) \subseteq Positions

LEMMA LexTokenGives ==
    ASSUME EveryColumn, LineInv, LexToken
    PROVE  \E x \in Lexemes, p \in Positions : GiveToken(x, p)
<1>1. unread \in Clean /\ unread # << >> /\ unread[1] # "blank"
      /\ column \in Nat \ {0}
  BY DEF LineInv, LexToken
<1>2. Match.text \in Lexemes /\ Match.bytes \in Nat \ {0}
  BY <1>1, MatchFacts
<1>3. <<column, column + Match.bytes - 1>> \in Positions
  <2>1. column + Match.bytes - 1 \in Nat \ {0}
    BY <1>1, <1>2
  <2> QED BY <1>1, <2>1 DEF EveryColumn
<1>4. GiveToken(Match.text, <<column, column + Match.bytes - 1>>)
  BY DEF LexToken
<1> QED BY <1>2, <1>3, <1>4

LEMMA PushParserStep ==
    ASSUME EveryColumn
    PROVE  LineInv /\ AnyStep => [PushNext]_pushVars
<1> SUFFICES ASSUME LineInv, AnyStep PROVE [PushNext]_pushVars
  OBVIOUS
<1>1. CASE GetNextLine
  BY <1>1 DEF GetNextLine, PushNext
<1>2. CASE LexToken
  BY <1>2, LexTokenGives DEF PushNext
<1>3. CASE ParseToken
  BY <1>3 DEF ParseToken, PushNext
<1>4. ASSUME NEW chunk, PushData(chunk) PROVE UNCHANGED pushVars
  BY <1>4 DEF PushData
<1>5. CASE PushNotStored \/ NoMoreLines \/ LineNotCopied \/ SkipBlank
           \/ EndOfLine \/ Deliver \/ FailLine \/ CallbackReturns \/ Crash
           \/ Destroy
  BY <1>5 DEF PushNotStored, NoMoreLines, LineNotCopied, SkipBlank, EndOfLine,
     Deliver, FailLine, CallbackReturns, Crash, Destroy
<1>6. CASE UNCHANGED vars
  BY <1>6 DEF vars
<1> QED BY <1>1, <1>2, <1>3, <1>4, <1>5, <1>6 DEF AnyStep, Library

\* parse_line drives the push parser as MiPushParser assumes: with the tokens
\* of the lexer, one at a time, in lines that begin between two tokens.  So all
\* that is proved of the push parser holds in the parser.
THEOREM ParserDrivesPushParser ==
    ASSUME EveryColumn
    PROVE  Spec => PushSpec
<1>1. Init => PushInit
  BY DEF Init
<1> QED BY <1>1, PushParserStep, NextIsStep, LineHolds, PTL DEF Spec, PushSpec

LEMMA PushInvHolds ==
    ASSUME EveryColumn
    PROVE  Spec => []PushInv
BY ParserDrivesPushParser, Invariance, PTL

-----------------------------------------------------------------------------
(* Types.                                                                  *)

OutputsInv ==
    /\ delivered \in Seq([output : Outputs \ {NoOutput}, line : Seq(Input)])
    /\ dropped \subseteq Symbols \cup {"output", "buffer"}

LEMMA OutputsStep ==
    PushInv /\ LineInv /\ OutputsInv /\ AnyStep => OutputsInv'
<1> SUFFICES ASSUME PushInv, LineInv, OutputsInv, AnyStep
             PROVE  OutputsInv'
  OBVIOUS
<1>1. CASE Deliver
  <2> DEFINE d == [output |-> output, line |-> line]
  <2>1. output \in Outputs \ {NoOutput} /\ line \in Seq(Input)
    BY <1>1 DEF Deliver, LineParsed, PushInv, PushTypeOK, LineInv, Clean
  <2>2. d \in [output : Outputs \ {NoOutput}, line : Seq(Input)]
    BY <2>1
  <2>3. delivered' = Append(delivered, d) /\ dropped' = dropped
    BY <1>1 DEF Deliver
  <2> HIDE DEF d
  <2> QED BY <2>2, <2>3 DEF OutputsInv
<1>2. CASE Destroy
  <2>1. \A i \in 1..Len(stack) : stack[i] \in Symbols
    BY DEF PushInv, PushTypeOK
  <2>2. dropped' = dropped \cup ({stack[i] : i \in 1..Len(stack)} \cap Owning)
        /\ delivered' = delivered
    BY <1>2 DEF Destroy
  <2> QED BY <2>1, <2>2 DEF OutputsInv
<1>3. CASE FailLine
  BY <1>3 DEF OutputsInv, FailLine
<1>4. ASSUME NEW chunk, PushData(chunk) PROVE OutputsInv'
  BY <1>4 DEF OutputsInv, PushData
<1>5. CASE PushNotStored \/ NoMoreLines \/ LineNotCopied \/ SkipBlank
           \/ EndOfLine \/ CallbackReturns \/ Crash \/ GetNextLine
           \/ LexToken \/ ParseToken
  BY <1>5 DEF OutputsInv, PushNotStored, NoMoreLines, LineNotCopied, SkipBlank,
     EndOfLine, CallbackReturns, Crash, GetNextLine, LexToken, ParseToken
<1>6. CASE UNCHANGED vars
  BY <1>6 DEF OutputsInv, vars, parserVars
<1> QED BY <1>1, <1>2, <1>3, <1>4, <1>5, <1>6 DEF AnyStep, Library

\* The parser's types: the calls on the stack are counted right, columns are
\* positive, and what is delivered is an output with a line of the input.
THEOREM ParserTypes ==
    ASSUME EveryColumn
    PROVE  Spec => []TypeOK
<1>1. Init => OutputsInv
  BY DEF Init, OutputsInv
<1>2. BufferInv /\ LineInv /\ CallsInv /\ PushInv /\ OutputsInv => TypeOK
  <2> SUFFICES ASSUME BufferInv, LineInv, CallsInv, PushInv, OutputsInv
               PROVE  TypeOK
    OBVIOUS
  <2>1. line \in Seq(Input) /\ unread \in Seq(Input)
    BY DEF LineInv, Clean
  <2>2. failed \in BOOLEAN /\ reply \in Replies \cup {"none"}
    BY DEF BufferInv
  <2>3. {buffer, line, unread, pushed, consumed} \subseteq Seq(Input)
    BY <2>1 DEF BufferInv
  <2> QED BY <2>2, <2>3 DEF TypeOK, LineInv, CallsInv, PushInv, OutputsInv
<1> QED BY <1>1, <1>2, OutputsStep, NextIsStep, BufferHolds, LineHolds, CallsHold,
           PushInvHolds, PTL DEF Spec

-----------------------------------------------------------------------------
(* What a line leaves in the push parser.                                  *)

InLine == pc \in {"lex", "push", "check"}

\* The newline of the current line is ahead, or is the last token.
NewlineSeen ==
    HasNewline(unread) \/ (lexed.text = "NEWLINE" /\ status # "UNINIT")

LingerInv ==
    /\ status = "NOMEM" => stack = <<"bottom">>
    /\ pc = "lex" => status \in {"UNINIT", "MORE"}
    /\ pc = "push" => status = "RUNNING"
    /\ pc = "check" =>
          status = "NOMEM" \/ (unread = << >> /\ status \in {"UNINIT", "MORE"})
    /\ InLine /\ HasNewline(line) => NewlineSeen
    /\ BetweenLines => Resynced \/ ~HasNewline(line)

\* What a step of the push parser does to its status.
LEMMA PushStepStatus ==
    ASSUME PushStep
    PROVE  /\ status = "RUNNING" /\ UNCHANGED <<lexed, abandoned>>
           /\ status' \in {"RUNNING", "MORE", "NOMEM"}
           /\ status' = "NOMEM" => stack' = <<"bottom">>
<1>1. CASE Shift
  BY <1>1 DEF Shift, Parsing
<1>2. ASSUME NEW r \in Rules, Reduce(r)
      PROVE  status = "RUNNING" /\ UNCHANGED <<lexed, status, abandoned>>
  BY <1>2 DEF Reduce, Parsing
<1>3. ASSUME NEW r \in Rules, RejectPrompt(r)
      PROVE  status = "RUNNING" /\ UNCHANGED <<lexed, status, abandoned>>
  BY <1>3 DEF RejectPrompt, Parsing
<1>4. CASE SyntaxError
  BY <1>4 DEF SyntaxError, Parsing
<1>5. CASE NeedToken
  BY <1>5 DEF NeedToken, Parsing
<1>6. CASE Exhausted
  BY <1>6 DEF Exhausted
<1> QED BY <1>1, <1>2, <1>3, <1>4, <1>5, <1>6 DEF PushStep

\* A line that ends is one the parser is in sync after, or has no newline.
LEMMA LineEndsInSync ==
    ASSUME PushInv, LingerInv, pc = "check"
    PROVE  Resynced \/ ~HasNewline(line)
<1>1. CASE status = "NOMEM"
  BY <1>1 DEF LingerInv, Resynced
<1>2. CASE status # "NOMEM" /\ HasNewline(line)
  <2>1. unread = << >> /\ status \in {"UNINIT", "MORE"} /\ NewlineSeen
    BY <1>2 DEF LingerInv, InLine
  <2>2. ~HasNewline(unread)
    BY <2>1 DEF HasNewline
  <2>3. status = "MORE" /\ lexed.text = "NEWLINE"
    BY <2>1, <2>2 DEF NewlineSeen
  <2>4. stack = <<"bottom", "output_list">>
    BY <2>3, ResyncOfInv DEF Resync
  <2> QED BY <2>4 DEF Resynced
<1> QED BY <1>1, <1>2

LEMMA LingerStep ==
    PushInv /\ LineInv /\ LingerInv /\ AnyStep => LingerInv'
<1> SUFFICES ASSUME PushInv, LineInv, LingerInv, AnyStep
             PROVE  LingerInv'
  OBVIOUS
<1> USE DEF BetweenLines, InLine, Resynced
<1>1. ASSUME NEW chunk, PushData(chunk) PROVE LingerInv'
  <2>1. pc \in {"idle", "callback"} /\ pc' \in {"idle", "callback", "next_line"}
        /\ line' = line /\ UNCHANGED pushVars
    BY <1>1 DEF PushData
  <2> QED BY <2>1 DEF LingerInv, HasNewline, pushVars
<1>2. CASE PushNotStored \/ CallbackReturns \/ Crash \/ Destroy
  <2>1. /\ \/ pc = "callback" /\ pc' = "next_line"
           \/ pc' \in {"broken", "crashed", "destroyed"}
        /\ line' = line /\ UNCHANGED pushVars
    BY <1>2 DEF PushNotStored, CallbackReturns, Crash, Destroy
  <2>2. status' = status /\ stack' = stack
    BY <2>1 DEF pushVars
  <2> QED BY <2>1, <2>2 DEF LingerInv, HasNewline
<1>3. CASE NoMoreLines \/ LineNotCopied
  <2>1. pc = "next_line" /\ pc' \in {"idle", "callback"}
        /\ line' = line /\ UNCHANGED pushVars
    BY <1>3 DEF NoMoreLines, LineNotCopied, Return
  <2> QED BY <2>1 DEF LingerInv, HasNewline, pushVars
<1>4. CASE GetNextLine
  <2>1. pc' = "lex" /\ unread' = line' /\ status' = "UNINIT"
    BY <1>4 DEF GetNextLine, BeginLine
  <2> QED BY <2>1 DEF LingerInv, HasNewline, NewlineSeen
<1>5. CASE LexToken
  <2>1. /\ pc = "lex" /\ pc' = "push" /\ status' = "RUNNING"
        /\ line' = line /\ lexed'.text = Match.text
        /\ unread \in Clean /\ unread # << >> /\ unread[1] # "blank"
        /\ unread' = SubSeq(unread, Match.size + 1, Len(unread))
        /\ status \in {"UNINIT"} \/ lexed.text # "NEWLINE"
    BY <1>5 DEF LexToken, GiveToken, LineInv
  <2>2. HasNewline(line) => HasNewline(unread)
    BY <2>1 DEF LingerInv, NewlineSeen
  <2>3. HasNewline(unread) => HasNewline(unread') \/ lexed'.text = "NEWLINE"
    <3>1. CASE unread[1] \in Newlines
      BY <3>1, <2>1, MatchFacts
    <3>2. CASE unread[1] \notin Newlines
      <4>1. unread' = SubSeq(unread, 2, Len(unread))
        BY <2>1, <3>2, MatchFacts
      <4>2. unread \in Seq(Input)
        BY <2>1 DEF Clean
      <4>3. HasNewline(unread) => HasNewline(SubSeq(unread, 2, Len(unread)))
        BY <4>2, <2>1, <3>2, NewlineOfTail
      <4> QED BY <4>1, <4>3 DEF HasNewline
    <3> QED BY <3>1, <3>2
  <2> QED BY <2>1, <2>2, <2>3 DEF LingerInv, NewlineSeen, HasNewline
<1>6. CASE SkipBlank
  <2>1. /\ pc = "lex" /\ pc' = "lex" /\ line' = line /\ UNCHANGED pushVars
        /\ unread \in Clean /\ unread # << >> /\ unread[1] = "blank"
        /\ unread' = Tail(unread)
    BY <1>6 DEF SkipBlank, LineInv
  <2>2. unread \in Seq(Input) /\ unread[1] \notin Newlines
        /\ unread' = SubSeq(unread, 2, Len(unread))
    BY <2>1 DEF Clean, Newlines
  <2>3. HasNewline(unread) => HasNewline(SubSeq(unread, 2, Len(unread)))
    BY <2>1, <2>2, NewlineOfTail
  <2>4. NewlineSeen => NewlineSeen'
    BY <2>1, <2>2, <2>3 DEF NewlineSeen, HasNewline, pushVars
  <2> QED BY <2>1, <2>4 DEF LingerInv, HasNewline, pushVars
<1>7. CASE ParseToken
  <2>1. /\ pc = "push" /\ PushStep /\ line' = line /\ unread' = unread
        /\ pc' = CASE status' = "MORE" -> "lex"
                   [] status' = "NOMEM" -> "check"
                   [] OTHER -> "push"
    BY <1>7 DEF ParseToken
  <2>2. /\ status = "RUNNING" /\ lexed' = lexed
        /\ status' \in {"RUNNING", "MORE", "NOMEM"}
        /\ status' = "NOMEM" => stack' = <<"bottom">>
    BY <2>1, PushStepStatus
  <2>3. HasNewline(line') => NewlineSeen'
    BY <2>1, <2>2 DEF LingerInv, NewlineSeen, HasNewline
  <2> QED BY <2>1, <2>2, <2>3 DEF LingerInv
<1>8. CASE EndOfLine
  <2>1. pc = "lex" /\ pc' = "check" /\ unread = << >>
        /\ UNCHANGED <<pushVars, line, unread>>
    BY <1>8 DEF EndOfLine
  <2> QED BY <2>1 DEF LingerInv, NewlineSeen, HasNewline, pushVars
<1>9. CASE Deliver \/ FailLine
  <2>1. pc = "check" /\ pc' \in {"idle", "callback"}
        /\ line' = line /\ UNCHANGED pushVars
    BY <1>9 DEF Deliver, FailLine, Return
  <2>2. Resynced \/ ~HasNewline(line)
    BY <2>1, LineEndsInSync
  <2> QED BY <2>1, <2>2 DEF LingerInv, HasNewline, pushVars
<1>10. CASE UNCHANGED vars
  BY <1>10 DEF LingerInv, NewlineSeen, HasNewline, vars, parserVars,
     pushVars
<1> QED BY <1>1, <1>2, <1>3, <1>4, <1>5, <1>6, <1>7, <1>8, <1>9, <1>10
        DEF AnyStep, Library

LEMMA LingerInit == Init => LingerInv
<1> SUFFICES ASSUME Init PROVE LingerInv
  OBVIOUS
<1>1. stack = <<"bottom">> /\ status = "UNINIT" /\ pc = "idle"
  BY DEF Init, PushInit
<1> QED BY <1>1 DEF LingerInv, Resynced, InLine

LEMMA LingerHolds ==
    ASSUME EveryColumn
    PROVE  Spec => []LingerInv
BY LingerInit, LingerStep, NextIsStep, LineHolds, PushInvHolds, PTL DEF Spec

\* A line that reaches the parser with its newline, right or wrong or too deep,
\* leaves the push parser in the state it begins lines in; only what a NUL cut
\* can linger.
THEOREM CompleteLinesLeaveNothing ==
    ASSUME EveryColumn
    PROVE  Spec => []OnlyCutLinesLinger
<1>1. LingerInv => OnlyCutLinesLinger
  BY DEF LingerInv, OnlyCutLinesLinger
<1> QED BY <1>1, LingerHolds, PTL

-----------------------------------------------------------------------------
(* A stream without NUL.                                                   *)

NulFree == "NUL" \notin Range(consumed)

\* Without a NUL every line has its newline and begins on a clean stack.
NulFreeInv ==
    NulFree =>
        /\ ~InLine => Resynced
        /\ InLine => HasNewline(line) /\ ~abandoned
        /\ dropped \subseteq {"output", "buffer"}
        /\ faults = 0 =>
              "buffer" \notin dropped /\ (failed => "output" \in dropped)

\* A stack that was too small has reported it.
NomemInv == status = "NOMEM" => output # NoOutput

LEMMA NomemStep == PushInv /\ NomemInv /\ [PushNext]_pushVars => NomemInv'
<1> SUFFICES ASSUME PushInv, NomemInv, [PushNext]_pushVars, status' = "NOMEM"
             PROVE  output' # NoOutput
  BY DEF NomemInv
<1>1. CASE Exhausted
  BY <1>1, VariantFacts DEF Exhausted, Emits, PushInv, PushTypeOK
<1>2. CASE Shift \/ SyntaxError \/ NeedToken
  BY <1>2 DEF Shift, SyntaxError, NeedToken, Parsing
<1>3. ASSUME NEW r \in Rules, Reduce(r) \/ RejectPrompt(r)
      PROVE  output' # NoOutput
  BY <1>3 DEF Reduce, RejectPrompt, Parsing
<1>4. CASE BeginLine
  BY <1>4 DEF BeginLine
<1>5. ASSUME NEW x \in Lexemes, NEW p \in Positions, GiveToken(x, p)
      PROVE  output' # NoOutput
  BY <1>5 DEF GiveToken
<1>6. CASE UNCHANGED pushVars
  BY <1>6 DEF NomemInv, pushVars
<1> QED BY <1>1, <1>2, <1>3, <1>4, <1>5, <1>6 DEF PushNext, PushStep

\* The line that is cut from a buffer is the stretch up to its newline, and
\* all of it if it has no NUL.
LEMMA CutLine ==
    ASSUME NEW b \in Seq(Input), HasNewline(b)
    PROVE  LET n == LineLength(b)
               s == SubSeq(b, 1, n)
           IN /\ n \in 1..Len(b) /\ s \in Seq(Input) /\ HasNewline(s)
              /\ (\A i \in 1..n : b[i] # "NUL") => CString(s) = s
<1> DEFINE i == FirstNewline(b)
           n == LineLength(b)
           s == SubSeq(b, 1, n)
<1>1. i \in 1..Len(b) /\ b[i] \in Newlines
      /\ \A j \in 1..(i - 1) : b[j] \notin Newlines
  BY FirstNewlineIsThere
<1>2. n \in {i, i + 1} /\ n \in 1..Len(b)
  BY LineLengthFits DEF LineLength
<1> HIDE DEF i, n
<1>3. s \in Seq(Input) /\ Len(s) = n /\ \A j \in 1..n : s[j] = b[j]
  BY <1>2
<1>4. i \in 1..n
  BY <1>1, <1>2
<1>5. HasNewline(s)
  BY <1>1, <1>3, <1>4 DEF HasNewline
<1>6. (\A j \in 1..n : b[j] # "NUL") => CString(s) = s
  BY <1>3 DEF CString
<1> QED BY <1>2, <1>3, <1>5, <1>6 DEF n

\* What get_next_line takes out of the buffer is added to consumed.
LEMMA ConsumedGrows ==
    ASSUME BufferInv, GetNextLine
    PROVE  NulFree' => NulFree /\ HasNewline(line')
<1> DEFINE n == LineLength(buffer)
           s == SubSeq(buffer, 1, n)
<1>1. /\ buffer \in Seq(Input) /\ HasNewline(buffer) /\ consumed \in Seq(Input)
      /\ consumed' = consumed \o s /\ line' = CString(s)
  BY DEF BufferInv, GetNextLine
<1>2. /\ n \in 1..Len(buffer) /\ s \in Seq(Input) /\ HasNewline(s)
      /\ (\A i \in 1..n : buffer[i] # "NUL") => CString(s) = s
  BY <1>1, CutLine
<1> HIDE DEF n
<1>3. /\ Len(s) = n /\ \A i \in 1..n : s[i] = buffer[i]
  BY <1>1, <1>2
<1> HIDE DEF s
<1>4. /\ \A i \in 1..Len(consumed) :
            i \in DOMAIN consumed' /\ consumed'[i] = consumed[i]
      /\ \A i \in 1..n : Len(consumed) + i \in DOMAIN consumed'
                          /\ consumed'[Len(consumed) + i] = s[i]
  BY <1>1, <1>2, <1>3
<1>5. NulFree' => NulFree
  <2> SUFFICES ASSUME ~NulFree PROVE ~NulFree'
    OBVIOUS
  <2>1. PICK i \in 1..Len(consumed) : consumed[i] = "NUL"
    BY <1>1 DEF NulFree, Range
  <2>2. i \in DOMAIN consumed' /\ consumed'[i] = "NUL"
    BY <1>4, <2>1
  <2> QED BY <2>2 DEF NulFree, Range
<1>6. NulFree' => \A i \in 1..n : buffer[i] # "NUL"
  BY <1>3, <1>4 DEF NulFree, Range
<1> QED BY <1>1, <1>2, <1>5, <1>6

\* A line of such a stream that is not delivered was too deep.
LEMMA RefusedIsTooDeep ==
    ASSUME PushInv, LingerInv, NomemInv, NulFreeInv, NulFree, pc = "check",
           ~LineParsed
    PROVE  status = "NOMEM" /\ output # NoOutput
<1>1. HasNewline(line) /\ ~abandoned
  BY DEF NulFreeInv, InLine
<1>2. CASE status = "NOMEM"
  BY <1>2 DEF NomemInv
<1>3. CASE status # "NOMEM"
  <2>1. unread = << >> /\ NewlineSeen
    BY <1>1, <1>3 DEF LingerInv, InLine
  <2>2. lexed.text = "NEWLINE" /\ status = "MORE"
    BY <2>1, <1>3 DEF NewlineSeen, HasNewline, LingerInv
  <2>3. LineHasOutput
    BY OutputOfInv
  <2> QED BY <1>1, <2>2, <2>3 DEF LineHasOutput, LineParsed
<1> QED BY <1>2, <1>3

LEMMA NulFreeStep ==
    /\ BufferInv /\ PushInv /\ CallsInv /\ LingerInv /\ NomemInv
    /\ NulFreeInv /\ AnyStep
    => NulFreeInv'
<1> SUFFICES ASSUME BufferInv, PushInv, CallsInv, LingerInv, NomemInv,
                    NulFreeInv, AnyStep, NulFree'
             PROVE  NulFreeInv'
  BY DEF NulFreeInv
<1> USE DEF InLine
<1>1. ASSUME NEW chunk, PushData(chunk) PROVE NulFreeInv'
  <2>1. /\ pc \in {"idle", "callback"}
        /\ pc' \in {"idle", "callback", "next_line"}
        /\ UNCHANGED <<pushVars, consumed, failed, faults, dropped>>
    BY <1>1 DEF PushData
  <2> QED BY <2>1 DEF NulFreeInv, NulFree, Resynced, pushVars
<1>2. CASE PushNotStored
  <2>1. /\ pc \in {"idle", "callback"} /\ pc' = "broken"
        /\ faults' = faults + 1 /\ dropped' = dropped \cup {"buffer"}
        /\ UNCHANGED <<pushVars, consumed>>
    BY <1>2 DEF PushNotStored
  <2>2. faults' # 0
    BY <2>1 DEF CallsInv
  <2> QED BY <2>1, <2>2 DEF NulFreeInv, NulFree, Resynced, pushVars
<1>3. CASE GetNextLine
  <2>1. NulFree /\ HasNewline(line')
    BY <1>3, ConsumedGrows
  <2>2. /\ pc = "next_line" /\ pc' = "lex" /\ abandoned' = ~Resynced
        /\ UNCHANGED <<stack, failed, faults, dropped>>
    BY <1>3 DEF GetNextLine, BeginLine
  <2> QED BY <2>1, <2>2 DEF NulFreeInv
<1>4. CASE NoMoreLines
  <2>1. /\ pc = "next_line" /\ pc' \in {"idle", "callback"} /\ ~failed'
        /\ UNCHANGED <<pushVars, consumed, faults, dropped>>
    BY <1>4 DEF NoMoreLines, Return
  <2> QED BY <2>1 DEF NulFreeInv, NulFree, Resynced, pushVars
<1>5. CASE LineNotCopied
  <2>1. /\ pc = "next_line" /\ pc' \in {"idle", "callback"}
        /\ faults' = faults + 1
        /\ UNCHANGED <<pushVars, consumed, dropped>>
    BY <1>5 DEF LineNotCopied, Return
  <2>2. faults' # 0
    BY <2>1 DEF CallsInv
  <2> QED BY <2>1, <2>2 DEF NulFreeInv, NulFree, Resynced, pushVars
<1>6. CASE LexToken \/ SkipBlank \/ EndOfLine
  <2>1. /\ pc = "lex" /\ pc' \in {"lex", "push", "check"}
        /\ UNCHANGED <<abandoned, line, consumed, failed, faults, dropped>>
    BY <1>6 DEF LexToken, SkipBlank, EndOfLine, GiveToken, pushVars
  <2> QED BY <2>1 DEF NulFreeInv, NulFree, HasNewline
<1>7. CASE ParseToken
  <2>1. /\ pc = "push" /\ pc' \in {"lex", "push", "check"} /\ PushStep
        /\ UNCHANGED <<line, consumed, failed, faults, dropped>>
    BY <1>7 DEF ParseToken
  <2>2. abandoned' = abandoned
    BY <2>1, PushStepStatus
  <2> QED BY <2>1, <2>2 DEF NulFreeInv, NulFree, HasNewline
<1>8. CASE Deliver
  <2>1. /\ pc = "check" /\ pc' = "callback"
        /\ UNCHANGED <<pushVars, consumed, failed, faults, dropped>>
    BY <1>8 DEF Deliver
  <2>2. NulFree /\ HasNewline(line)
    BY <2>1 DEF NulFreeInv, NulFree
  <2>3. Resynced
    BY <2>1, <2>2, LineEndsInSync
  <2> QED BY <2>1, <2>2, <2>3 DEF NulFreeInv, Resynced, pushVars
<1>9. CASE FailLine
  <2>1. /\ pc = "check" /\ pc' \in {"idle", "callback"} /\ ~LineParsed
        /\ dropped' = dropped \cup (IF output = NoOutput THEN {}
                                    ELSE {"output"})
        /\ UNCHANGED <<pushVars, consumed, faults>>
    BY <1>9 DEF FailLine, Return
  <2>2. NulFree /\ HasNewline(line)
    BY <2>1 DEF NulFreeInv, NulFree
  <2>3. Resynced /\ output # NoOutput
    BY <2>1, <2>2, LineEndsInSync, RefusedIsTooDeep
  <2> QED BY <2>1, <2>2, <2>3 DEF NulFreeInv, Resynced, pushVars
<1>10. CASE Destroy
  <2>1. /\ pc \in {"idle", "broken"} /\ pc' = "destroyed"
        /\ dropped' = dropped
                      \cup ({stack[i] : i \in 1..Len(stack)} \cap Owning)
        /\ UNCHANGED <<pushVars, consumed, failed, faults>>
    BY <1>10 DEF Destroy
  <2>2. NulFree /\ Resynced
    BY <2>1 DEF NulFreeInv, NulFree
  <2>3. {stack[i] : i \in 1..Len(stack)} \cap Owning = {}
    BY <2>2, TokenSymbols DEF Resynced, Owning
  <2> QED BY <2>1, <2>2, <2>3 DEF NulFreeInv, Resynced, pushVars
<1>11. CASE CallbackReturns \/ Crash
  <2>1. /\ pc \in {"callback", "broken"} /\ pc' \in {"next_line", "crashed"}
        /\ UNCHANGED <<pushVars, consumed, failed, faults, dropped>>
    BY <1>11 DEF CallbackReturns, Crash
  <2> QED BY <2>1 DEF NulFreeInv, NulFree, Resynced, pushVars
<1>12. CASE UNCHANGED vars
  BY <1>12 DEF NulFreeInv, NulFree, Resynced, HasNewline, vars,
     parserVars, pushVars
<1> QED BY <1>1, <1>2, <1>3, <1>4, <1>5, <1>6, <1>7, <1>8, <1>9, <1>10,
           <1>11, <1>12 DEF AnyStep, Library

LEMMA NulFreeInit == Init => NulFreeInv /\ NomemInv
<1> SUFFICES ASSUME Init PROVE NulFreeInv /\ NomemInv
  OBVIOUS
<1>1. /\ stack = <<"bottom">> /\ status = "UNINIT" /\ pc = "idle"
      /\ dropped = {} /\ ~failed
  BY DEF Init, PushInit
<1> QED BY <1>1 DEF NulFreeInv, NomemInv, Resynced, InLine

-----------------------------------------------------------------------------
(* The parser under a client of any kind.                                  *)

ParserInv ==
    /\ BufferInv /\ LineInv /\ CallsInv
    /\ PushInv /\ LingerInv /\ NomemInv /\ NulFreeInv

LEMMA ParserInvInit == Init => ParserInv
BY BufferInit, LineInit, CallsInit, InitInv, LingerInit, NulFreeInit
   DEF Init, ParserInv

LEMMA ParserInvStep ==
    ASSUME EveryColumn
    PROVE  ParserInv /\ AnyStep => ParserInv'
BY BufferStep, LineStep, CallsStep, PushParserStep, PushInvStep, LingerStep,
   NomemStep, NulFreeStep DEF ParserInv

LEMMA ParserInvHolds ==
    ASSUME EveryColumn
    PROVE  Spec => []ParserInv
BY ParserInvInit, ParserInvStep, NextIsStep, PTL DEF Spec

\* In a stream without NUL every push succeeds for which there is memory, but
\* for one with a line too deep, and nothing is lost but what such a line's
\* error and a buffer that cannot grow take with them; gdbwire_mi_parser_destroy
\* finds no value on the push parser's stack.
THEOREM OnlyNulFails ==
    ASSUME EveryColumn
    PROVE  Spec => []FailsOnlyOnNul
<1>1. ParserInv => FailsOnlyOnNul
  BY DEF ParserInv, NulFreeInv, FailsOnlyOnNul, NulFree
<1> QED BY <1>1, ParserInvHolds, PTL

-----------------------------------------------------------------------------
(* Columns.                                                                *)

\* There are such sums for every stretch of a line, however long.
LEMMA SumsExist ==
    ASSUME NEW s \in Seq(Input), NEW n \in 0..Len(s)
    PROVE  \E f \in [0..n -> Nat] :
              f[0] = 0 /\ \A k \in 1..n : f[k] = f[k - 1] + Width[s[k]]
<1> DEFINE Sums(f, m) ==
             /\ f \in [0..m -> Nat] /\ f[0] = 0
             /\ \A k \in 1..m : f[k] = f[k - 1] + Width[s[k]]
           T == {m \in 0..Len(s) : ~\E f : Sums(f, m)}
<1>1. SUFFICES ASSUME T # {} PROVE FALSE
  <2>1. n \notin T
    BY <1>1
  <2> QED BY <2>1
<1>2. PICK m \in T : \A j \in T : m <= j
  <2>1. T \in SUBSET Nat
    OBVIOUS
  <2> HIDE DEF T
  <2> QED BY <1>1, <2>1, LeastOf
<1>3. m # 0
  <2>1. Sums([k \in 0..0 |-> 0], 0)
    OBVIOUS
  <2> HIDE DEF Sums
  <2> QED BY <2>1
<1>4. m \in 1..Len(s) /\ m - 1 \in 0..Len(s) /\ m - 1 \notin T
  <2>1. m \in 1..Len(s) /\ m - 1 \in 0..Len(s) /\ ~(m <= m - 1)
    <3>1. m \in 0..Len(s)
      BY <1>2
    <3> QED BY <1>3, <3>1
  <2> HIDE DEF T
  <2> QED BY <1>2, <2>1
<1>5. PICK f : Sums(f, m - 1)
  BY <1>4
<1> DEFINE g == [k \in 0..m |-> IF k < m THEN f[k]
                                ELSE f[m - 1] + Width[s[m]]]
<1>6. Width[s[m]] \in Nat
  BY <1>4, WidthAssumption
<1>7. Sums(g, m)
  <2>1. \A k \in 0..(m - 1) : f[k] \in Nat
    BY <1>4, <1>5
  <2>2. g \in [0..m -> Nat]
    BY <1>4, <1>6, <2>1
  <2>3. g[0] = 0
    BY <1>4, <1>5
  <2>4. ASSUME NEW k \in 1..m PROVE g[k] = g[k - 1] + Width[s[k]]
    BY <1>4, <1>5, <2>4
  <2> QED BY <2>2, <2>3, <2>4
<1> HIDE DEF Sums
<1> QED BY <1>2, <1>7

\* What Bytes is.
LEMMA BytesFacts ==
    ASSUME NEW s \in Seq(Input)
    PROVE  /\ Bytes(s)[0] = 0
           /\ \A k \in 0..Len(s) : Bytes(s)[k] \in Nat
           /\ \A k \in 1..Len(s) : Bytes(s)[k] = Bytes(s)[k - 1] + Width[s[k]]
<1> DEFINE P(f) == f = [n \in 0..Len(s) |-> IF n = 0 THEN 0
                                            ELSE f[n - 1] + Width[s[n]]]
           B == Bytes(s)
<1>1. Len(s) \in Nat
  OBVIOUS
<1>2. PICK f \in [0..Len(s) -> Nat] :
          f[0] = 0 /\ \A k \in 1..Len(s) : f[k] = f[k - 1] + Width[s[k]]
  <2>1. Len(s) \in 0..Len(s)
    BY <1>1
  <2> QED BY <2>1, SumsExist, Zenon
<1>3. P(f)
  <2> DEFINE g == [n \in 0..Len(s) |-> IF n = 0 THEN 0
                                       ELSE f[n - 1] + Width[s[n]]]
  <2>1. \A n \in 0..Len(s) : f[n] = g[n]
    BY <1>1, <1>2
  <2> QED BY <1>2, <2>1
<1>4. B = CHOOSE h : P(h)
  BY DEF Bytes
<1>5. P(B)
  <2> HIDE DEF P, B
  <2> QED BY <1>3, <1>4
<1> HIDE DEF B
<1>6. B[0] = 0 /\ \A k \in 1..Len(s) : B[k] = B[k - 1] + Width[s[k]]
  <2>1. \A n \in 0..Len(s) :
            B[n] = IF n = 0 THEN 0 ELSE B[n - 1] + Width[s[n]]
    BY <1>5
  <2> QED BY <1>1, <2>1
<1>7. \A k \in 0..Len(s) : B[k] \in Nat
  <2> DEFINE T == {k \in 0..Len(s) : B[k] \notin Nat}
  <2>1. SUFFICES ASSUME T # {} PROVE FALSE
    OBVIOUS
  <2>2. PICK m \in T : \A j \in T : m <= j
    <3>1. T \in SUBSET Nat
      OBVIOUS
    <3> HIDE DEF T
    <3> QED BY <2>1, <3>1, LeastOf
  <2>3. m # 0 /\ m \in 1..Len(s) /\ m - 1 \in 0..Len(s)
    BY <1>6, <2>2
  <2>4. B[m - 1] \in Nat
    BY <2>2, <2>3
  <2>5. Width[s[m]] \in Nat
    BY <2>3, WidthAssumption
  <2> QED BY <1>6, <2>2, <2>3, <2>4, <2>5
<1> QED BY <1>6, <1>7 DEF B

\* A newline stands at the end of its line, and is one token there.
LineShape(s) ==
    \A i \in 1..Len(s) :
        s[i] \in Newlines =>
            \/ i = Len(s)
            \/ i = Len(s) - 1 /\ s[i] = "CR" /\ s[i + 1] = "LF"

\* What a C string is of a string.
LEMMA CStringCases ==
    ASSUME NEW s \in Seq(Input), CString(s) # s
    PROVE  \E k \in 1..Len(s) : s[k] = "NUL" /\ CString(s) = SubSeq(s, 1, k - 1)
<1> DEFINE First(k) == s[k] = "NUL" /\ \A j \in 1..(k - 1) : s[j] # "NUL"
           T == {i \in 1..Len(s) : s[i] = "NUL"}
           k == CHOOSE k \in 1..Len(s) : First(k)
<1>1. T # {}
  BY DEF CString
<1>2. PICK i \in T : \A j \in T : i <= j
  <2>1. T \in SUBSET Nat
    OBVIOUS
  <2> HIDE DEF T
  <2> QED BY <1>1, <2>1, LeastOf
<1>3. i \in 1..Len(s) /\ First(i)
  BY <1>2
<1>4. k \in 1..Len(s) /\ First(k)
  <2> HIDE DEF First
  <2> QED BY <1>3
<1>5. CString(s) = SubSeq(s, 1, k - 1)
  BY <1>1 DEF CString
<1> QED BY <1>4, <1>5

\* get_next_line cuts such lines.
LEMMA CutShape ==
    ASSUME NEW b \in Seq(Input), HasNewline(b)
    PROVE  LineShape(CString(SubSeq(b, 1, LineLength(b))))
<1> DEFINE i == FirstNewline(b)
           n == LineLength(b)
           s == SubSeq(b, 1, n)
<1>1. i \in 1..Len(b) /\ b[i] \in Newlines
      /\ \A j \in 1..(i - 1) : b[j] \notin Newlines
  BY FirstNewlineIsThere
<1>2. /\ n \in 1..Len(b)
      /\ n = i \/ (n = i + 1 /\ b[i] = "CR" /\ b[i + 1] = "LF")
  BY LineLengthFits DEF LineLength
<1> HIDE DEF i, n
<1>3. s \in Seq(Input) /\ Len(s) = n /\ \A j \in 1..n : s[j] = b[j]
  BY <1>2
<1>4. \A j \in 1..n : j < i => s[j] \notin Newlines
  BY <1>1, <1>2, <1>3
<1> HIDE DEF s
<1>5. CASE CString(s) = s
  BY <1>1, <1>2, <1>3, <1>4, <1>5 DEF LineShape, s, n
<1>6. CASE CString(s) # s
  <2>1. PICK k \in 1..n : s[k] = "NUL" /\ CString(s) = SubSeq(s, 1, k - 1)
    BY <1>3, <1>6, CStringCases
  <2>2. k < i
    BY <1>1, <1>2, <1>3, <2>1 DEF Newlines
  <2>3. \A j \in 1..Len(CString(s)) : CString(s)[j] \notin Newlines
    BY <1>1, <1>2, <1>3, <1>4, <2>1, <2>2
  <2> QED BY <2>3 DEF LineShape, s, n
<1> QED BY <1>5, <1>6

\* How far the lexer is in its line, in elements and in bytes.
AtColumn(k) ==
    /\ k \in 0..Len(line)
    /\ unread = SubSeq(line, k + 1, Len(line))
    /\ column = Bytes(line)[k] + 1

\* What the next n elements are.
LEMMA NextElements ==
    ASSUME LineInv, NEW k, AtColumn(k)
    PROVE  /\ line \in Seq(Input) /\ Len(line) \in Nat
           /\ k \in Nat /\ Len(unread) = Len(line) - k
           /\ \A i \in 1..Len(unread) : unread[i] = line[k + i]
           /\ \A n \in 0..Len(unread) :
                 SubSeq(unread, n + 1, Len(unread))
                    = SubSeq(line, k + n + 1, Len(line))
<1>1. line \in Seq(Input) /\ k \in 0..Len(line)
      /\ unread = SubSeq(line, k + 1, Len(line))
  BY DEF LineInv, Clean, AtColumn
<1>2. Len(line) \in Nat /\ k \in Nat
  BY <1>1
<1>3. Len(unread) = Len(line) - k
      /\ \A i \in 1..Len(unread) : unread[i] = line[k + i]
  BY <1>1, <1>2
<1>4. ASSUME NEW n \in 0..Len(unread)
      PROVE  SubSeq(unread, n + 1, Len(unread))
                = SubSeq(line, k + n + 1, Len(line))
  <2>1. k + n \in 0..Len(line)
    BY <1>2, <1>3
  <2>2. unread \in Seq(Input)
    BY <1>1
  <2> DEFINE s == SubSeq(unread, n + 1, Len(unread))
             t == SubSeq(line, k + n + 1, Len(line))
  <2>3. s \in Seq(Input) /\ Len(s) = Len(unread) - n
        /\ \A i \in 1..Len(s) : s[i] = unread[n + i]
    BY <2>2
  <2>4. t \in Seq(Input) /\ Len(t) = Len(line) - (k + n)
        /\ \A i \in 1..Len(t) : t[i] = line[k + n + i]
    BY <1>1, <2>1
  <2> HIDE DEF s, t
  <2>5. Len(s) = Len(t) /\ \A i \in 1..Len(s) : s[i] = t[i]
    BY <1>2, <1>3, <2>3, <2>4
  <2>6. s = t
    BY <2>3, <2>4, <2>5, SeqEqual
  <2> QED BY <2>6 DEF s, t
<1> QED BY <1>1, <1>2, <1>3, <1>4

\* The lexer's columns are those of what it matches.
LEMMA MatchPoints ==
    ASSUME LineInv, LineShape(line), NEW k, AtColumn(k),
           unread # << >>, unread[1] # "blank"
    PROVE  /\ PointsAt(line, Match.text,
                       <<column, column + Match.bytes - 1>>)
           /\ k + Match.size \in 0..Len(line)
           /\ SubSeq(unread, Match.size + 1, Len(unread))
                 = SubSeq(line, k + Match.size + 1, Len(line))
           /\ column + Match.bytes = Bytes(line)[k + Match.size] + 1
<1> DEFINE B == Bytes(line)
           n == Match.size
<1>1. /\ line \in Seq(Input) /\ Len(line) \in Nat /\ k \in Nat
      /\ Len(unread) = Len(line) - k
      /\ \A i \in 1..Len(unread) : unread[i] = line[k + i]
      /\ \A m \in 0..Len(unread) :
            SubSeq(unread, m + 1, Len(unread))
               = SubSeq(line, k + m + 1, Len(line))
  BY NextElements
<1>2. Len(unread) >= 1 /\ unread[1] = line[k + 1] /\ k + 1 \in 1..Len(line)
  <2>1. unread \in Seq(Input)
    BY DEF LineInv, Clean
  <2>2. Len(unread) >= 1
    BY <2>1
  <2> QED BY <1>1, <2>2
<1>3. column = B[k] + 1
  BY DEF AtColumn
<1>4. /\ \A j \in 0..Len(line) : B[j] \in Nat
      /\ \A j \in 1..Len(line) : B[j] = B[j - 1] + Width[line[j]]
  BY <1>1, BytesFacts
<1> HIDE DEF B
<1>5. ASSUME NEW i \in 1..Len(line), NEW j \in 1..Len(line), i = k + 1,
             j = k + n, Match.bytes = B[j] - B[k],
             \/ i = j /\ line[i] = Match.text
             \/ /\ Match.text = "NEWLINE" /\ j = Len(line)
                /\ \A m \in i..j : line[m] \in Newlines
      PROVE  /\ PointsAt(line, Match.text,
                         <<column, column + Match.bytes - 1>>)
             /\ k + n \in 0..Len(line)
             /\ column + Match.bytes = B[k + n] + 1
  <2>1. B[j] \in Nat /\ B[k] \in Nat /\ i - 1 = k
    BY <1>1, <1>4, <1>5
  <2>2. Span(line, i, j) = <<column, column + Match.bytes - 1>>
    <3>1. Span(line, i, j) = <<B[i - 1] + 1, B[j]>>
      BY DEF Span, B
    <3>2. B[i - 1] + 1 = column /\ B[j] = column + Match.bytes - 1
      BY <1>3, <1>5, <2>1
    <3> QED BY <3>1, <3>2
  <2>3. PointsAt(line, Match.text, <<column, column + Match.bytes - 1>>)
    BY <1>5, <2>2 DEF PointsAt
  <2>4. k + n \in 0..Len(line) /\ B[k + n] = B[j]
    BY <1>1, <1>5
  <2>5. column + Match.bytes = B[j] + 1
    BY <1>3, <1>5, <2>1
  <2> QED BY <2>3, <2>4, <2>5
<1>6. CASE Len(unread) > 1 /\ unread[1] = "CR" /\ unread[2] = "LF"
  <2>1. /\ n = 2 /\ Match.text = "NEWLINE"
        /\ Match.bytes = Width["CR"] + Width["LF"]
    BY <1>6 DEF Match
  <2>2. k + 2 \in 1..Len(line) /\ line[k + 1] = "CR" /\ line[k + 2] = "LF"
    BY <1>1, <1>2, <1>6
  <2>3. k + 2 = Len(line)
    BY <2>2 DEF LineShape, Newlines
  <2>4. B[k + 2] - B[k] = Match.bytes
    <3>1. /\ B[k + 2] = B[k + 1] + Width[line[k + 2]]
          /\ B[k + 1] = B[k] + Width[line[k + 1]]
      <4>1. (k + 2) - 1 = k + 1 /\ (k + 1) - 1 = k
        BY <1>1
      <4> QED BY <1>2, <1>4, <2>2, <4>1
    <3>2. B[k] \in Nat /\ Width["CR"] \in Nat /\ Width["LF"] \in Nat
      <4>1. "CR" \in Input /\ "LF" \in Input
        BY <1>1, <1>2, <2>2
      <4>2. k \in 0..Len(line)
        BY <1>1, <1>2
      <4> QED BY <1>4, <4>1, <4>2, WidthAssumption
    <3> QED BY <2>1, <2>2, <3>1, <3>2
  <2>5. \A m \in (k + 1)..(k + 2) : line[m] \in Newlines
    BY <1>1, <2>2 DEF Newlines
  <2>6. 2 \in 0..Len(unread)
    BY <1>1, <1>6
  <2> HIDE DEF n
  <2> QED BY <1>1, <1>2, <1>5, <2>1, <2>2, <2>3, <2>4, <2>5, <2>6 DEF n, B
<1>7. CASE ~(Len(unread) > 1 /\ unread[1] = "CR" /\ unread[2] = "LF")
  <2>1. /\ n = 1 /\ Match.bytes = Width[line[k + 1]]
        /\ Match.text = IF line[k + 1] \in Newlines THEN "NEWLINE"
                        ELSE line[k + 1]
    BY <1>2, <1>7 DEF Match
  <2>2. line[k + 1] \in Newlines => k + 1 = Len(line)
    <3>1. SUFFICES ASSUME k + 1 = Len(line) - 1, line[k + 1] = "CR",
                          line[(k + 1) + 1] = "LF"
                   PROVE  FALSE
      BY <1>2 DEF LineShape
    <3>2. Len(unread) = 2 /\ unread[2] = line[k + 2]
      BY <1>1, <3>1
    <3> QED BY <1>1, <1>2, <1>7, <3>1, <3>2
  <2>3. B[k + 1] - B[k] = Match.bytes
    <3>1. B[k + 1] = B[k] + Width[line[k + 1]]
      <4>1. (k + 1) - 1 = k
        BY <1>1
      <4> QED BY <1>2, <1>4, <4>1
    <3>2. B[k] \in Nat /\ Width[line[k + 1]] \in Nat
      <4>1. line[k + 1] \in Input /\ k \in 0..Len(line)
        BY <1>1, <1>2
      <4> QED BY <1>4, <4>1, WidthAssumption
    <3> QED BY <2>1, <3>1, <3>2
  <2>4. \A m \in (k + 1)..(k + 1) : m = k + 1
    BY <1>1
  <2>5. 1 \in 0..Len(unread)
    BY <1>1, <1>2
  <2>6. \/ line[k + 1] = Match.text
        \/ /\ Match.text = "NEWLINE" /\ k + 1 = Len(line)
           /\ \A m \in (k + 1)..(k + 1) : line[m] \in Newlines
    BY <2>1, <2>2, <2>4
  <2> HIDE DEF n
  <2> QED BY <1>1, <1>2, <1>5, <2>1, <2>3, <2>5, <2>6 DEF n, B
<1> QED BY <1>6, <1>7

\* The errors the push parser reports are at the token it was given.
LEMMA ErrorIsLexed ==
    ASSUME PushInv, PushStep, output'.kind = "PARSE_ERROR"
    PROVE  output' = output \/ output' = ParseError(lexed)
<1>1. CASE Shift \/ NeedToken
  BY <1>1 DEF Shift, NeedToken
<1>2. ASSUME NEW r \in Rules, Reduce(r)
      PROVE  output' = output
  <2>1. CASE r.rhs = <<"output_variant", "NEWLINE">>
    <3>1. output' = [kind |-> variant]
      BY <1>2, <2>1 DEF Reduce, Emits
    <3>2. variant # "PARSE_ERROR"
      BY DEF PushInv, PushTypeOK, Kinds
    <3> QED BY <3>1, <3>2
  <2>2. CASE r.rhs # <<"output_variant", "NEWLINE">>
    BY <1>2, <2>2 DEF Reduce
  <2> QED BY <2>1, <2>2
<1>3. ASSUME NEW r \in Rules, RejectPrompt(r)
      PROVE  output' = ParseError(lexed)
  BY <1>3 DEF RejectPrompt, Emits
<1>4. CASE SyntaxError \/ Exhausted
  BY <1>4 DEF SyntaxError, Exhausted, Emits
<1> QED BY <1>1, <1>2, <1>3, <1>4 DEF PushStep

ColumnInv ==
    /\ InLine => LineShape(line) /\ \E k : AtColumn(k)
    /\ InLine /\ status # "UNINIT" => PointsAt(line, lexed.text, lexed.pos)
    /\ InLine /\ output.kind = "PARSE_ERROR" =>
          PointsAt(line, output.token, output.pos)
    /\ ErrorsPointAtTheirToken

LEMMA ColumnStep == ParserInv /\ ColumnInv /\ AnyStep => ColumnInv'
<1> SUFFICES ASSUME BufferInv, LineInv, CallsInv, PushInv, LingerInv,
                    ColumnInv, AnyStep
             PROVE  ColumnInv'
  BY DEF ParserInv
<1> USE DEF InLine
<1>1. ASSUME ~InLine', UNCHANGED delivered PROVE ColumnInv'
  BY <1>1 DEF ColumnInv, ErrorsPointAtTheirToken
<1>2. ASSUME NEW chunk, PushData(chunk) PROVE ColumnInv'
  <2>1. pc' \in {"idle", "callback", "next_line"} /\ UNCHANGED delivered
    BY <1>2 DEF PushData
  <2> QED BY <1>1, <2>1
<1>3. CASE PushNotStored \/ NoMoreLines \/ LineNotCopied \/ FailLine
           \/ CallbackReturns \/ Crash \/ Destroy
  <2>1. /\ pc' \in {"idle", "callback", "next_line", "broken", "crashed",
                    "destroyed"}
        /\ UNCHANGED delivered
    BY <1>3 DEF PushNotStored, NoMoreLines, LineNotCopied, FailLine,
       CallbackReturns, Crash, Destroy, Return
  <2> QED BY <1>1, <2>1
<1>4. CASE GetNextLine
  <2>1. /\ line' = CString(SubSeq(buffer, 1, LineLength(buffer)))
        /\ unread' = line' /\ column' = 1 /\ status' = "UNINIT"
        /\ output' = NoOutput /\ UNCHANGED delivered
        /\ buffer \in Seq(Input) /\ HasNewline(buffer)
    BY <1>4 DEF GetNextLine, BeginLine, BufferInv
  <2>2. LineShape(line')
    BY <2>1, CutShape
  <2>3. line' \in Seq(Input)
    <3>1. SubSeq(buffer, 1, LineLength(buffer)) \in Seq(Input)
      BY <2>1, CutLine
    <3> QED BY <2>1, <3>1, CStringIsClean
  <2>4. AtColumn(0)'
    <3>1. Bytes(line')[0] = 0
      BY <2>3, BytesFacts
    <3>2. SubSeq(line', 1, Len(line')) = line' /\ Len(line') \in Nat
      BY <2>3
    <3> QED BY <2>1, <3>1, <3>2 DEF AtColumn
  <2>5. output'.kind # "PARSE_ERROR"
    BY <2>1 DEF NoOutput
  <2> QED BY <2>1, <2>2, <2>4, <2>5 DEF ColumnInv, ErrorsPointAtTheirToken
<1>5. CASE LexToken
  <2>1. /\ pc = "lex" /\ unread # << >> /\ unread[1] # "blank"
        /\ unread' = SubSeq(unread, Match.size + 1, Len(unread))
        /\ column' = column + Match.bytes
        /\ lexed' = [text |-> Match.text,
                     pos |-> <<column, column + Match.bytes - 1>>]
        /\ UNCHANGED <<line, delivered, output>>
    BY <1>5 DEF LexToken, GiveToken
  <2>2. PICK k : AtColumn(k)
    BY <2>1 DEF ColumnInv
  <2>3. LineShape(line)
    BY <2>1 DEF ColumnInv
  <2>4. /\ PointsAt(line, Match.text, <<column, column + Match.bytes - 1>>)
        /\ k + Match.size \in 0..Len(line)
        /\ unread' = SubSeq(line, k + Match.size + 1, Len(line))
        /\ column' = Bytes(line)[k + Match.size] + 1
    BY <2>1, <2>2, <2>3, MatchPoints
  <2>5. ASSUME NEW n, n = k + Match.size PROVE AtColumn(n)'
    BY <2>1, <2>4, <2>5 DEF AtColumn
  <2>6. \E i : AtColumn(i)'
    BY <2>5
  <2>7. PointsAt(line', lexed'.text, lexed'.pos)
    BY <2>1, <2>4
  <2> QED BY <2>1, <2>3, <2>6, <2>7 DEF ColumnInv, ErrorsPointAtTheirToken
<1>6. CASE SkipBlank
  <2>1. /\ pc = "lex" /\ unread # << >> /\ unread[1] = "blank"
        /\ unread' = Tail(unread) /\ column' = column + Width["blank"]
        /\ UNCHANGED <<line, delivered, pushVars>>
    BY <1>6 DEF SkipBlank
  <2>2. PICK k : AtColumn(k)
    BY <2>1 DEF ColumnInv
  <2>3. /\ line \in Seq(Input) /\ Len(line) \in Nat /\ k \in Nat
        /\ Len(unread) = Len(line) - k /\ unread \in Seq(Input)
    BY <2>2, NextElements DEF LineInv, Clean
  <2>4. 1 \in 0..Len(unread) /\ k + 1 \in 1..Len(line)
    BY <2>1, <2>3
  <2>5. line[k + 1] = "blank"
        /\ unread' = SubSeq(line, k + 2, Len(line))
    <3>1. unread[1] = line[k + 1]
          /\ SubSeq(unread, 2, Len(unread)) = SubSeq(line, k + 2, Len(line))
      <4>1. 1 \in 1..Len(unread) /\ k + 1 + 1 = k + 2 /\ 1 + 1 = 2
        BY <2>3, <2>4
      <4> QED BY <2>2, <2>4, <4>1, NextElements
    <3>2. Tail(unread) = SubSeq(unread, 2, Len(unread))
      BY <2>1, <2>3
    <3> QED BY <2>1, <3>1, <3>2
  <2>6. column' = Bytes(line)[k + 1] + 1
    <3>1. column = Bytes(line)[k] + 1
      BY <2>2 DEF AtColumn
    <3>2. Bytes(line)[k + 1] = Bytes(line)[k] + Width["blank"]
      <4>1. (k + 1) - 1 = k
        BY <2>3
      <4> QED BY <2>3, <2>4, <2>5, <4>1, BytesFacts
    <3>3. Bytes(line)[k] \in Nat /\ Width["blank"] \in Nat
      <4>1. k \in 0..Len(line) /\ "blank" \in Input
        BY <2>3, <2>4, <2>5
      <4> QED BY <2>3, <4>1, BytesFacts, WidthAssumption
    <3> QED BY <2>1, <3>1, <3>2, <3>3
  <2>7. AtColumn(k + 1)'
    <3>1. k + 1 + 1 = k + 2 /\ k + 1 \in 0..Len(line)
      BY <2>3, <2>4
    <3> QED BY <2>1, <2>5, <2>6, <3>1 DEF AtColumn
  <2>8. \E i : AtColumn(i)'
    BY <2>7
  <2> QED BY <2>1, <2>8 DEF ColumnInv, ErrorsPointAtTheirToken, pushVars
<1>7. CASE ParseToken
  <2>1. /\ pc = "push" /\ PushStep
        /\ UNCHANGED <<line, unread, column, delivered>>
    BY <1>7 DEF ParseToken
  <2>2. status = "RUNNING" /\ lexed' = lexed
    BY <2>1, PushStepStatus
  <2>3. PointsAt(line, lexed.text, lexed.pos)
    BY <2>1, <2>2 DEF ColumnInv
  <2>4. output'.kind = "PARSE_ERROR" =>
            PointsAt(line, output'.token, output'.pos)
    <3>1. SUFFICES ASSUME output'.kind = "PARSE_ERROR"
                   PROVE  PointsAt(line, output'.token, output'.pos)
      OBVIOUS
    <3>2. CASE output' = output
      BY <2>1, <3>1, <3>2 DEF ColumnInv
    <3>3. CASE output' = ParseError(lexed)
      <4>1. output'.token = lexed.text /\ output'.pos = lexed.pos
        BY <3>3 DEF ParseError
      <4> QED BY <2>3, <4>1
    <3> QED BY <2>1, <3>1, <3>2, <3>3, ErrorIsLexed
  <2>5. LineShape(line) /\ \E k : AtColumn(k)
    BY <2>1 DEF ColumnInv
  <2>6. \E k : AtColumn(k)'
    BY <2>1, <2>5 DEF AtColumn
  <2> QED BY <2>1, <2>2, <2>3, <2>4, <2>5, <2>6
          DEF ColumnInv, ErrorsPointAtTheirToken
<1>8. CASE EndOfLine
  <2>1. /\ pc = "lex"
        /\ UNCHANGED <<line, unread, column, delivered, pushVars>>
    BY <1>8 DEF EndOfLine
  <2>2. LineShape(line) /\ \E k : AtColumn(k)
    BY <2>1 DEF ColumnInv
  <2>3. \E k : AtColumn(k)'
    BY <2>1, <2>2 DEF AtColumn
  <2> QED BY <2>1, <2>2, <2>3 DEF ColumnInv, ErrorsPointAtTheirToken, pushVars
<1>9. CASE Deliver
  <2> DEFINE d == [output |-> output, line |-> line]
  <2>1. /\ pc = "check" /\ pc' = "callback"
        /\ delivered' = Append(delivered, d)
    BY <1>9 DEF Deliver
  <2>2. output.kind = "PARSE_ERROR" =>
            PointsAt(line, output.token, output.pos)
    BY <2>1 DEF ColumnInv
  <2>3. ErrorsPointAtTheirToken'
    <3>1. ASSUME NEW k \in 1..Len(delivered'),
                 delivered'[k].output.kind = "PARSE_ERROR"
          PROVE  PointsAt(delivered'[k].line, delivered'[k].output.token,
                          delivered'[k].output.pos)
      <4>1. CASE k \in 1..Len(delivered)
        <5>1. delivered'[k] = delivered[k]
          BY <2>1, <4>1
        <5> QED BY <3>1, <4>1, <5>1 DEF ColumnInv, ErrorsPointAtTheirToken
      <4>2. CASE k \notin 1..Len(delivered)
        <5>1. delivered'[k] = d
          BY <2>1, <4>2
        <5> QED BY <2>2, <3>1, <5>1
      <4> QED BY <4>1, <4>2
    <3> QED BY <3>1 DEF ErrorsPointAtTheirToken
  <2> QED BY <2>1, <2>3 DEF ColumnInv
<1>10. CASE UNCHANGED vars
  <2>1. (\E k : AtColumn(k)) => \E k : AtColumn(k)'
    BY <1>10 DEF AtColumn, vars, parserVars
  <2> QED BY <1>10, <2>1 DEF ColumnInv, ErrorsPointAtTheirToken, vars,
          parserVars, pushVars
<1> QED BY <1>2, <1>3, <1>4, <1>5, <1>6, <1>7, <1>8, <1>9, <1>10
        DEF AnyStep, Library

\* In every line of every stream, whatever a token is made of and whatever
\* white space is between them, the columns of a parse error are the bytes of
\* the token that it names.
THEOREM ErrorsAreWhereTheySay ==
    ASSUME EveryColumn
    PROVE  Spec => []ErrorsPointAtTheirToken
<1>1. Init => ColumnInv
  BY DEF Init, ColumnInv, ErrorsPointAtTheirToken, InLine
<1>2. ColumnInv => ErrorsPointAtTheirToken
  BY DEF ColumnInv
<1> QED BY <1>1, <1>2, ColumnStep, NextIsStep, ParserInvHolds, PTL DEF Spec

-----------------------------------------------------------------------------
(* Lines that are too deep are long.                                       *)

\* The token that was given to the push parser and not shifted yet.
Unshifted == IF lookahead = NoToken THEN 0 ELSE 1

\* What was shifted of a line is what is neither ahead nor held, and the stack
\* is no higher than that allows.
DepthInv ==
    /\ InLine /\ ~abandoned =>
          /\ Len(unread) + Unshifted <= Len(line)
          /\ Len(stack) <=
                3 + OnEmpty(stack) + 2 * (Len(line) - Len(unread) - Unshifted)
    /\ status = "NOMEM" /\ ~abandoned => MaxDepth <= 4 + 2 * Len(line)

LEMMA DepthStep ==
    ParserInv /\ ParserInv' /\ DepthInv /\ AnyStep => DepthInv'
<1> SUFFICES ASSUME ParserInv, ParserInv', DepthInv, AnyStep PROVE DepthInv'
  OBVIOUS
<1> USE DEF InLine
<1>1. /\ Len(line) \in Nat /\ Len(unread) \in Nat
      /\ Len(line') \in Nat /\ Len(unread') \in Nat
  BY DEF ParserInv, LineInv, Clean
<1>2. CASE UNCHANGED <<pushVars, line>> /\ ~InLine'
  BY <1>2 DEF DepthInv, pushVars
<1>3. CASE GetNextLine
  <2>1. /\ unread' = line' /\ status' = "UNINIT" /\ status # "RUNNING"
        /\ stack' = stack /\ lookahead' = lookahead /\ abandoned' = ~Resynced
    BY <1>3 DEF GetNextLine, BeginLine
  <2>2. Unshifted' = 0
    BY <2>1 DEF ParserInv, PushInv, TokenInv, Unshifted
  <2>3. ASSUME ~abandoned' PROVE Len(stack') \in {1, 2}
    <3>1. stack' = <<"bottom">> \/ stack' = <<"bottom", "output_list">>
      BY <2>1, <2>3 DEF Resynced
    <3> QED BY <3>1
  <2>4. OnEmpty(stack') \in {0, 1} /\ Len(stack') \in Nat
    BY DEF OnEmpty, ParserInv, PushInv, PushTypeOK
  <2>5. ASSUME ~abandoned'
        PROVE  /\ Len(unread') + Unshifted' <= Len(line')
               /\ Len(stack') <=
                     3 + OnEmpty(stack')
                       + 2 * (Len(line') - Len(unread') - Unshifted')
    <3> DEFINE n == Len(line')
               m == Len(stack')
               e == OnEmpty(stack')
    <3>1. n \in Nat /\ m \in {1, 2} /\ e \in {0, 1}
      BY <1>1, <2>3, <2>4, <2>5
    <3>2. Len(unread') = n /\ Unshifted' = 0
      BY <2>1, <2>2
    <3> HIDE DEF n, m, e
    <3>3. n + 0 <= n /\ m <= 3 + e + 2 * (n - n - 0)
      BY <3>1
    <3> QED BY <3>2, <3>3 DEF n, m, e
  <2> QED BY <2>1, <2>5 DEF DepthInv
<1>4. CASE LexToken
  <2>1. /\ pc = "lex" /\ line' = line /\ stack' = stack
        /\ status' = "RUNNING" /\ status # "RUNNING" /\ abandoned' = abandoned
        /\ lookahead' = TokenOf(Match.text)
        /\ unread \in Clean /\ unread # << >> /\ unread[1] # "blank"
        /\ unread' = SubSeq(unread, Match.size + 1, Len(unread))
    BY <1>4 DEF LexToken, GiveToken, ParserInv, LineInv
  <2>2. Match.size \in 1..Len(unread) /\ Match.text \in Lexemes
    BY <2>1, MatchFacts
  <2>3. Unshifted = 0 /\ Unshifted' = 1
    BY <2>1, <2>2, TokenFacts DEF ParserInv, PushInv, TokenInv, Unshifted
  <2>4. Len(unread') <= Len(unread) - 1
    BY <1>1, <2>1, <2>2 DEF Clean
  <2>5. OnEmpty(stack) \in {0, 1} /\ Len(stack) \in Nat
    BY TypeStack DEF OnEmpty, ParserInv, Stack
  <2>6. OnEmpty(stack') = OnEmpty(stack)
    BY <2>1
  <2>7. CASE ~abandoned
    <3>1. /\ Len(unread) <= Len(line)
          /\ Len(stack) <= 3 + OnEmpty(stack) + 2 * (Len(line) - Len(unread))
      BY <1>1, <2>1, <2>3, <2>7 DEF DepthInv
    <3>2. Len(unread') + 1 <= Len(line)
      BY <1>1, <2>4, <3>1
    <3>3. Len(line) - Len(unread) <= Len(line) - Len(unread') - 1
      BY <1>1, <2>4
    <3>4. Len(stack) <= 3 + OnEmpty(stack) + 2 * (Len(line) - Len(unread') - 1)
      BY <1>1, <2>5, <3>1, <3>3
    <3> QED BY <2>1, <2>3, <2>6, <3>2, <3>4 DEF DepthInv
  <2> QED BY <2>1, <2>7 DEF DepthInv
<1>5. CASE SkipBlank
  <2>1. /\ pc = "lex" /\ line' = line /\ UNCHANGED pushVars
        /\ unread \in Clean /\ unread # << >> /\ unread' = Tail(unread)
    BY <1>5 DEF SkipBlank, ParserInv, LineInv
  <2>2. /\ stack' = stack /\ lookahead' = lookahead /\ status' = status
        /\ abandoned' = abandoned
    BY <2>1 DEF pushVars
  <2>3. Len(unread') = Len(unread) - 1
    BY <1>1, <2>1 DEF Clean
  <2>4. /\ OnEmpty(stack) \in {0, 1} /\ Len(stack) \in Nat
        /\ Unshifted \in {0, 1}
        /\ OnEmpty(stack') = OnEmpty(stack) /\ Unshifted' = Unshifted
    BY <2>2, TypeStack DEF OnEmpty, Unshifted, ParserInv, Stack
  <2>5. CASE ~abandoned
    <3>1. /\ Len(unread) + Unshifted <= Len(line)
          /\ Len(stack) <=
                3 + OnEmpty(stack) + 2 * (Len(line) - Len(unread) - Unshifted)
      BY <2>1, <2>5 DEF DepthInv
    <3>2. Len(unread') + Unshifted <= Len(line)
      BY <1>1, <2>3, <2>4, <3>1
    <3>3. Len(stack) <=
             3 + OnEmpty(stack) + 2 * (Len(line) - Len(unread') - Unshifted)
      BY <1>1, <2>3, <2>4, <3>1
    <3> QED BY <2>1, <2>2, <2>4, <3>2, <3>3 DEF DepthInv
  <2> QED BY <2>2, <2>1, <2>5 DEF DepthInv
<1>6. CASE ParseToken
  <2>1. /\ pc = "push" /\ PushStep /\ line' = line /\ unread' = unread
    BY <1>6 DEF ParseToken
  <2>2. abandoned' = abandoned
    BY <2>1, PushStepStatus
  <2>3. CASE ~abandoned
    <3> DEFINE k == Len(line) - Len(unread) - Unshifted
    <3>1. Unshifted \in {0, 1} /\ Unshifted' \in {0, 1}
      BY DEF Unshifted
    <3>2. /\ Len(unread) + Unshifted <= Len(line)
          /\ k \in Nat /\ Len(stack) <= 3 + OnEmpty(stack) + 2 * k
      BY <1>1, <2>1, <2>3, <3>1 DEF DepthInv
    <3>3. k = Len(line) - Len(unread) - Unshifted
      OBVIOUS
    <3> HIDE DEF k
    <3>4. /\ lookahead = NoToken => lookahead' = NoToken
          /\ IF lookahead' = lookahead
             THEN Len(stack') <= 3 + OnEmpty(stack') + 2 * k
             ELSE Len(stack') <= 3 + OnEmpty(stack') + 2 * (k + 1)
          /\ status' = "NOMEM" => MaxDepth <= 4 + 2 * k
      BY <2>1, <3>2, StepDepth DEF ParserInv
    <3>5. MaxDepth \in Nat
      BY MaxDepthAssumption
    <3>6. status' = "NOMEM" => MaxDepth <= 4 + 2 * Len(line)
      BY <1>1, <3>1, <3>2, <3>3, <3>4, <3>5
    <3>7. CASE lookahead' = lookahead
      <4>1. Unshifted' = Unshifted
        BY <3>7 DEF Unshifted
      <4> QED BY <2>1, <3>2, <3>3, <3>4, <3>6, <3>7, <4>1 DEF DepthInv
    <3>8. CASE lookahead' # lookahead
      <4>1. /\ lookahead # NoToken
            /\ lookahead \in {NoToken, TokenOf(lexed.text)}
            /\ lookahead' \in {NoToken, TokenOf(lexed'.text)}
            /\ lexed' = lexed
        BY <2>1, <3>4, <3>8, PushStepStatus DEF ParserInv, PushInv, TokenInv
      <4>2. Unshifted = 1 /\ Unshifted' = 0
        BY <3>8, <4>1 DEF Unshifted
      <4>3. /\ k + 1 = Len(line) - Len(unread) - Unshifted'
            /\ Len(unread) + Unshifted' <= Len(line)
        BY <1>1, <3>2, <3>3, <4>2
      <4> QED BY <2>1, <3>4, <3>6, <3>8, <4>3 DEF DepthInv
    <3> QED BY <3>7, <3>8
  <2> QED BY <2>2, <2>3 DEF DepthInv
<1>7. CASE EndOfLine
  <2>1. /\ pc = "lex" /\ UNCHANGED <<pushVars, line, unread>>
    BY <1>7 DEF EndOfLine
  <2>2. /\ stack' = stack /\ lookahead' = lookahead /\ status' = status
        /\ abandoned' = abandoned
    BY <2>1 DEF pushVars
  <2>3. Unshifted' = Unshifted /\ OnEmpty(stack') = OnEmpty(stack)
    BY <2>2 DEF Unshifted
  <2> QED BY <2>1, <2>2, <2>3 DEF DepthInv
<1>8. CASE UNCHANGED vars
  <2>1. /\ stack' = stack /\ lookahead' = lookahead /\ status' = status
        /\ abandoned' = abandoned /\ line' = line /\ unread' = unread
        /\ pc' = pc
    BY <1>8 DEF vars, parserVars, pushVars
  <2>2. Unshifted' = Unshifted /\ OnEmpty(stack') = OnEmpty(stack)
    BY <2>1 DEF Unshifted
  <2> QED BY <2>1, <2>2 DEF DepthInv
<1>9. ASSUME NEW chunk, PushData(chunk) PROVE DepthInv'
  <2>1. UNCHANGED <<pushVars, line>> /\ ~InLine'
    BY <1>9 DEF PushData
  <2> QED BY <1>2, <2>1
<1>10. CASE PushNotStored \/ NoMoreLines \/ LineNotCopied \/ Deliver
            \/ FailLine \/ CallbackReturns \/ Crash \/ Destroy
  <2>1. UNCHANGED <<pushVars, line>> /\ ~InLine'
    BY <1>10 DEF PushNotStored, NoMoreLines, LineNotCopied, Deliver, FailLine,
       CallbackReturns, Crash, Destroy, Return
  <2> QED BY <1>2, <2>1
<1> QED BY <1>3, <1>4, <1>5, <1>6, <1>7, <1>8, <1>9, <1>10 DEF AnyStep, Library

LEMMA DepthInit == Init => DepthInv
BY DEF Init, PushInit, DepthInv, InLine

\* Half as many tokens as the stack has states, at most.
ShortLine == 4 + 2 * Len(line) < MaxDepth

OnlyLongLinesAreTooDeep == status = "NOMEM" /\ ShortLine => abandoned

LEMMA LongLines ==
    ASSUME EveryColumn
    PROVE  Spec => []OnlyLongLinesAreTooDeep
<1>1. LineInv /\ DepthInv => OnlyLongLinesAreTooDeep
  <2>1. LineInv => Len(line) \in Nat /\ MaxDepth \in Nat
    BY MaxDepthAssumption DEF LineInv, Clean
  <2> QED BY <2>1 DEF DepthInv, OnlyLongLinesAreTooDeep, ShortLine
<1> QED BY <1>1, DepthInit, DepthStep, NextIsStep, ParserInvHolds, LineHolds,
           PTL
        DEF Spec

\* No parse error was dropped because its line was too deep.
NoneTooDeep == NulFree => "output" \notin dropped

LEMMA NoneTooDeepStep ==
    ASSUME ParserInv, ShortLine, OnlyLongLinesAreTooDeep, BufferInv',
           NoneTooDeep, AnyStep
    PROVE  NoneTooDeep'
<1> SUFFICES ASSUME NulFree' PROVE "output" \notin dropped'
  BY DEF NoneTooDeep
<1>1. CASE dropped' \subseteq dropped \cup {"buffer"} \cup Owning /\ NulFree
  <2>1. "output" \notin {"buffer"} \cup Owning
    BY DEF Owning
  <2> QED BY <1>1, <2>1 DEF NoneTooDeep
<1>2. CASE GetNextLine
  <2>1. NulFree /\ dropped' = dropped
    BY <1>2, ConsumedGrows DEF ParserInv, GetNextLine
  <2> QED BY <1>1, <2>1
<1>3. CASE FailLine
  <2>1. /\ pc = "check" /\ ~LineParsed /\ NulFree
    BY <1>3 DEF FailLine, NulFree
  <2>2. status = "NOMEM" /\ ~abandoned
    BY <2>1, RefusedIsTooDeep DEF ParserInv, NulFreeInv, InLine
  <2> QED BY <2>2 DEF OnlyLongLinesAreTooDeep
<1>4. CASE PushNotStored \/ Destroy
  <2>1. /\ consumed' = consumed
        /\ dropped' \subseteq dropped \cup {"buffer"} \cup Owning
    BY <1>4 DEF PushNotStored, Destroy
  <2> QED BY <1>1, <2>1 DEF NulFree
<1>5. ASSUME NEW chunk, PushData(chunk) PROVE "output" \notin dropped'
  <2>1. consumed' = consumed /\ dropped' = dropped
    BY <1>5 DEF PushData
  <2> QED BY <1>1, <2>1 DEF NulFree
<1>6. CASE NoMoreLines \/ LineNotCopied \/ LexToken \/ SkipBlank \/ ParseToken
           \/ EndOfLine \/ Deliver \/ CallbackReturns \/ Crash
           \/ UNCHANGED vars
  <2>1. consumed' = consumed /\ dropped' = dropped
    BY <1>6 DEF NoMoreLines, LineNotCopied, LexToken, SkipBlank, ParseToken,
       EndOfLine, Deliver, CallbackReturns, Crash, vars, parserVars
  <2> QED BY <1>1, <2>1 DEF NulFree
<1> QED BY <1>2, <1>3, <1>4, <1>5, <1>6 DEF AnyStep, Library

LEMMA NoneTooDeepHolds ==
    ASSUME EveryColumn
    PROVE  Spec /\ []ShortLine => []NoneTooDeep
<1>1. Init => NoneTooDeep
  BY DEF Init, NoneTooDeep
<1> QED BY <1>1, NoneTooDeepStep, NextIsStep, ParserInvHolds, BufferHolds,
           LongLines, PTL
        DEF Spec

\* A line too deep for the push parser is a long one, whatever its tokens: no
\* symbol that stands for nothing lies on another one, so each token adds two
\* states at most.  As long as the lines are short and have no NUL, no push
\* fails that has memory.
THEOREM ShortLinesSucceed ==
    ASSUME EveryColumn
    PROVE  Spec /\ []ShortLine => [](NulFree /\ faults = 0 => ~failed)
<1>1. ParserInv /\ NoneTooDeep => (NulFree /\ faults = 0 => ~failed)
  BY DEF ParserInv, NulFreeInv, NoneTooDeep
<1> QED BY <1>1, ParserInvHolds, NoneTooDeepHolds, PTL

-----------------------------------------------------------------------------
(* Counting lines.                                                         *)

\* One more element is one more line, if it is a newline.
LEMMA LinesStep ==
    ASSUME NEW s
    PROVE  /\ Lines(s, 0) = 0
           /\ \A n \in Nat : Lines(s, n) \in Nat
           /\ \A n \in Nat : Lines(s, n + 1) =
                 IF s[n + 1] = "LF" THEN Lines(s, n) + 1 ELSE Lines(s, n)
<1> DEFINE T(n) == {i \in 1..n : s[i] = "LF"}
<1>1. ASSUME NEW n \in Nat
      PROVE  IsFiniteSet(T(n)) /\ Cardinality(T(n)) \in Nat
  <2>1. IsFiniteSet(1..n)
    BY FS_Interval
  <2>2. T(n) \in SUBSET (1..n)
    OBVIOUS
  <2> HIDE DEF T
  <2> QED BY <2>1, <2>2, FS_Subset, FS_CardinalityType
<1>2. ASSUME NEW n \in Nat
      PROVE  Cardinality(T(n + 1)) =
                IF s[n + 1] = "LF" THEN Cardinality(T(n)) + 1
                ELSE Cardinality(T(n))
  <2>1. CASE s[n + 1] = "LF"
    <3>1. T(n + 1) = T(n) \cup {n + 1} /\ n + 1 \notin T(n)
      BY <2>1
    <3> HIDE DEF T
    <3> QED BY <1>1, <2>1, <3>1, FS_AddElement
  <2>2. CASE s[n + 1] # "LF"
    <3>1. T(n + 1) = T(n)
      BY <2>2
    <3> HIDE DEF T
    <3> QED BY <2>2, <3>1
  <2> QED BY <2>1, <2>2
<1>3. T(0) = {}
  OBVIOUS
<1>4. \A n : Lines(s, n) = Cardinality(T(n))
  BY DEF Lines
<1> HIDE DEF T
<1> QED BY <1>1, <1>2, <1>3, <1>4, FS_EmptySet

\* The lines of a stretch are those of any stretch that looks the same.
LEMMA LinesSame ==
    ASSUME NEW s, NEW t, NEW n, \A i \in 1..n : s[i] = t[i]
    PROVE  Lines(s, n) = Lines(t, n)
BY DEF Lines

\* A longer stretch has more lines, if there is a newline in the rest of it.
LEMMA LinesGrow ==
    ASSUME NEW s, NEW m \in Nat, NEW n \in Nat, m <= n
    PROVE  /\ Lines(s, m) <= Lines(s, n)
           /\ (\A i \in (m + 1)..n : s[i] # "LF") => Lines(s, m) = Lines(s, n)
           /\ m < n /\ s[n] = "LF" => Lines(s, m) < Lines(s, n)
<1>1. ASSUME NEW k \in Nat, m <= k
      PROVE  Lines(s, m) <= Lines(s, k)
  <2> DEFINE S == {i \in 1..k : s[i] = "LF"}
             T == {i \in 1..m : s[i] = "LF"}
  <2>1. IsFiniteSet(1..k) /\ S \in SUBSET (1..k) /\ T \in SUBSET S
    BY <1>1, FS_Interval
  <2>2. Lines(s, m) = Cardinality(T) /\ Lines(s, k) = Cardinality(S)
    BY DEF Lines
  <2> HIDE DEF S, T
  <2>3. IsFiniteSet(S) /\ Cardinality(T) <= Cardinality(S)
    BY <2>1, FS_Subset
  <2> QED BY <2>2, <2>3
<1>2. ASSUME \A i \in (m + 1)..n : s[i] # "LF"
      PROVE  Lines(s, m) = Lines(s, n)
  <2>1. {i \in 1..m : s[i] = "LF"} = {i \in 1..n : s[i] = "LF"}
    BY <1>2
  <2> QED BY <2>1 DEF Lines
<1>3. ASSUME m < n, s[n] = "LF"
      PROVE  Lines(s, m) < Lines(s, n)
  <2> DEFINE k == n - 1
  <2>1. k \in Nat /\ m <= k /\ k + 1 = n
    BY <1>3
  <2> HIDE DEF k
  <2>2. Lines(s, n) = Lines(s, k) + 1
    BY <1>3, <2>1, LinesStep
  <2>3. Lines(s, m) <= Lines(s, k) /\ Lines(s, m) \in Nat /\ Lines(s, k) \in Nat
    BY <1>1, <2>1, LinesStep
  <2> QED BY <2>2, <2>3
<1> QED BY <1>1, <1>2, <1>3

-----------------------------------------------------------------------------
(* Text.                                                                   *)

\* The first n elements of s are text.
TextTo(s, n) == \A i \in 1..n : s[i] \notin NotText

\* How much of s is text: up to the first element that is none.
LEMMA TextLengthIs ==
    ASSUME NEW s \in Seq(Input)
    PROVE  /\ TextLength(s) \in 0..Len(s) /\ TextTo(s, TextLength(s))
           /\ TextLength(s) = Len(s) \/ s[TextLength(s) + 1] \in NotText
           /\ \A n \in 0..Len(s) : TextTo(s, n) <=> n <= TextLength(s)
<1> DEFINE P(n) == /\ \A i \in 1..n : s[i] \notin NotText
                   /\ n = Len(s) \/ s[n + 1] \in NotText
           T == {i \in 1..Len(s) : s[i] \in NotText}
           m == TextLength(s)
<1>1. Len(s) \in Nat
  OBVIOUS
<1>2. \E n \in 0..Len(s) : P(n)
  <2>1. CASE T = {}
    <3>1. P(Len(s)) /\ Len(s) \in 0..Len(s)
      BY <1>1, <2>1
    <3> HIDE DEF P
    <3> QED BY <3>1
  <2>2. CASE T # {}
    <3>1. PICK i \in T : \A j \in T : i <= j
      <4>1. T \in SUBSET Nat
        OBVIOUS
      <4> HIDE DEF T
      <4> QED BY <2>2, <4>1, LeastOf
    <3>2. i - 1 \in 0..Len(s) /\ (i - 1) + 1 = i
      BY <3>1
    <3>3. \A j \in 1..(i - 1) : s[j] \notin NotText
      BY <1>1, <3>1
    <3>4. P(i - 1)
      BY <3>1, <3>2, <3>3
    <3> HIDE DEF P
    <3> QED BY <3>2, <3>4
  <2> QED BY <2>1, <2>2
<1>3. m = CHOOSE n \in 0..Len(s) : P(n)
  BY DEF TextLength
<1>4. m \in 0..Len(s) /\ P(m)
  <2> HIDE DEF P, m
  <2> QED BY <1>2, <1>3
<1> HIDE DEF m
<1>5. ASSUME NEW n \in 0..Len(s)
      PROVE  TextTo(s, n) <=> n <= m
  BY <1>1, <1>4, <1>5 DEF TextTo
<1> QED BY <1>4, <1>5 DEF TextTo, m

\* What is not all text has its text in any stretch that is not all text.
LEMMA TextLengthSame ==
    ASSUME NEW s \in Seq(Input), NEW t \in Seq(Input), Len(s) <= Len(t),
           \A i \in 1..Len(s) : s[i] = t[i]
    PROVE  /\ TextLength(s) < Len(s) => TextLength(t) = TextLength(s)
           /\ TextLength(s) = Len(s) => TextLength(t) >= Len(s)
<1> DEFINE m == TextLength(s)
           n == TextLength(t)
<1>1. /\ m \in 0..Len(s) /\ TextTo(s, m)
      /\ m = Len(s) \/ s[m + 1] \in NotText
  BY TextLengthIs
<1>2. /\ n \in 0..Len(t) /\ TextTo(t, n)
      /\ \A k \in 0..Len(t) : TextTo(t, k) <=> k <= n
  BY TextLengthIs
<1>3. Len(s) \in Nat /\ Len(t) \in Nat
  OBVIOUS
<1> HIDE DEF m, n
<1>4. TextTo(t, m) /\ m \in 0..Len(t)
  BY <1>1, <1>3 DEF TextTo
<1>5. m <= n
  BY <1>2, <1>4
<1>6. m < Len(s) => n <= m
  BY <1>1, <1>2, <1>3 DEF TextTo
<1> QED BY <1>1, <1>2, <1>3, <1>5, <1>6 DEF m, n

\* The protocol counts with the operator of FiniteSets.
LEMMA SameCardinality ==
    ASSUME NEW S
    PROVE  Protocol!Cardinality(S) = Cardinality(S)
BY DEF Protocol!Cardinality, Cardinality

\* The lines of text end where the protocol says.
LEMMA EndsOfText ==
    ASSUME NEW t \in Seq(Input), TextTo(t, Len(t))
    PROVE  /\ Protocol!Ends(t) = {i \in 1..Len(t) : t[i] = "LF"}
           /\ Cardinality(Protocol!Ends(t)) = Lines(t, Len(t))
<1>1. \A i \in 1..Len(t) : t[i] # "CR"
  BY DEF TextTo, NotText
<1>2. Protocol!Ends(t) = {i \in 1..Len(t) : t[i] = "LF"}
  BY <1>1 DEF Protocol!Ends
<1> QED BY <1>2 DEF Lines

LEMMA EndOfText ==
    ASSUME NEW t \in Seq(Input), TextTo(t, Len(t)), NEW i \in 0..Len(t),
           i = 0 \/ t[i] = "LF"
    PROVE  Protocol!EndOf(t, Lines(t, i)) = i
<1> DEFINE n == Lines(t, i)
           Nth(j) == Cardinality({k \in Protocol!Ends(t) : k <= j}) = n
<1>1. Len(t) \in Nat /\ i \in Nat
  OBVIOUS
<1>2. ASSUME NEW j \in Protocol!Ends(t)
      PROVE  /\ j \in Nat /\ j \in 1..Len(t) /\ t[j] = "LF"
             /\ Nth(j) <=> Lines(t, j) = n
  <2>1. j \in 1..Len(t) /\ t[j] = "LF"
    BY <1>2, EndsOfText
  <2>2. {k \in Protocol!Ends(t) : k <= j} = {k \in 1..j : t[k] = "LF"}
    BY <2>1, EndsOfText
  <2>3. Nth(j) <=> Lines(t, j) = n
    BY <2>2 DEF Lines
  <2> QED BY <2>1, <2>3
<1>3. CASE i = 0
  <2>1. n = 0
    BY <1>3, LinesStep
  <2> QED BY <1>3, <2>1 DEF Protocol!EndOf
<1>4. CASE i # 0
  <2>1. t[i] = "LF" /\ i \in Protocol!Ends(t) /\ 0 < i
    BY <1>1, <1>4, EndsOfText
  <2>2. n # 0
    <3>1. 0 \in Nat /\ 0 <= i
      BY <1>1
    <3>2. Lines(t, 0) < Lines(t, i)
      BY <1>1, <2>1, <3>1, LinesGrow
    <3>3. Lines(t, 0) = 0 /\ Lines(t, i) \in Nat
      BY <1>1, LinesStep
    <3> QED BY <3>2, <3>3
  <2>3. Nth(i)
    BY <1>2, <2>1
  <2>4. ASSUME NEW j \in Protocol!Ends(t), Nth(j)
        PROVE  j = i
    <3>1. j \in Nat /\ t[j] = "LF" /\ Lines(t, j) = n
      BY <1>2, <2>4
    <3>2. ~(j < i) /\ ~(i < j)
      <4> HIDE DEF n
      <4>1. j < i => Lines(t, j) < Lines(t, i)
        BY <1>1, <2>1, <3>1, LinesGrow
      <4>2. i < j => Lines(t, i) < Lines(t, j)
        BY <1>1, <3>1, LinesGrow
      <4>3. Lines(t, i) \in Nat /\ Lines(t, j) \in Nat
        BY <1>1, <3>1, LinesStep
      <4> QED BY <3>1, <4>1, <4>2, <4>3 DEF n
    <3> QED BY <1>1, <3>1, <3>2
  <2> HIDE DEF n
  <2>5. Protocol!EndOf(t, n) = CHOOSE j \in Protocol!Ends(t) : Nth(j)
    BY <2>2, SameCardinality, Zenon DEF Protocol!EndOf
  <2> HIDE DEF Nth
  <2>6. Protocol!EndOf(t, n) = i
    BY <2>1, <2>3, <2>4, <2>5
  <2> QED BY <2>6 DEF n
<1> QED BY <1>3, <1>4

-----------------------------------------------------------------------------
(* How the outputs keep up with the stream.                                *)

\* What was cut into lines is the beginning of what was pushed.
PrefixInv ==
    /\ consumed \in Seq(Input) /\ pushed \in Seq(Input)
    /\ Len(consumed) <= Len(pushed)
    /\ \A i \in 1..Len(consumed) : consumed[i] = pushed[i]

\* The line begins after the lines that have had their outputs.
LineBegins(p) ==
    /\ p \in 0..(Len(consumed) - 1)
    /\ p = 0 \/ consumed[p] = "LF"
    /\ Lines(consumed, p) = Len(delivered)
    /\ line = SubSeq(consumed, p + 1, Len(consumed))

KeepsUp ==
    IF TextLength(consumed) = Len(consumed)
    THEN /\ Len(consumed) = 0 \/ consumed[Len(consumed)] = "LF"
         /\ Lines(consumed, Len(consumed)) =
               IF InLine THEN Len(delivered) + 1 ELSE Len(delivered)
         /\ InLine => \E p : LineBegins(p)
    ELSE Lines(consumed, TextLength(consumed)) <= Len(delivered)

Streaming == PrefixInv /\ OutputsInv /\ KeepsUp

StreamInv == PrefixInv /\ OutputsInv /\ ("output" \notin dropped => KeepsUp)

LEMMA PrefixStep == BufferInv /\ PrefixInv /\ AnyStep => PrefixInv'
<1> SUFFICES ASSUME BufferInv, PrefixInv, AnyStep PROVE PrefixInv'
  OBVIOUS
<1>1. BufferInv'
  BY BufferStep
<1>2. CASE ~Gone'
  <2>1. /\ consumed' \in Seq(Input) /\ buffer' \in Seq(Input)
        /\ consumed' \o buffer' = pushed' /\ pushed' \in Seq(Input)
    BY <1>1, <1>2 DEF BufferInv
  <2> DEFINE c == consumed'
             b == buffer'
  <2>2. /\ Len(c) <= Len(c \o b)
        /\ \A i \in 1..Len(c) : c[i] = (c \o b)[i]
    <3>1. c \in Seq(Input) /\ b \in Seq(Input)
      BY <2>1
    <3> HIDE DEF c, b
    <3> QED BY <3>1
  <2> QED BY <2>1, <2>2 DEF PrefixInv
<1>3. CASE Gone'
  <2>1. UNCHANGED <<consumed, pushed>>
    <3>1. ASSUME NEW chunk, PushData(chunk) PROVE ~Gone'
      BY <3>1 DEF PushData, Gone
    <3>2. CASE PushNotStored \/ Crash \/ Destroy \/ UNCHANGED vars
      BY <3>2 DEF PushNotStored, Crash, Destroy, vars, parserVars
    <3>3. CASE Library \/ CallbackReturns
      <4>1. ~Gone'
        <5>1. CASE GetNextLine \/ LexToken \/ EndOfLine \/ Deliver
                   \/ CallbackReturns
          BY <5>1 DEF GetNextLine, LexToken, EndOfLine, Deliver,
             CallbackReturns, Gone
        <5>2. CASE SkipBlank \/ ParseToken
          BY <5>2 DEF SkipBlank, ParseToken, Gone
        <5>3. CASE NoMoreLines \/ LineNotCopied \/ FailLine
          BY <5>3 DEF NoMoreLines, LineNotCopied, FailLine, Return, Gone
        <5> QED BY <3>3, <5>1, <5>2, <5>3 DEF Library
      <4> QED BY <1>3, <4>1
    <3> QED BY <1>3, <3>1, <3>2, <3>3 DEF AnyStep
  <2> QED BY <2>1 DEF PrefixInv
<1> QED BY <1>2, <1>3

\* A line of text has one LF, at its end, and is given as it is to parse_line.
LEMMA CutText ==
    ASSUME NEW b \in Seq(Input), HasNewline(b)
    PROVE  LET n == LineLength(b)
               s == SubSeq(b, 1, n)
           IN /\ n \in 1..Len(b) /\ s \in Seq(Input) /\ Len(s) = n
              /\ \A j \in 1..n : s[j] = "LF" => j = n
              /\ TextTo(s, n) => s[n] = "LF" /\ CString(s) = s
<1> DEFINE i == FirstNewline(b)
           n == LineLength(b)
           s == SubSeq(b, 1, n)
<1>1. i \in 1..Len(b) /\ b[i] \in Newlines
      /\ \A j \in 1..(i - 1) : b[j] \notin Newlines
  BY FirstNewlineIsThere
<1>2. /\ n \in 1..Len(b)
      /\ n = i \/ (n = i + 1 /\ b[i] = "CR" /\ b[i + 1] = "LF")
  BY LineLengthFits DEF LineLength
<1> HIDE DEF i, n
<1>3. s \in Seq(Input) /\ Len(s) = n /\ \A j \in 1..n : s[j] = b[j]
  BY <1>2
<1> HIDE DEF s
<1>4. ASSUME NEW j \in 1..n, s[j] = "LF" PROVE j = n
  <2>1. ~(j < i)
    BY <1>1, <1>2, <1>3, <1>4 DEF Newlines
  <2> QED BY <1>1, <1>2, <1>3, <1>4, <2>1
<1>5. ASSUME TextTo(s, n) PROVE s[n] = "LF" /\ CString(s) = s
  <2>1. \A j \in 1..n : s[j] # "CR" /\ s[j] # "NUL"
    BY <1>5 DEF TextTo, NotText
  <2>2. i \in 1..n
    BY <1>1, <1>2
  <2>3. s[i] = "LF"
    BY <1>1, <1>3, <2>1, <2>2 DEF Newlines
  <2>4. s[n] = "LF"
    BY <1>4, <2>2, <2>3
  <2> QED BY <1>3, <2>1, <2>4 DEF CString
<1> QED BY <1>2, <1>3, <1>4, <1>5 DEF n, s

\* get_next_line takes the next line of the text, and what it takes when the
\* text is over ends no line of it.
LEMMA GetNextLineKeepsUp ==
    ASSUME BufferInv, KeepsUp, GetNextLine
    PROVE  KeepsUp'
<1> DEFINE c == consumed
           s == SubSeq(buffer, 1, LineLength(buffer))
           n == Len(s)
           d == consumed'
<1>1. /\ c \in Seq(Input) /\ buffer \in Seq(Input) /\ HasNewline(buffer)
      /\ d = c \o s /\ line' = CString(s) /\ delivered' = delivered
      /\ ~InLine /\ InLine'
  BY DEF BufferInv, GetNextLine, InLine
<1>2. /\ s \in Seq(Input) /\ n >= 1
      /\ \A j \in 1..n : s[j] = "LF" => j = n
      /\ TextTo(s, n) => s[n] = "LF" /\ CString(s) = s
  BY <1>1, CutText
<1> HIDE DEF s
<1>3. /\ Len(c) \in Nat /\ n \in Nat /\ d \in Seq(Input)
      /\ Len(d) = Len(c) + n
      /\ \A i \in 1..Len(c) : d[i] = c[i]
      /\ \A i \in 1..n : d[Len(c) + i] = s[i]
  BY <1>1, <1>2
<1>4. /\ TextLength(c) \in 0..Len(c) /\ TextLength(d) \in 0..Len(d)
      /\ TextTo(d, TextLength(d))
      /\ TextLength(c) < Len(c) => TextLength(d) = TextLength(c)
      /\ TextLength(c) = Len(c) => TextLength(d) >= Len(c)
  <2>1. Len(c) <= Len(d)
    BY <1>3
  <2>2. /\ TextLength(c) < Len(c) => TextLength(d) = TextLength(c)
        /\ TextLength(c) = Len(c) => TextLength(d) >= Len(c)
    BY <1>1, <1>3, <2>1, TextLengthSame
  <2> QED BY <1>1, <1>3, <2>2, TextLengthIs
<1>5. CASE TextLength(c) < Len(c)
  <2>1. Lines(d, TextLength(d)) = Lines(c, TextLength(c))
    BY <1>3, <1>4, <1>5, LinesSame
  <2>2. TextLength(c) # Len(c) /\ TextLength(d) # Len(d)
    BY <1>2, <1>3, <1>4, <1>5
  <2> QED BY <1>1, <2>1, <2>2 DEF KeepsUp
<1>6. CASE TextLength(c) = Len(c)
  <2>1. /\ Len(c) = 0 \/ c[Len(c)] = "LF"
        /\ Lines(c, Len(c)) = Len(delivered)
    BY <1>1, <1>6 DEF KeepsUp
  <2>2. Lines(d, Len(c)) = Len(delivered)
    BY <1>3, <2>1, LinesSame
  <2>3. ASSUME NEW k \in Nat, Len(c) <= k, k < Len(d)
        PROVE  Lines(d, k) = Len(delivered)
    <3>1. ASSUME NEW i \in (Len(c) + 1)..k PROVE d[i] # "LF"
      <4> DEFINE j == i - Len(c)
      <4>1. i = Len(c) + j /\ j \in 1..n /\ j # n
        BY <1>3, <2>3
      <4> HIDE DEF j
      <4>2. d[i] = s[j]
        BY <1>3, <4>1
      <4> QED BY <1>2, <4>1, <4>2
    <3>2. Lines(d, Len(c)) = Lines(d, k)
      BY <1>3, <2>3, <3>1, LinesGrow
    <3> QED BY <2>2, <3>2
  <2>4. CASE TextLength(d) = Len(d)
    <3>1. TextTo(s, n)
      <4>1. ASSUME NEW i \in 1..n PROVE s[i] \notin NotText
        <5>1. Len(c) + i \in 1..Len(d) /\ d[Len(c) + i] = s[i]
          BY <1>3
        <5> QED BY <1>4, <2>4, <5>1 DEF TextTo
      <4> QED BY <4>1 DEF TextTo
    <3>2. d[Len(d)] = "LF" /\ line' = s
      <4>1. n \in 1..n
        BY <1>2, <1>3
      <4> QED BY <1>1, <1>2, <1>3, <3>1, <4>1
    <3>3. Lines(d, Len(d)) = Len(delivered) + 1
      <4> DEFINE k == Len(d) - 1
      <4>1. k \in Nat /\ Len(c) <= k /\ k < Len(d) /\ k + 1 = Len(d)
        BY <1>2, <1>3
      <4> HIDE DEF k
      <4>2. Lines(d, k) = Len(delivered)
        BY <2>3, <4>1
      <4>3. Lines(d, k + 1) = Lines(d, k) + 1
        BY <3>2, <4>1, LinesStep
      <4> QED BY <4>1, <4>2, <4>3
    <3>4. SubSeq(d, Len(c) + 1, Len(d)) = s
      <4> DEFINE t == SubSeq(d, Len(c) + 1, Len(d))
      <4>1. /\ t \in Seq(Input) /\ Len(t) = n
            /\ \A i \in 1..n : t[i] = d[Len(c) + i]
        BY <1>3
      <4> HIDE DEF t
      <4>2. t = s
        BY <1>2, <1>3, <4>1, SeqEqual
      <4> QED BY <4>2 DEF t
    <3>5. Len(c) = 0 \/ d[Len(c)] = "LF"
      BY <1>3, <2>1
    <3>6. \E p : LineBegins(p)'
      <4>1. PICK p : p = Len(c)
        OBVIOUS
      <4>2. p \in 0..(Len(d) - 1)
        BY <1>2, <1>3, <4>1
      <4>3. LineBegins(p)'
        BY <1>1, <2>2, <3>2, <3>4, <3>5, <4>1, <4>2 DEF LineBegins
      <4> QED BY <4>3
    <3> QED BY <1>1, <2>4, <3>2, <3>3, <3>6 DEF KeepsUp
  <2>5. CASE TextLength(d) # Len(d)
    <3>1. Lines(d, TextLength(d)) = Len(delivered)
      BY <1>3, <1>4, <1>6, <2>3, <2>5
    <3>2. Len(delivered) \in Nat
      BY <1>3, <2>1, LinesStep
    <3> QED BY <1>1, <2>5, <3>1, <3>2 DEF KeepsUp
  <2> QED BY <2>4, <2>5
<1> QED BY <1>3, <1>4, <1>5, <1>6

\* What neither cuts a line nor ends one leaves it all as it is.
LEMMA KeepsUpSame ==
    ASSUME KeepsUp, UNCHANGED <<consumed, delivered, line>>, InLine' = InLine
    PROVE  KeepsUp'
<1>1. \A p : LineBegins(p)' <=> LineBegins(p)
  BY DEF LineBegins
<1>2. TextLength(consumed)' = TextLength(consumed)
  OBVIOUS
<1>3. \A n : Lines(consumed, n)' = Lines(consumed, n)
  OBVIOUS
<1> QED BY <1>1, <1>2, <1>3 DEF KeepsUp

\* A line of text is refused only with an output.
LEMMA FailLineKeepsUp ==
    ASSUME ParserInv, PrefixInv, KeepsUp, FailLine, NoneTooDeep'
    PROVE  KeepsUp'
<1>1. /\ pc = "check" /\ ~LineParsed /\ UNCHANGED <<consumed, delivered, line>>
      /\ output = NoOutput \/ "output" \in dropped'
  BY DEF FailLine
<1>2. ~NulFree
  BY <1>1, RefusedIsTooDeep DEF ParserInv, NoneTooDeep, NulFree
<1>3. TextLength(consumed) # Len(consumed)
  <2>1. consumed \in Seq(Input)
    BY DEF PrefixInv
  <2>2. \E i \in 1..Len(consumed) : consumed[i] = "NUL"
    BY <1>2, <2>1 DEF NulFree, Range
  <2>3. ~TextTo(consumed, Len(consumed))
    BY <2>2 DEF TextTo, NotText
  <2> QED BY <2>1, <2>3, TextLengthIs
<1> QED BY <1>1, <1>3 DEF KeepsUp

LEMMA DeliverKeepsUp ==
    ASSUME PrefixInv, OutputsInv, KeepsUp, Deliver
    PROVE  KeepsUp'
<1>1. /\ InLine /\ ~InLine' /\ consumed' = consumed
      /\ delivered' = Append(delivered, [output |-> output, line |-> line])
  BY DEF Deliver, InLine
<1>2. delivered \in Seq([output : Outputs \ {NoOutput}, line : Seq(Input)])
  BY DEF OutputsInv
<1>3. Len(delivered) \in Nat /\ Len(delivered') = Len(delivered) + 1
  BY <1>1, <1>2
<1>4. Lines(consumed, TextLength(consumed)) \in Nat
  BY TextLengthIs, LinesStep DEF PrefixInv
<1> QED BY <1>1, <1>3, <1>4 DEF KeepsUp

\* A step of the parser makes progress with the lines only where it takes or
\* gives one back.
LEMMA KeepsUpStep ==
    ASSUME ParserInv, Streaming, AnyStep, FailLine => NoneTooDeep'
    PROVE  KeepsUp'
<1> USE DEF InLine
<1>1. CASE GetNextLine
  BY <1>1, GetNextLineKeepsUp DEF Streaming, ParserInv
<1>2. CASE Deliver
  BY <1>2, DeliverKeepsUp DEF Streaming
<1>3. CASE FailLine
  BY <1>3, FailLineKeepsUp DEF Streaming
<1>4. ASSUME UNCHANGED <<consumed, delivered, line>>, InLine' = InLine
      PROVE  KeepsUp'
  BY <1>4, KeepsUpSame DEF Streaming
<1>5. ASSUME NEW chunk, PushData(chunk) PROVE KeepsUp'
  <2>1. /\ pc \in {"idle", "callback"}
        /\ pc' \in {"idle", "callback", "next_line"}
        /\ UNCHANGED <<consumed, delivered, line>>
    BY <1>5 DEF PushData
  <2> QED BY <1>4, <2>1
<1>6. CASE PushNotStored \/ CallbackReturns \/ Crash \/ Destroy
  <2>1. /\ pc \in {"idle", "callback", "broken"}
        /\ pc' \in {"next_line", "broken", "crashed", "destroyed"}
        /\ UNCHANGED <<consumed, delivered, line>>
    BY <1>6 DEF PushNotStored, CallbackReturns, Crash, Destroy
  <2> QED BY <1>4, <2>1
<1>7. CASE NoMoreLines \/ LineNotCopied
  <2>1. /\ pc = "next_line" /\ pc' \in {"idle", "callback"}
        /\ UNCHANGED <<consumed, delivered, line>>
    BY <1>7 DEF NoMoreLines, LineNotCopied, Return
  <2> QED BY <1>4, <2>1
<1>8. CASE LexToken \/ SkipBlank \/ ParseToken \/ EndOfLine
  <2>1. /\ pc \in {"lex", "push"} /\ pc' \in {"lex", "push", "check"}
        /\ UNCHANGED <<consumed, delivered, line>>
    BY <1>8 DEF LexToken, SkipBlank, ParseToken, EndOfLine
  <2> QED BY <1>4, <2>1
<1>9. CASE UNCHANGED vars
  BY <1>4, <1>9 DEF vars, parserVars
<1> QED BY <1>1, <1>2, <1>3, <1>5, <1>6, <1>7, <1>8, <1>9
        DEF AnyStep, Library

LEMMA DroppedGrows ==
    AnyStep /\ "output" \notin dropped' => "output" \notin dropped
<1> SUFFICES ASSUME AnyStep PROVE dropped \subseteq dropped'
  OBVIOUS
<1>1. ASSUME NEW chunk, PushData(chunk) PROVE dropped' = dropped
  BY <1>1 DEF PushData
<1>2. CASE PushNotStored \/ FailLine \/ Destroy
  BY <1>2 DEF PushNotStored, FailLine, Destroy
<1>3. CASE GetNextLine \/ NoMoreLines \/ LineNotCopied \/ LexToken
           \/ SkipBlank \/ ParseToken \/ EndOfLine \/ Deliver
           \/ CallbackReturns \/ Crash \/ UNCHANGED vars
  BY <1>3 DEF GetNextLine, NoMoreLines, LineNotCopied, LexToken, SkipBlank,
     ParseToken, EndOfLine, Deliver, CallbackReturns, Crash, vars, parserVars
<1> QED BY <1>1, <1>2, <1>3 DEF AnyStep, Library

LEMMA StreamStep == ParserInv /\ StreamInv /\ AnyStep => StreamInv'
<1> SUFFICES ASSUME ParserInv, StreamInv, AnyStep PROVE StreamInv'
  OBVIOUS
<1>1. PrefixInv' /\ OutputsInv'
  BY PrefixStep, OutputsStep DEF StreamInv, ParserInv
<1>2. ASSUME "output" \notin dropped' PROVE KeepsUp'
  BY <1>2, DroppedGrows, KeepsUpStep DEF StreamInv, Streaming, NoneTooDeep
<1> QED BY <1>1, <1>2 DEF StreamInv

LEMMA StreamInit == Init => StreamInv
<1> SUFFICES ASSUME Init PROVE StreamInv
  OBVIOUS
<1>1. /\ consumed = << >> /\ pushed = << >> /\ delivered = << >>
      /\ pc = "idle" /\ dropped = {}
  BY DEF Init
<1>2. PrefixInv /\ OutputsInv
  BY <1>1 DEF PrefixInv, OutputsInv
<1>3. TextLength(consumed) = Len(consumed) /\ Len(consumed) = 0
  <2>1. consumed \in Seq(Input) /\ Len(consumed) = 0
    BY <1>1
  <2>2. TextLength(consumed) \in 0..Len(consumed)
    BY <2>1, TextLengthIs
  <2> QED BY <2>1, <2>2
<1>4. Lines(consumed, 0) = 0
  BY LinesStep
<1> QED BY <1>1, <1>2, <1>3, <1>4 DEF StreamInv, KeepsUp, InLine

LEMMA StreamInvHolds ==
    ASSUME EveryColumn
    PROVE  Spec => []StreamInv
BY StreamInit, StreamStep, NextIsStep, ParserInvHolds, PTL DEF Spec

\* As long as no line without a NUL is too deep, the text keeps up whatever
\* comes after it.
LEMMA StreamingHolds ==
    ASSUME EveryColumn
    PROVE  Spec /\ []NoneTooDeep => []Streaming
<1>1. Init => Streaming
  BY StreamInit DEF StreamInv, Streaming, Init
<1>2. ParserInv /\ Streaming /\ AnyStep /\ NoneTooDeep' => Streaming'
  BY KeepsUpStep, PrefixStep, OutputsStep DEF Streaming, ParserInv
<1> QED BY <1>1, <1>2, NextIsStep, ParserInvHolds, PTL DEF Spec

-----------------------------------------------------------------------------
(* Every line has its output.                                              *)

\* The text is a part of what was pushed, and its lines are counted there.
LEMMA TextIs ==
    ASSUME PrefixInv
    PROVE  /\ Text \in Seq(Input) /\ Len(Text) = TextLength(pushed)
           /\ TextLength(pushed) \in 0..Len(pushed)
           /\ \A i \in 1..Len(Text) : Text[i] = pushed[i]
           /\ TextTo(Text, Len(Text))
           /\ Cardinality(Protocol!Ends(Text)) = LinesOfText
           /\ LinesOfText \in Nat
<1> DEFINE n == TextLength(pushed)
<1>1. pushed \in Seq(Input) /\ n \in 0..Len(pushed) /\ TextTo(pushed, n)
  BY TextLengthIs DEF PrefixInv
<1> HIDE DEF n
<1>2. /\ Text \in Seq(Input) /\ Len(Text) = n /\ n \in Nat
      /\ \A i \in 1..n : Text[i] = pushed[i]
  BY <1>1 DEF Text, n
<1>3. TextTo(Text, Len(Text))
  BY <1>1, <1>2 DEF TextTo
<1>4. Lines(Text, Len(Text)) = Lines(pushed, n) /\ Lines(pushed, n) \in Nat
  <2>1. Lines(Text, n) = Lines(pushed, n)
    BY <1>2, LinesSame
  <2> QED BY <1>2, <2>1, LinesStep
<1> QED BY <1>1, <1>2, <1>3, <1>4, EndsOfText DEF LinesOfText, n

\* What was cut of a stream that is text is text.
LEMMA ConsumedText ==
    ASSUME PrefixInv
    PROVE  /\ TextLength(consumed) \in 0..Len(consumed)
           /\ TextLength(consumed) < Len(consumed) =>
                 TextLength(pushed) = TextLength(consumed)
           /\ TextLength(consumed) = Len(consumed) =>
                 Len(consumed) <= TextLength(pushed)
           /\ \A n \in 0..Len(consumed) :
                 Lines(consumed, n) = Lines(pushed, n)
<1>1. /\ consumed \in Seq(Input) /\ pushed \in Seq(Input)
      /\ Len(consumed) <= Len(pushed)
      /\ \A i \in 1..Len(consumed) : consumed[i] = pushed[i]
  BY DEF PrefixInv
<1>2. ASSUME NEW n \in 0..Len(consumed)
      PROVE  Lines(consumed, n) = Lines(pushed, n)
  BY <1>1, LinesSame
<1>3. /\ TextLength(consumed) < Len(consumed) =>
            TextLength(pushed) = TextLength(consumed)
      /\ TextLength(consumed) = Len(consumed) =>
            Len(consumed) <= TextLength(pushed)
  BY <1>1, TextLengthSame, TextLengthIs
<1> QED BY <1>1, <1>2, <1>3, TextLengthIs

LEMMA DeliveredOfText ==
    ASSUME BufferInv, CallsInv, StreamInv, Text = pushed,
           "output" \notin dropped
    PROVE  DeliversAll
<1>1. SUFFICES ASSUME pc = "idle", ~failed
               PROVE  Len(delivered) = Cardinality(Protocol!Ends(pushed))
  BY DEF DeliversAll, BufferInv
<1> DEFINE c == Len(consumed)
           n == Len(pushed)
<1>2. /\ consumed \in Seq(Input) /\ pushed \in Seq(Input)
      /\ c \in Nat /\ n \in Nat /\ c <= n /\ PrefixInv /\ KeepsUp
  BY DEF StreamInv, PrefixInv
<1>3. TextLength(pushed) = n /\ LinesOfText = Lines(pushed, n)
  BY <1>2, TextIs DEF LinesOfText
<1>4. TextLength(consumed) = c /\ Lines(consumed, c) = Lines(pushed, c)
  BY <1>2, <1>3, ConsumedText
<1>5. Lines(pushed, c) = Len(delivered)
  BY <1>1, <1>2, <1>4 DEF KeepsUp, InLine
<1>6. \A i \in (c + 1)..n : pushed[i] # "LF"
  <2>1. consumed \o buffer = pushed /\ ~HasNewline(buffer)
        /\ buffer \in Seq(Input)
    BY <1>1 DEF BufferInv, Gone
  <2> HIDE DEF c, n
  <2>2. ASSUME NEW i \in (c + 1)..n PROVE pushed[i] # "LF"
    <3>1. PICK j \in Int : j = i - c
      BY <1>2
    <3>2. j \in 1..Len(buffer) /\ pushed[i] = buffer[j]
      <4>1. i = c + j /\ 1 <= j
        BY <1>2, <2>2, <3>1
      <4>2. n = c + Len(buffer)
        BY <1>2, <2>1 DEF c, n
      <4>3. j \in 1..Len(buffer)
        BY <1>2, <2>1, <2>2, <4>1, <4>2
      <4>4. (consumed \o buffer)[c + j] = buffer[j]
        BY <1>2, <2>1, <4>3 DEF c
      <4> QED BY <2>1, <4>1, <4>3, <4>4
    <3> QED BY <2>1, <3>2 DEF HasNewline, Newlines
  <2> QED BY <2>2
<1>7. Lines(pushed, c) = Lines(pushed, n)
  BY <1>2, <1>6, LinesGrow
<1>8. Cardinality(Protocol!Ends(pushed)) = LinesOfText
  BY <1>2, TextIs
<1> QED BY <1>3, <1>5, <1>7, <1>8

\* As long as the stream is text and no line of it too deep: from the return of
\* a push with GDBWIRE_OK that looked for lines, until one fails, every complete
\* line of the stream has had its output, and nothing else has.
THEOREM EveryLineIsDelivered ==
    ASSUME EveryColumn
    PROVE  Spec => []DeliversText
<1>1. BufferInv /\ CallsInv /\ StreamInv => DeliversText
  BY DeliveredOfText DEF DeliversText
<1> QED BY <1>1, BufferHolds, CallsHold, StreamInvHolds, PTL

-----------------------------------------------------------------------------
(* A line that begins on a clean stack decides its output.                 *)

\* Where the parser is on its line.
Here ==
    [unread |-> unread,
     stack |-> IF stack = <<"bottom">> THEN CleanStack ELSE stack,
     lookahead |-> lookahead,
     text |-> IF status = "UNINIT" THEN "NEWLINE" ELSE lexed.text,
     variant |-> IF Len(stack) >= 3 /\ stack[3] = "output_variant"
                 THEN variant ELSE "none",
     kind |-> output.kind,
     status |-> status]

\* Two runs of a line are the same as far as both go.
LEMMA RunsAgree ==
    ASSUME NEW l, NEW m \in Nat, NEW n \in Nat, NEW f, NEW g,
           IsRun(l, m, f), IsRun(l, n, g)
    PROVE  \A i \in Nat : i <= m /\ i <= n => f[i] = g[i]
<1> DEFINE T == {i \in Nat : i <= m /\ i <= n /\ f[i] # g[i]}
<1>1. SUFFICES ASSUME T # {} PROVE FALSE
  OBVIOUS
<1>2. PICK i \in T : \A j \in T : i <= j
  <2>1. T \in SUBSET Nat
    OBVIOUS
  <2> HIDE DEF T
  <2> QED BY <1>1, <2>1, LeastOf
<1>3. i # 0
  BY <1>2 DEF IsRun
<1>4. /\ i - 1 \in Nat /\ (i - 1) + 1 = i
      /\ i - 1 \in 0..(m - 1) /\ i - 1 \in 0..(n - 1)
  BY <1>2, <1>3
<1>5. f[i - 1] = g[i - 1]
  BY <1>2, <1>4
<1>6. f[(i - 1) + 1] = After(f[i - 1]) /\ g[(i - 1) + 1] = After(g[i - 1])
  BY <1>4 DEF IsRun
<1> QED BY <1>2, <1>4, <1>5, <1>6

\* A line that begins on a clean stack ends in one way only.
LEMMA EndIsUnique ==
    ASSUME NEW l, NEW c, NEW d, EndsIn(l, c), EndsIn(l, d)
    PROVE  c = d
<1>1. PICK m \in Nat : \E run : IsRun(l, m, run) /\ run[m] = c /\ Over(c)
  BY DEF EndsIn
<1>2. PICK f : IsRun(l, m, f) /\ f[m] = c /\ Over(c)
  BY <1>1
<1>3. PICK n \in Nat : \E run : IsRun(l, n, run) /\ run[n] = d /\ Over(d)
  BY DEF EndsIn
<1>4. PICK g : IsRun(l, n, g) /\ g[n] = d /\ Over(d)
  BY <1>3
<1>5. \A i \in Nat : i <= m /\ i <= n => f[i] = g[i]
  BY <1>2, <1>4, RunsAgree
<1>6. ~(m < n)
  <2>1. m < n => m <= m /\ m <= n /\ m \in 0..(n - 1)
    OBVIOUS
  <2>2. m < n => g[m] = c
    BY <1>2, <1>5, <2>1
  <2> QED BY <1>2, <1>4, <2>1, <2>2 DEF IsRun
<1>7. ~(n < m)
  <2>1. n < m => n <= m /\ n <= n /\ n \in 0..(m - 1)
    OBVIOUS
  <2>2. n < m => f[n] = d
    BY <1>4, <1>5, <2>1
  <2> QED BY <1>2, <1>4, <2>1, <2>2 DEF IsRun
<1>8. m = n /\ m <= n /\ n <= m
  BY <1>6, <1>7
<1> QED BY <1>2, <1>4, <1>5, <1>8

\* The parser is on the run of its line.
OnItsRun == \E n \in Nat : \E run : IsRun(line, n, run) /\ run[n] = Here

LEMMA RunGoesOn ==
    ASSUME NEW l, NEW c, NEW n \in Nat, NEW run,
           IsRun(l, n, run), run[n] = c, ~Over(c)
    PROVE  \E more : IsRun(l, n + 1, more) /\ more[n + 1] = After(c)
<1> DEFINE more == [i \in 0..(n + 1) |-> IF i = n + 1 THEN After(c) ELSE run[i]]
<1>1. more[n + 1] = After(c) /\ \A i \in 0..n : more[i] = run[i]
  OBVIOUS
<1>2. DOMAIN more = 0..(n + 1)
  OBVIOUS
<1> HIDE DEF more
<1>3. more[0] = Begin(l)
  BY <1>1 DEF IsRun
<1>4. ASSUME NEW i \in 0..((n + 1) - 1)
      PROVE  ~Over(more[i]) /\ more[i + 1] = After(more[i])
  <2>1. CASE i = n
    BY <1>1, <2>1
  <2>2. CASE i # n
    <3>1. i \in 0..(n - 1) /\ i \in 0..n /\ i + 1 \in 0..n
      BY <2>2
    <3> QED BY <1>1, <3>1 DEF IsRun
  <2> QED BY <2>1, <2>2
<1>5. IsRun(l, n + 1, more)
  BY <1>2, <1>3, <1>4 DEF IsRun
<1> QED BY <1>1, <1>5

LEMMA RunStep ==
    ASSUME OnItsRun, line' = line, ~Over(Here), Here' \in {Here, After(Here)}
    PROVE  OnItsRun'
<1>1. PICK n \in Nat : \E run : IsRun(line, n, run) /\ run[n] = Here
  BY DEF OnItsRun
<1>2. PICK run : IsRun(line, n, run) /\ run[n] = Here
  BY <1>1
<1>3. CASE Here' = Here
  <2>1. IsRun(line', n, run) /\ run[n] = Here'
    BY <1>2, <1>3
  <2> QED BY <2>1 DEF OnItsRun
<1>4. CASE Here' = After(Here)
  <2>1. PICK more : IsRun(line, n + 1, more) /\ more[n + 1] = After(Here)
    BY <1>2, RunGoesOn
  <2>2. IsRun(line', n + 1, more) /\ more[n + 1] = Here' /\ n + 1 \in Nat
    BY <1>4, <2>1
  <2> QED BY <2>2 DEF OnItsRun
<1> QED BY <1>3, <1>4

Whole(c) ==
    c = [unread |-> c.unread, stack |-> c.stack, lookahead |-> c.lookahead,
         text |-> c.text, variant |-> c.variant, kind |-> c.kind,
         status |-> c.status]

LEMMA SamePlace ==
    ASSUME NEW c, NEW d, Whole(c), Whole(d),
           c.unread = d.unread, c.stack = d.stack, c.lookahead = d.lookahead,
           c.text = d.text, c.variant = d.variant, c.kind = d.kind,
           c.status = d.status
    PROVE  c = d
BY DEF Whole

LEMMA WholeBlank == ASSUME NEW c, Whole(c), NEW d, d = AfterBlank(c)
    PROVE  /\ Whole(d) /\ d.unread = Tail(c.unread)
           /\ d.stack = c.stack /\ d.lookahead = c.lookahead
           /\ d.text = c.text /\ d.variant = c.variant /\ d.kind = c.kind
           /\ d.status = c.status
BY DEF Whole, AfterBlank

LEMMA WholeToken == ASSUME NEW c, Whole(c), NEW d, d = AfterToken(c)
    PROVE  /\ Whole(d)
           /\ d.unread =
                 SubSeq(c.unread, FirstSize(c.unread) + 1, Len(c.unread))
           /\ d.text = FirstText(c.unread)
           /\ d.lookahead = TokenOf(FirstText(c.unread))
           /\ d.stack = c.stack /\ d.variant = c.variant /\ d.kind = c.kind
           /\ d.status = "RUNNING"
BY DEF Whole, AfterToken

LEMMA WholeDeep == ASSUME NEW c, Whole(c), NEW d, d = TooDeep(c)
    PROVE  /\ Whole(d)
           /\ d.unread = c.unread /\ d.text = c.text
           /\ d.stack = CleanStack /\ d.lookahead = NoToken
           /\ d.variant = "none" /\ d.kind = "PARSE_ERROR"
           /\ d.status = "NOMEM"
BY DEF Whole, TooDeep

LEMMA WholeShift == ASSUME NEW c, Whole(c), NEW d, d = AfterShift(c)
    PROVE  /\ Whole(d)
           /\ d.unread = c.unread /\ d.text = c.text
           /\ d.stack = Append(c.stack, c.lookahead) /\ d.lookahead = NoToken
           /\ d.variant = c.variant /\ d.kind = c.kind
           /\ d.status = c.status
BY DEF Whole, AfterShift

LEMMA WholeRejected == ASSUME NEW c, Whole(c), NEW d, d = AfterRejected(c)
    PROVE  /\ Whole(d)
           /\ d.unread = c.unread /\ d.text = c.text
           /\ d.lookahead = c.lookahead /\ d.stack = InError
           /\ d.variant = "none" /\ d.kind = "PARSE_ERROR"
           /\ d.status = c.status
BY DEF Whole, AfterRejected

LEMMA WholeError == ASSUME NEW c, Whole(c), NEW d, d = AfterError(c)
    PROVE  /\ Whole(d)
           /\ d.unread = c.unread /\ d.text = c.text
           /\ d.lookahead =
                 IF ErrStatus(c.stack) = 3 THEN NoToken ELSE c.lookahead
           /\ d.stack = InError
           /\ d.variant = "none"
           /\ d.kind = IF ErrStatus(c.stack) = 0 THEN "PARSE_ERROR" ELSE c.kind
           /\ d.status = c.status
BY DEF Whole, AfterError
\* What Here is, before a step and after it.
LEMMA HereFields ==
    /\ Whole(Here) /\ Whole(Here')
    /\ Here.unread = unread /\ Here'.unread = unread'
    /\ Here.stack = IF stack = <<"bottom">> THEN CleanStack ELSE stack
    /\ Here'.stack = IF stack' = <<"bottom">> THEN CleanStack ELSE stack'
    /\ Here.lookahead = lookahead /\ Here'.lookahead = lookahead'
    /\ Here.text = IF status = "UNINIT" THEN "NEWLINE" ELSE lexed.text
    /\ Here'.text = IF status' = "UNINIT" THEN "NEWLINE" ELSE lexed'.text
    /\ Here.variant = IF Len(stack) >= 3 /\ stack[3] = "output_variant"
                      THEN variant ELSE "none"
    /\ Here'.variant = IF Len(stack') >= 3 /\ stack'[3] = "output_variant"
                       THEN variant' ELSE "none"
    /\ Here.kind = output.kind /\ Here'.kind = output'.kind
    /\ Here.status = status /\ Here'.status = status'
BY DEF Here, Whole

\* What Here is in a call of push_parse whose stack has its list of outputs.
LEMMA HereParsing ==
    ASSUME PushInv, status = "RUNNING", Len(stack) # 1
    PROVE  /\ Stack(stack) /\ Len(stack) >= 2
           /\ Here.stack = stack /\ Here.lookahead = lookahead
           /\ Here.text = lexed.text /\ Here.status = status
           /\ Here.kind = output.kind /\ Here.unread = unread
           /\ After(Here) = Parsed(Here)
<1>1. Stack(stack) /\ Len(stack) >= 2
  BY TypeStack, StackLength
<1>2. stack # <<"bottom">>
  BY <1>1
<1> QED BY <1>1, <1>2 DEF Here, After

LEMMA ShiftMoves ==
    ASSUME PushInv, Shift, UNCHANGED unread
    PROVE  Here' = After(Here)
<1>1. /\ status = "RUNNING" /\ Len(stack) < MaxDepth
      /\ lookahead \in Expects(stack)
      /\ stack' = Append(stack, lookahead) /\ lookahead' = NoToken
      /\ UNCHANGED <<lexed, variant, output, status>>
      /\ lookahead # NoToken
  BY DEF Shift, Parsing
<1>2. lookahead \in Tokens /\ Stack(stack)
  BY <1>1, TypeStack DEF PushInv, PushTypeOK
<1>3. Len(stack) # 1
  <2>1. Len(stack) = 1 => stack[Len(stack)] = "bottom"
    BY <1>2, OutermostSymbols DEF Stack
  <2>2. Len(stack) = 1 => lookahead = "output_list"
    BY <1>1, <1>2, <2>1, ExpectsIsAbove, AboveOutermost
  <2> QED BY <1>2, <2>2 DEF Tokens, StreamOps, AsyncOps
<1>4. /\ Len(stack) >= 2
      /\ Here.stack = stack /\ Here.lookahead = lookahead
      /\ Here.text = lexed.text /\ Here.status = status
      /\ Here.unread = unread
      /\ After(Here) = Parsed(Here)
  BY <1>1, <1>3, HereParsing
<1>5. Parsed(Here) = AfterShift(Here)
  <2>1. ~(Len(Here.stack) >= MaxDepth)
    BY <1>1, <1>2, <1>4, MaxDepthAssumption DEF Stack
  <2> QED BY <1>1, <1>4, <2>1 DEF Parsed
<1>6. /\ Len(stack') = Len(stack) + 1
      /\ \A i \in 1..Len(stack) : stack'[i] = stack[i]
      /\ stack'[Len(stack) + 1] = lookahead
  BY <1>1, <1>2, PushIsStack DEF Top
<1>7. Len(stack') >= 3 /\ stack'[3] = "output_variant"
        <=> Len(stack) >= 3 /\ stack[3] = "output_variant"
  <2>1. lookahead # "output_variant" /\ Len(stack) \in Nat
    BY <1>2 DEF Tokens, StreamOps, AsyncOps, Stack
  <2> DEFINE n == Len(stack)
             m == Len(stack')
  <2>2. n \in Nat /\ n >= 2 /\ m = n + 1
        /\ (\A i \in 1..n : stack'[i] = stack[i]) /\ stack'[n + 1] = lookahead
    BY <1>4, <1>6, <2>1
  <2> HIDE DEF n, m
  <2>3. CASE n >= 3
    <3>1. m >= 3 /\ 3 \in 1..n
      BY <2>2, <2>3
    <3> QED BY <2>2, <2>3, <3>1 DEF n, m
  <2>4. CASE n = 2
    <3>1. n + 1 = 3 /\ ~(n >= 3)
      BY <2>4
    <3> QED BY <2>1, <2>2, <3>1 DEF n, m
  <2>5. n >= 3 \/ n = 2
    BY <2>2
  <2> QED BY <2>3, <2>4, <2>5
<1>8. stack' # <<"bottom">>
  <2>1. Len(stack') # 1
    BY <1>2, <1>4, <1>6 DEF Stack
  <2> QED BY <2>1
<1>9. Here' = AfterShift(Here)
  <2> DEFINE c == Here
             d == Here'
             e == AfterShift(Here)
  <2>1. /\ Whole(e)
        /\ e.unread = c.unread /\ e.text = c.text
        /\ e.stack = Append(c.stack, c.lookahead) /\ e.lookahead = NoToken
        /\ e.variant = c.variant /\ e.kind = c.kind /\ e.status = c.status
    BY HereFields, WholeShift
  <2>2. /\ Whole(d)
        /\ d.unread = c.unread /\ d.text = c.text
        /\ d.stack = Append(c.stack, c.lookahead) /\ d.lookahead = NoToken
        /\ d.variant = c.variant /\ d.kind = c.kind /\ d.status = c.status
    BY <1>1, <1>4, <1>7, <1>8, HereFields
  <2> HIDE DEF c, d, e
  <2>3. d = e
    BY <2>1, <2>2, SamePlace
  <2> QED BY <2>3 DEF d, e
<1> QED BY <1>4, <1>5, <1>9

\* The record fields a reduction depends on.
LEMMA RuleOfHere ==
    ASSUME PushInv, Parsing, Len(stack) # 1, NEW r \in Rules, Reducible(r)
    PROVE  /\ After(Here) = IF ChecksPrompt(r) /\ lexed.text # "gdb"
                            THEN AfterRejected(Here) ELSE AfterReduce(Here, r)
           /\ IsHandle(r, stack) /\ Stack(stack) /\ Len(stack) >= 2
           /\ Here.stack = stack
<1>1. status = "RUNNING" /\ Len(stack) < MaxDepth
  BY DEF Parsing
<1>2. /\ Stack(stack) /\ Len(stack) >= 2
      /\ Here.stack = stack /\ Here.lookahead = lookahead
      /\ Here.text = lexed.text
      /\ After(Here) = Parsed(Here)
  BY <1>1, HereParsing
<1>3. IsHandle(r, stack) /\ Applies(r, stack, lookahead)
  BY DEF Reducible, Applies
<1>4. lookahead \notin Expects(stack)
  <2>1. CASE ~NeedsLookahead(stack)
    <3>1. lookahead \in Tokens \cup {NoToken}
      BY DEF PushInv, PushTypeOK
    <3>2. NoToken \notin Expects(stack)
      <4>1. NoToken \notin Symbols
        BY DEF NoToken, Symbols, Tokens, Nonterminals, StreamOps, AsyncOps
      <4> QED BY <1>2, <4>1, ExpectsIsAbove, AboveFacts
    <3> QED BY <2>1, <3>1, <3>2 DEF NeedsLookahead
  <2>2. CASE NeedsLookahead(stack)
    BY <2>2 DEF Reducible
  <2> QED BY <2>1, <2>2
<1>5. {q \in Rules : Applies(q, stack, lookahead)} = {r}
  <2>1. ASSUME NEW q \in Rules, Applies(q, stack, lookahead)
        PROVE  q = r
    BY <1>2, <1>3, <2>1, AtMostOneHandle DEF Applies
  <2> QED BY <1>3, <2>1
<1>6. ~(Len(Here.stack) >= MaxDepth)
  BY <1>1, <1>2, MaxDepthAssumption DEF Stack
<1>7. (CHOOSE q \in {r} : TRUE) = r
  OBVIOUS
<1> QED BY <1>2, <1>3, <1>4, <1>5, <1>6, <1>7 DEF Parsed

\* An output_variant leaves the stack with its newline only.
LEMMA VariantIsReduced ==
    ASSUME NEW s, Stack(s), Len(s) >= 3, s[3] = "output_variant",
           NEW r \in Rules, IsHandle(r, s)
    PROVE  r.lhs = "output" /\ Len(s) = 4 /\ Len(r.rhs) = 2
<1>0. /\ Len(s) # 3 => Len(s) >= 4 /\ 3 \in 3..(Len(s) - 1)
      /\ Len(s) >= 5 => 4 \in 3..(Len(s) - 1)
      /\ Len(s) >= 5 \/ Len(s) \in {3, 4}
  <2> DEFINE n == Len(s)
  <2>1. n \in Nat /\ n >= 3
    BY DEF Stack
  <2> HIDE DEF n
  <2>2. /\ n # 3 => n >= 4 /\ 3 \in 3..(n - 1)
        /\ n >= 5 => 4 \in 3..(n - 1)
        /\ n >= 5 \/ n \in {3, 4}
    BY <2>1
  <2> QED BY <2>2 DEF n
<1>1. \A i \in 3..(Len(s) - 1) : s[i + 1] \in Above(s[i - 1], s[i])
  BY DEF Stack, Shaped
<1>2. Len(s) # 3 => Len(s) >= 4 /\ s[4] = "NEWLINE"
  <2>1. Len(s) # 3 => Len(s) >= 4 /\ 3 \in 3..(Len(s) - 1)
    BY <1>0
  <2>2. ASSUME Len(s) # 3 PROVE s[4] \in Above(s[2], s[3])
    BY <1>1, <2>1, <2>2
  <2>3. Above(s[2], "output_variant") = {"NEWLINE"}
    BY DEF Above
  <2> QED BY <2>1, <2>2, <2>3
<1>3. ~(Len(s) >= 5)
  <2>1. Len(s) >= 5 => 4 \in 3..(Len(s) - 1)
    BY <1>0
  <2>2. ASSUME Len(s) >= 5 PROVE s[5] \in Above(s[3], s[4])
    BY <1>1, <2>1, <2>2
  <2>3. Len(s) >= 5 => s[4] = "NEWLINE"
    BY <1>0, <1>2
  <2> QED BY <2>2, <2>3, AboveFacts
<1>4. Len(s) \in {3, 4}
  BY <1>0, <1>3
<1>5. Len(r.rhs) # 0
  <2>1. Len(r.rhs) = 0 => r.lhs \in Above(s[Len(s) - 1], s[Len(s)])
    BY <1>4, HandleFacts, ExpectsIsAbove
  <2>2. Above(s[Len(s) - 1], "output_variant") = {"NEWLINE"}
    BY DEF Above
  <2>3. r.lhs \in Nonterminals
    BY RuleFacts
  <2>4. Len(r.rhs) = 0 => s[Len(s)] = "output_variant"
    BY <1>2, <1>4, <2>1, AboveFacts
  <2> QED BY <2>1, <2>2, <2>3, <2>4 DEF Nonterminals
<1>6. Len(r.rhs) > 0
  BY <1>5, RuleFacts
<1>7. EndOf(r.rhs) = s[Len(s)] /\ EndOf(r.rhs) \notin Openers
  BY <1>6, HandleFacts, RuleEnds DEF EndFacts, Top
<1>8. Len(s) = 4 /\ EndOf(r.rhs) = "NEWLINE"
  BY <1>2, <1>4, <1>7 DEF Openers
<1>9. r \in {ErrorRule, VariantRule}
  BY <1>6, <1>8, RuleFacts
<1> QED BY <1>8, <1>9 DEF ErrorRule, VariantRule, Rule

LEMMA ReduceMoves ==
    ASSUME PushInv, NEW r \in Rules, Reduce(r), UNCHANGED unread
    PROVE  Here' \in {Here, After(Here)}
<1> DEFINE p == Pop(stack, Len(r.rhs))
           n == Len(p)
<1>1. /\ Parsing /\ status = "RUNNING" /\ Reducible(r) /\ IsHandle(r, stack)
      /\ ChecksPrompt(r) => lexed.text = "gdb"
      /\ stack' = Append(p, r.lhs)
      /\ variant' = CASE r.lhs = "output_variant" -> KindOf(r)
                      [] r.lhs = "output" -> "none"
                      [] OTHER -> variant
      /\ output'.kind = IF r.rhs = <<"output_variant", "NEWLINE">>
                        THEN variant ELSE output.kind
      /\ UNCHANGED <<lookahead, lexed, status>>
  BY DEF Reduce, Reducible, Parsing, Emits
<1>2. Stack(stack) /\ Stack(stack')
  BY <1>1, TypeStack, ReducedStack
<1>3. /\ Stack(p) /\ n = Len(stack) - Len(r.rhs)
      /\ Len(stack') = n + 1 /\ stack'[n + 1] = r.lhs
      /\ \A i \in 1..n : stack'[i] = stack[i]
      /\ r.lhs \in Expects(p)
  <2>1. /\ Stack(p) /\ n = Len(stack) - Len(r.rhs)
        /\ r.lhs \in Expects(p)
        /\ Len(stack') = n + 1 /\ Top(stack') = r.lhs
        /\ \A i \in 1..n : stack'[i] = stack[i]
    BY <1>1, <1>2, ReducedStack
  <2> HIDE DEF p, n
  <2> QED BY <2>1 DEF Top
<1>4. Len(r.rhs) \in Nat /\ n \in Nat /\ n >= 1 /\ Len(stack) \in Nat
  BY <1>2, <1>3, RuleFacts DEF Stack
<1> HIDE DEF p, n
<1>5. CASE Len(stack) = 1
  <2>1. Len(r.rhs) = 0 /\ n = 1
    BY <1>3, <1>4, <1>5
  <2>2. r.rhs = << >>
    BY <2>1, RuleEnds DEF Rule
  <2>3. stack[1] = "bottom" /\ p[1] = "bottom"
    BY <1>2, <1>3, OutermostSymbols
  <2>4. r.lhs = "output_list"
    <3>1. r.lhs \in Above("bottom", "bottom")
      <4>1. Len(p) = 1
        BY <2>1 DEF n
      <4> QED BY <1>3, <2>3, <4>1, ExpectsIsAbove
    <3> QED BY <3>1, AboveOutermost
  <2>5. stack = <<"bottom">> /\ stack' = CleanStack
    BY <1>2, <1>3, <1>5, <2>1, <2>3, <2>4 DEF Stack, CleanStack
  <2>6. /\ UNCHANGED <<unread, lookahead, lexed, status>>
        /\ output'.kind = output.kind
        /\ stack' # <<"bottom">>
        /\ ~(Len(stack') >= 3) /\ ~(Len(stack) >= 3)
    BY <1>1, <2>2, <2>5 DEF CleanStack
  <2>7. Here' = Here
    BY <2>5, <2>6, Zenon DEF Here
  <2> QED BY <2>7
<1>6. CASE Len(stack) # 1
  <2>1. /\ After(Here) = AfterReduce(Here, r)
        /\ Len(stack) >= 2 /\ Here.stack = stack
    BY <1>1, <1>6, RuleOfHere
  <2>2. /\ Here.lookahead = lookahead /\ Here.text = lexed.text
        /\ Here.status = status /\ Here.kind = output.kind
        /\ Here.unread = unread
    BY <1>1, <1>6, HereParsing
  <2>3. Len(stack) >= 3 /\ stack[3] = "output_variant" =>
          r.lhs = "output" /\ n = 2
    <3>1. Len(stack) >= 3 /\ stack[3] = "output_variant" =>
            r.lhs = "output" /\ Len(stack) = 4 /\ Len(r.rhs) = 2
      BY <1>1, <1>2, VariantIsReduced
    <3>2. n = 4 - 2 => n = 2
      OBVIOUS
    <3> QED BY <1>3, <3>1, <3>2
  <2>4. stack' # <<"bottom">>
    <3>1. Len(stack') # 1
      <4>1. CASE n = 1
        BY <1>3, <4>1
      <4>2. CASE n # 1
        BY <1>3, <1>4, <4>2
      <4> QED BY <4>1, <4>2
    <3> QED BY <3>1
  <2>5. Here.variant = IF Len(stack) >= 3 /\ stack[3] = "output_variant"
                       THEN variant ELSE "none"
    BY DEF Here
  <2>6. (IF Len(stack') >= 3 /\ stack'[3] = "output_variant"
         THEN variant' ELSE "none")
          = IF r.lhs = "output_variant" THEN KindOf(r)
            ELSE IF r.lhs = "output" THEN "none" ELSE Here.variant
    <3>1. CASE r.lhs \in {"output_variant", "output"}
      <4>1. n + 1 = 3
        <5>1. n + 1 \in 1..(n + 1)
          BY <1>4
        <5>2. n + 1 \in 1..Len(stack')
          BY <1>3, <5>1
        <5> HIDE DEF n
        <5>3. stack'[n + 1] \in {"output_variant", "output"}
          BY <1>3, <3>1
        <5> QED BY <1>2, <5>2, <5>3, OutermostSymbols
      <4>2. stack'[3] = r.lhs /\ Len(stack') = 3
        BY <1>3, <4>1
      <4> QED BY <1>1, <3>1, <4>2
    <3>2. CASE r.lhs \notin {"output_variant", "output"}
      <4>1. ~(Len(stack) >= 3 /\ stack[3] = "output_variant" /\ n < 3)
        BY <2>3, <3>2
      <4>2. n >= 3 => /\ stack'[3] = stack[3] /\ Len(stack') >= 3
                      /\ Len(stack) >= 3
        <5> DEFINE m == Len(stack)
                   k == Len(r.rhs)
        <5>1. m \in Nat /\ k \in Nat /\ n = m - k
          BY <1>3, <1>4
        <5> HIDE DEF m, k
        <5>2. n >= 3 => 3 \in 1..n /\ n + 1 >= 3 /\ m >= 3
          BY <5>1, <1>4
        <5> QED BY <1>3, <5>2 DEF m
      <4>3. n < 3 => ~(Len(stack') >= 3 /\ stack'[3] = "output_variant")
        <5>1. n = 2 => stack'[3] = r.lhs
          <6>1. n = 2 => n + 1 = 3
            OBVIOUS
          <6> QED BY <1>3, <6>1
        <5>2. n = 1 => ~(Len(stack') >= 3)
          <6>1. n = 1 => n + 1 = 2
            OBVIOUS
          <6> QED BY <1>3, <6>1
        <5>3. n < 3 => n \in {1, 2}
          BY <1>4
        <5> QED BY <3>2, <5>1, <5>2, <5>3
      <4>4. n >= 3 \/ n < 3
        BY <1>4
      <4>5. variant' = variant
        BY <1>1, <3>2
      <4>6. (IF Len(stack') >= 3 /\ stack'[3] = "output_variant"
             THEN variant' ELSE "none") = Here.variant
        BY <2>3, <2>5, <4>1, <4>2, <4>3, <4>4, <4>5
      <4> QED BY <3>2, <4>6
    <3> QED BY <3>1, <3>2
  <2>7. output'.kind = IF r.rhs = <<"output_variant", "NEWLINE">>
                       THEN Here.variant ELSE Here.kind
    <3>1. ASSUME r.rhs = <<"output_variant", "NEWLINE">>
          PROVE  Len(stack) >= 3 /\ stack[3] = "output_variant"
      <4>1. Len(r.rhs) = 2 /\ r.rhs[1] = "output_variant"
        BY <3>1
      <4> DEFINE k == Len(r.rhs)
                 m == Len(stack)
      <4>2. k = 2 /\ m \in Nat
        BY <1>4, <4>1
      <4>3. k > 1 => r.rhs[k - 1] = stack[m - 1]
        BY <1>1, <1>2, HandleFacts
      <4>4. k < m
        BY <1>1, <1>2, HandleFacts
      <4> HIDE DEF k, m
      <4>5. k > 1 /\ k - 1 = 1 /\ m - 1 \in 1..m /\ (m - 1 = 3 => m >= 3)
        BY <4>2, <4>4
      <4>6. stack[m - 1] = "output_variant"
        BY <4>1, <4>3, <4>5
      <4>7. m - 1 = 3
        BY <1>2, <4>5, <4>6, OutermostSymbols DEF m
      <4> QED BY <4>5, <4>6, <4>7 DEF m
    <3> QED BY <1>1, <2>2, <2>5, <3>1
  <2>8. Here' = AfterReduce(Here, r)
    <3> DEFINE c == Here
               d == Here'
               e == AfterReduce(Here, r)
               new == IF r.lhs = "output_variant" THEN KindOf(r)
                      ELSE IF r.lhs = "output" THEN "none" ELSE c.variant
               got == IF r.rhs = <<"output_variant", "NEWLINE">>
                      THEN c.variant ELSE c.kind
    <3>1. /\ Whole(e)
          /\ e.unread = c.unread /\ e.text = c.text
          /\ e.lookahead = c.lookahead
          /\ e.stack = Append(Pop(c.stack, Len(r.rhs)), r.lhs)
          /\ e.variant = new /\ e.kind = got /\ e.status = c.status
      <4>1. Whole(c) /\ e = AfterReduce(c, r)
        BY HereFields
      <4> HIDE DEF c, e
      <4> QED BY <4>1 DEF AfterReduce, Whole
    <3> HIDE DEF new, got
    <3>2. /\ Whole(d)
          /\ d.unread = c.unread /\ d.text = c.text
          /\ d.lookahead = c.lookahead /\ d.status = c.status
      BY <1>1, HereFields
    <3>3. d.stack = Append(Pop(c.stack, Len(r.rhs)), r.lhs)
      BY <1>1, <2>1, <2>4, HereFields DEF p
    <3>4. d.variant = new /\ d.kind = got
      BY <2>6, <2>7, HereFields DEF new, got
    <3> HIDE DEF c, d, e
    <3>5. d = e
      BY <3>1, <3>2, <3>3, <3>4, SamePlace
    <3> QED BY <3>5 DEF d, e
  <2> QED BY <2>1, <2>8
<1> QED BY <1>5, <1>6

\* Where the push parser is after an error.
LEMMA InErrorMoves ==
    ASSUME PushInv, Len(stack) >= 2, Recovers, status = "RUNNING",
           variant' = "none", UNCHANGED <<lexed, status>>
    PROVE  /\ Here'.stack = InError /\ Here'.variant = "none"
           /\ Here'.text = Here.text /\ Here'.status = "RUNNING"
<1>1. stack' = InError
  BY TypeStack, AfterRecovery DEF Recovers
<1>2. InError # <<"bottom">> /\ InError[3] # "output_variant"
  <2>1. Len(InError) = 3 /\ Len(<<"bottom">>) = 1
    BY StatusFacts
  <2> QED BY <2>1, StatusFacts
<1> QED BY <1>1, <1>2, HereFields

LEMMA RejectMoves ==
    ASSUME PushInv, NEW r \in Rules, RejectPrompt(r), UNCHANGED unread
    PROVE  Here' = After(Here)
<1>1. /\ Parsing /\ status = "RUNNING" /\ Reducible(r) /\ IsHandle(r, stack)
      /\ ChecksPrompt(r) /\ lexed.text # "gdb" /\ r.lhs = "check"
      /\ Recovers /\ variant' = "none"
      /\ output' = ParseError(lexed)
      /\ UNCHANGED <<lookahead, lexed, status>>
  BY DEF RejectPrompt, Reducible, Parsing, Emits, ChecksPrompt
<1>2. Top(stack) = "variable" /\ Stack(stack)
  BY <1>1, TypeStack, ReduceFacts
<1>3. Len(stack) # 1
  BY <1>2, OutermostSymbols DEF Top
<1>4. After(Here) = AfterRejected(Here) /\ Len(stack) >= 2
  BY <1>1, <1>3, RuleOfHere
<1>5. /\ Here'.stack = InError /\ Here'.variant = "none"
      /\ Here'.text = Here.text /\ Here'.status = "RUNNING"
  BY <1>1, <1>4, InErrorMoves
<1>6. /\ Here'.kind = "PARSE_ERROR" /\ Here'.unread = Here.unread
      /\ Here'.lookahead = Here.lookahead /\ Here.status = "RUNNING"
  BY <1>1, HereFields DEF ParseError
<1>7. Here' = AfterRejected(Here)
  <2> DEFINE c == Here
             d == Here'
             e == AfterRejected(Here)
  <2>1. Whole(c) /\ Whole(d) /\ e = AfterRejected(c)
    BY HereFields
  <2>2. /\ d.unread = c.unread /\ d.text = c.text
        /\ d.lookahead = c.lookahead /\ d.stack = InError
        /\ d.variant = "none" /\ d.kind = "PARSE_ERROR"
        /\ d.status = c.status
    BY <1>5, <1>6
  <2> HIDE DEF c, d, e
  <2>3. /\ Whole(e)
        /\ e.unread = c.unread /\ e.text = c.text
        /\ e.lookahead = c.lookahead /\ e.stack = InError
        /\ e.variant = "none" /\ e.kind = "PARSE_ERROR"
        /\ e.status = c.status
    BY <2>1, WholeRejected
  <2>4. d = e
    BY <2>1, <2>2, <2>3, SamePlace
  <2> QED BY <2>4 DEF d, e
<1> QED BY <1>4, <1>7

LEMMA ErrorMoves ==
    ASSUME PushInv, SyntaxError, UNCHANGED unread
    PROVE  Here' = After(Here)
<1>1. /\ Parsing /\ status = "RUNNING" /\ Len(stack) < MaxDepth
      /\ NeedsLookahead(stack)
      /\ lookahead # NoToken /\ lookahead \notin Expects(stack)
      /\ ~\E r \in Rules : Reducible(r)
      /\ output' = IF errstatus = 0 THEN ParseError(lexed) ELSE output
      /\ lookahead' = IF errstatus = 3 THEN NoToken ELSE lookahead
      /\ Recovers /\ variant' = "none" /\ UNCHANGED <<lexed, status>>
  BY DEF SyntaxError, Parsing, Emits, LookaheadAfterError
<1>2. Stack(stack) /\ errstatus = ErrStatus(stack)
  BY TypeStack DEF PushInv, StackInv
<1>3. Len(stack) # 1
  <2>1. Len(stack) = 1 => Expects(stack) = {"output_list"}
    BY <1>2, ExpectsIsAbove, AboveOutermost, OutermostSymbols
  <2> QED BY <1>1, <2>1, TokenSymbols DEF NeedsLookahead
<1>4. /\ Len(stack) >= 2 /\ Here.stack = stack /\ Here.lookahead = lookahead
      /\ Here.status = "RUNNING" /\ After(Here) = Parsed(Here)
  BY <1>1, <1>3, HereParsing
<1>5. {r \in Rules : Applies(r, stack, lookahead)} = {}
  <2>1. ASSUME NEW r \in Rules, Applies(r, stack, lookahead)
        PROVE  FALSE
    BY <1>1, <2>1 DEF Applies, Reducible
  <2> QED BY <2>1
<1>6. ~(Len(Here.stack) >= MaxDepth)
  BY <1>1, <1>2, <1>4, MaxDepthAssumption DEF Stack
<1>7. Parsed(Here) = AfterError(Here)
  BY <1>1, <1>4, <1>5, <1>6 DEF Parsed
<1>8. /\ Here'.stack = InError /\ Here'.variant = "none"
      /\ Here'.text = Here.text /\ Here'.status = "RUNNING"
  BY <1>1, <1>4, InErrorMoves
<1>9. /\ Here'.kind = IF ErrStatus(Here.stack) = 0 THEN "PARSE_ERROR"
                      ELSE Here.kind
      /\ Here'.lookahead = IF ErrStatus(Here.stack) = 3 THEN NoToken
                           ELSE Here.lookahead
      /\ Here'.unread = Here.unread
  BY <1>1, <1>2, <1>4, HereFields DEF ParseError
<1>10. Here' = AfterError(Here)
  <2> DEFINE c == Here
             d == Here'
             e == AfterError(Here)
  <2>1. Whole(c) /\ Whole(d) /\ e = AfterError(c)
    BY HereFields
  <2>2. /\ d.unread = c.unread /\ d.text = c.text
        /\ d.lookahead = IF ErrStatus(c.stack) = 3 THEN NoToken ELSE c.lookahead
        /\ d.stack = InError /\ d.variant = "none"
        /\ d.kind = IF ErrStatus(c.stack) = 0 THEN "PARSE_ERROR" ELSE c.kind
        /\ d.status = c.status
    BY <1>4, <1>8, <1>9
  <2> HIDE DEF c, d, e
  <2>3. /\ Whole(e) /\ e.unread = c.unread /\ e.text = c.text
        /\ e.lookahead = IF ErrStatus(c.stack) = 3 THEN NoToken ELSE c.lookahead
        /\ e.stack = InError /\ e.variant = "none"
        /\ e.kind = IF ErrStatus(c.stack) = 0 THEN "PARSE_ERROR" ELSE c.kind
        /\ e.status = c.status
    BY <2>1, WholeError
  <2>4. d = e
    BY <2>1, <2>2, <2>3, SamePlace
  <2> QED BY <2>4 DEF d, e
<1> QED BY <1>4, <1>7, <1>10

LEMMA NeedMoves ==
    ASSUME PushInv, NeedToken, UNCHANGED unread
    PROVE  Here' = After(Here)
<1>1. /\ status = "RUNNING" /\ Len(stack) < MaxDepth
      /\ NeedsLookahead(stack) /\ lookahead = NoToken /\ status' = "MORE"
      /\ UNCHANGED <<stack, lookahead, lexed, variant, output>>
  BY DEF NeedToken, Parsing
<1>2. Stack(stack)
  BY TypeStack
<1>3. Len(stack) # 1
  <2>1. Len(stack) = 1 => Expects(stack) = {"output_list"}
    BY <1>2, ExpectsIsAbove, AboveOutermost, OutermostSymbols
  <2> QED BY <1>1, <2>1, TokenSymbols DEF NeedsLookahead
<1>4. /\ Here.stack = stack /\ Here.lookahead = NoToken
      /\ After(Here) = Parsed(Here)
  BY <1>1, <1>3, HereParsing
<1>5. NoToken \notin Expects(stack)
  <2>1. NoToken \notin Symbols
    BY DEF NoToken, Symbols, Tokens, Nonterminals, StreamOps, AsyncOps
  <2> QED BY <1>2, <2>1, ExpectsIsAbove, AboveFacts
<1>6. {r \in Rules : Applies(r, stack, NoToken)} = {}
  BY <1>1 DEF Applies
<1>7. ~(Len(Here.stack) >= MaxDepth)
  BY <1>1, <1>2, <1>4, MaxDepthAssumption DEF Stack
<1>8. Parsed(Here) = [Here EXCEPT !.status = "MORE"]
  BY <1>4, <1>5, <1>6, <1>7 DEF Parsed
<1>9. /\ Here'.unread = Here.unread /\ Here'.stack = Here.stack
      /\ Here'.lookahead = Here.lookahead /\ Here'.text = Here.text
      /\ Here'.variant = Here.variant /\ Here'.kind = Here.kind
      /\ Here'.status = "MORE"
  BY <1>1, HereFields
<1>10. Here' = [Here EXCEPT !.status = "MORE"]
  <2> DEFINE c == Here
             d == Here'
  <2>1. Whole(c) /\ Whole(d)
    BY HereFields
  <2>2. /\ d.unread = c.unread /\ d.stack = c.stack
        /\ d.lookahead = c.lookahead /\ d.text = c.text
        /\ d.variant = c.variant /\ d.kind = c.kind
        /\ d.status = "MORE"
    BY <1>9
  <2> HIDE DEF c, d
  <2>3. d = [c EXCEPT !.status = "MORE"]
    BY <2>1, <2>2 DEF Whole
  <2> QED BY <2>3 DEF c, d
<1> QED BY <1>4, <1>8, <1>10

LEMMA ExhaustedMoves ==
    ASSUME PushInv, Exhausted, UNCHANGED unread
    PROVE  Here' = After(Here)
<1>1. /\ status = "RUNNING" /\ Len(stack) >= MaxDepth
      /\ output' = ParseError(lexed) /\ stack' = <<"bottom">>
      /\ lookahead' = NoToken /\ variant' = "none" /\ status' = "NOMEM"
      /\ UNCHANGED lexed
  BY DEF Exhausted, Emits
<1>2. Stack(stack) /\ Len(stack) # 1
  <2>1. Len(stack) = 1 => 1 >= MaxDepth
    BY <1>1
  <2>2. ~(1 >= MaxDepth)
    BY MaxDepthAssumption
  <2> QED BY <2>1, <2>2, TypeStack
<1>3. Here.stack = stack /\ After(Here) = Parsed(Here)
  BY <1>1, <1>2, HereParsing
<1>4. Parsed(Here) = TooDeep(Here)
  BY <1>1, <1>3 DEF Parsed
<1>5. /\ Here'.unread = Here.unread /\ Here'.text = Here.text
      /\ Here'.stack = CleanStack /\ Here'.lookahead = NoToken
      /\ Here'.variant = "none" /\ Here'.kind = "PARSE_ERROR"
      /\ Here'.status = "NOMEM"
  BY <1>1, HereFields DEF ParseError
<1>6. Here' = TooDeep(Here)
  <2> DEFINE c == Here
             d == Here'
             e == TooDeep(Here)
  <2>1. Whole(c) /\ Whole(d) /\ e = TooDeep(c)
    BY HereFields
  <2>2. /\ d.unread = c.unread /\ d.text = c.text
        /\ d.stack = CleanStack /\ d.lookahead = NoToken
        /\ d.variant = "none" /\ d.kind = "PARSE_ERROR"
        /\ d.status = "NOMEM"
    BY <1>5
  <2> HIDE DEF c, d, e
  <2>3. /\ Whole(e) /\ e.unread = c.unread /\ e.text = c.text
        /\ e.stack = CleanStack /\ e.lookahead = NoToken
        /\ e.variant = "none" /\ e.kind = "PARSE_ERROR"
        /\ e.status = "NOMEM"
    BY <2>1, WholeDeep
  <2>4. d = e
    BY <2>1, <2>2, <2>3, SamePlace
  <2> QED BY <2>4 DEF d, e
<1> QED BY <1>3, <1>4, <1>6

LEMMA PushMoves ==
    ASSUME PushInv, PushStep, UNCHANGED unread
    PROVE  Here' \in {Here, After(Here)}
<1>1. ASSUME NEW r \in Rules, Reduce(r)
      PROVE  Here' \in {Here, After(Here)}
  BY <1>1, ReduceMoves
<1>2. ASSUME NEW r \in Rules, RejectPrompt(r)
      PROVE  Here' = After(Here)
  BY <1>2, RejectMoves
<1> QED BY <1>1, <1>2, ShiftMoves, ErrorMoves, NeedMoves, ExhaustedMoves
        DEF PushStep

LEMMA LexMoves ==
    ASSUME LexToken
    PROVE  Here' = After(Here)
<1>1. /\ unread # << >> /\ unread[1] # "blank"
      /\ status \in {"UNINIT", "MORE"}
      /\ unread' = SubSeq(unread, Match.size + 1, Len(unread))
      /\ lexed'.text = Match.text /\ lookahead' = TokenOf(Match.text)
      /\ status' = "RUNNING"
      /\ UNCHANGED <<stack, variant, output>>
  BY DEF LexToken, GiveToken
<1>2. Match.size = FirstSize(unread) /\ Match.text = FirstText(unread)
  <2>1. CASE Len(unread) > 1 /\ unread[1] = "CR" /\ unread[2] = "LF"
    BY <2>1 DEF Match, FirstSize, FirstText, Newlines
  <2>2. CASE ~(Len(unread) > 1 /\ unread[1] = "CR" /\ unread[2] = "LF")
    BY <2>2 DEF Match, FirstSize, FirstText
  <2> QED BY <2>1, <2>2
<1>3. After(Here) = AfterToken(Here)
  BY <1>1, HereFields DEF After
<1>4. /\ Here'.unread = SubSeq(Here.unread, FirstSize(Here.unread) + 1,
                               Len(Here.unread))
      /\ Here'.text = FirstText(Here.unread)
      /\ Here'.lookahead = TokenOf(FirstText(Here.unread))
      /\ Here'.stack = Here.stack /\ Here'.variant = Here.variant
      /\ Here'.kind = Here.kind /\ Here'.status = "RUNNING"
  BY <1>1, <1>2, HereFields
<1>5. Here' = AfterToken(Here)
  <2> DEFINE c == Here
             d == Here'
             e == AfterToken(Here)
             u == SubSeq(Here.unread, FirstSize(Here.unread) + 1,
                         Len(Here.unread))
             t == FirstText(Here.unread)
  <2>1. Whole(c) /\ Whole(d) /\ e = AfterToken(c)
        /\ u = SubSeq(c.unread, FirstSize(c.unread) + 1, Len(c.unread))
        /\ t = FirstText(c.unread)
    BY HereFields
  <2>2. /\ d.unread = u /\ d.text = t /\ d.lookahead = TokenOf(t)
        /\ d.stack = c.stack /\ d.variant = c.variant /\ d.kind = c.kind
        /\ d.status = "RUNNING"
    BY <1>4
  <2> HIDE DEF c, d, e, u, t
  <2>3. /\ Whole(e)
        /\ e.unread = u /\ e.text = t /\ e.lookahead = TokenOf(t)
        /\ e.stack = c.stack /\ e.variant = c.variant /\ e.kind = c.kind
        /\ e.status = "RUNNING"
    BY <2>1, WholeToken
  <2>4. d = e
    BY <2>1, <2>2, <2>3, SamePlace
  <2> QED BY <2>4 DEF d, e
<1> QED BY <1>3, <1>5

LEMMA BlankMoves ==
    ASSUME SkipBlank, status # "RUNNING"
    PROVE  Here' = After(Here)
<1>1. /\ unread # << >> /\ unread[1] = "blank" /\ unread' = Tail(unread)
      /\ UNCHANGED <<stack, lookahead, lexed, variant, output, status>>
  BY DEF SkipBlank, pushVars
<1>2. After(Here) = AfterBlank(Here)
  BY <1>1, HereFields DEF After
<1>3. /\ Here'.unread = Tail(Here.unread) /\ Here'.stack = Here.stack
      /\ Here'.lookahead = Here.lookahead /\ Here'.text = Here.text
      /\ Here'.variant = Here.variant /\ Here'.kind = Here.kind
      /\ Here'.status = Here.status
  BY <1>1, HereFields
<1>4. Here' = AfterBlank(Here)
  <2> DEFINE c == Here
             d == Here'
             e == AfterBlank(Here)
  <2>1. Whole(c) /\ Whole(d) /\ e = AfterBlank(c)
    BY HereFields
  <2>2. /\ d.unread = Tail(c.unread) /\ d.stack = c.stack
        /\ d.lookahead = c.lookahead /\ d.text = c.text
        /\ d.variant = c.variant /\ d.kind = c.kind /\ d.status = c.status
    BY <1>3
  <2> HIDE DEF c, d, e
  <2>3. d = e
    BY <2>1, <2>2, WholeBlank, SamePlace
  <2> QED BY <2>3 DEF d, e
<1> QED BY <1>2, <1>4

LEMMA BeginMoves ==
    ASSUME PushInv, GetNextLine, ~abandoned'
    PROVE  OnItsRun'
<1>1. /\ status # "RUNNING" /\ Resynced /\ status' = "UNINIT"
      /\ output' = NoOutput /\ unread' = line'
      /\ UNCHANGED <<stack, lookahead>>
  BY DEF GetNextLine, BeginLine
<1>2. lookahead = NoToken
  BY <1>1 DEF PushInv, TokenInv
<1>3. Here'.stack = CleanStack /\ ~(Len(stack') >= 3)
  <2>1. stack' \in {<<"bottom">>, CleanStack}
    BY <1>1 DEF Resynced, CleanStack
  <2>2. Len(stack') \in {1, 2}
    BY <2>1 DEF CleanStack
  <2>3. ~(Len(stack') >= 3)
    BY <2>2
  <2> QED BY <2>1, <2>3, HereFields
<1>4. /\ Here'.unread = line' /\ Here'.lookahead = NoToken
      /\ Here'.text = "NEWLINE" /\ Here'.variant = "none"
      /\ Here'.kind = NoOutput.kind /\ Here'.status = "UNINIT"
      /\ Whole(Here')
  BY <1>1, <1>2, <1>3, HereFields
<1>5. Here' = Begin(line')
  <2> DEFINE d == Here'
  <2>1. /\ Whole(d) /\ d.unread = line' /\ d.stack = CleanStack
        /\ d.lookahead = NoToken
        /\ d.text = "NEWLINE" /\ d.variant = "none"
        /\ d.kind = NoOutput.kind /\ d.status = "UNINIT"
    BY <1>3, <1>4
  <2> HIDE DEF d
  <2>2. d = Begin(line')
    BY <2>1 DEF Whole, Begin
  <2> QED BY <2>2 DEF d
<1> DEFINE run == [i \in 0..0 |-> Begin(line')]
<1>6. IsRun(line', 0, run) /\ run[0] = Here'
  BY <1>5 DEF IsRun
<1> QED BY <1>6 DEF OnItsRun

\* A line that begins on a clean stack is on its run until it is delivered.
OutcomeInv == InLine /\ ~abandoned => OnItsRun

LEMMA OutcomeStep ==
    PushInv /\ LingerInv /\ OutcomeInv /\ AnyStep => OutcomeInv'
<1> SUFFICES ASSUME PushInv, LingerInv, OutcomeInv, AnyStep,
                    InLine', ~abandoned'
             PROVE  OnItsRun'
  BY DEF OutcomeInv
<1>1. CASE GetNextLine
  BY <1>1, BeginMoves
<1>2. CASE LexToken
  <2>1. /\ InLine /\ ~abandoned /\ line' = line /\ status # "NOMEM"
        /\ unread # << >>
    BY <1>2 DEF LexToken, GiveToken, InLine
  <2>2. ~Over(Here)
    BY <2>1, HereFields DEF Over
  <2> QED BY <1>2, <2>1, <2>2, LexMoves, RunStep DEF OutcomeInv
<1>3. CASE SkipBlank
  <2>1. /\ InLine /\ ~abandoned /\ line' = line
        /\ status \in {"UNINIT", "MORE"} /\ unread # << >>
    BY <1>3 DEF SkipBlank, LingerInv, InLine, pushVars
  <2>2. ~Over(Here)
    BY <2>1, HereFields DEF Over
  <2> QED BY <1>3, <2>1, <2>2, BlankMoves, RunStep DEF OutcomeInv
<1>4. CASE ParseToken
  <2>1. /\ InLine /\ PushStep /\ UNCHANGED <<line, unread>>
    BY <1>4 DEF ParseToken, InLine
  <2>2. status = "RUNNING" /\ ~abandoned
    BY <2>1, PushStepStatus
  <2>3. ~Over(Here)
    BY <2>2, HereFields DEF Over
  <2> QED BY <2>1, <2>2, <2>3, PushMoves, RunStep DEF OutcomeInv
<1>5. CASE EndOfLine \/ UNCHANGED vars
  <2>1. /\ InLine /\ ~abandoned /\ UNCHANGED <<line, unread, pushVars>>
    BY <1>5 DEF EndOfLine, InLine, vars, parserVars, pushVars
  <2>2. Here' = Here
    BY <2>1 DEF Here, pushVars
  <2> QED BY <2>1, <2>2 DEF OutcomeInv, OnItsRun
<1>6. CASE ~(GetNextLine \/ LexToken \/ SkipBlank \/ ParseToken
             \/ EndOfLine \/ UNCHANGED vars)
  <2>1. ASSUME NEW chunk, PushData(chunk) PROVE ~InLine'
    BY <2>1 DEF PushData, InLine
  <2>2. ~InLine'
    BY <1>6, <2>1 DEF AnyStep, Library, PushNotStored, CallbackReturns, Crash,
       Destroy, NoMoreLines, LineNotCopied, Deliver, FailLine, Return, InLine
  <2> QED BY <2>2
<1> QED BY <1>1, <1>2, <1>3, <1>4, <1>5, <1>6

\* The verdict of a line is what the line ends in, for any line but those too
\* deep.  What a line ends in, no other line has a part in.
VerdictIsOutcome ==
    \A l \in Seq(Input) : \A c :
        HasNewline(l) /\ EndsIn(l, c) /\ c.status # "NOMEM" =>
            Verdict(l) = c.kind

LEMMA OutcomeOfLine ==
    ASSUME VerdictIsOutcome
    PROVE  LineInv /\ LingerInv /\ OutcomeInv => CleanLinesStandAlone
<1> SUFFICES ASSUME LineInv, LingerInv, OutcomeInv, pc = "check",
                    status # "NOMEM", ~abandoned, HasNewline(line)
             PROVE  output.kind = Verdict(line)
  BY DEF CleanLinesStandAlone
<1>1. OnItsRun
  BY DEF OutcomeInv, InLine
<1>2. Over(Here)
  BY HereFields DEF LingerInv, Over
<1>3. EndsIn(line, Here)
  BY <1>1, <1>2 DEF OnItsRun, EndsIn
<1>4. line \in Seq(Input)
  BY DEF LineInv, Clean
<1>5. Here.kind = output.kind /\ Here.status = status
  BY HereFields
<1> QED BY <1>3, <1>4, <1>5 DEF VerdictIsOutcome

LEMMA OutcomeInit == Init => OutcomeInv
BY DEF Init, OutcomeInv, InLine

LEMMA OutcomeHolds ==
    ASSUME EveryColumn
    PROVE  Spec => []OutcomeInv
<1>1. ParserInv /\ OutcomeInv /\ [Next]_vars => OutcomeInv'
  BY NextIsStep, OutcomeStep DEF ParserInv
<1> QED BY <1>1, OutcomeInit, ParserInvHolds, PTL DEF Spec

\* What comes of a line that begins on a clean stack is decided by that line:
\* nothing that was pushed before it, or that happens while it is parsed, has
\* a part in it.  The tables leave no choice, and neither the lookahead nor
\* yyerrstatus nor the last token outlives its line.
THEOREM CleanLinesAreAlone ==
    ASSUME EveryColumn, VerdictIsOutcome
    PROVE  Spec => []CleanLinesStandAlone
BY OutcomeOfLine, OutcomeHolds, LineHolds, LingerHolds, PTL

-----------------------------------------------------------------------------
(* The parser implements the protocol.                                     *)

FirstKinds(n) == [k \in 1..n |-> delivered[k].output.kind]

LEMMA OutputsAre ==
    ASSUME LinesOfText \in Nat, Len(delivered) \in Nat
    PROVE  /\ Len(delivered) <= LinesOfText =>
                 OutputsOfText = FirstKinds(Len(delivered))
           /\ LinesOfText <= Len(delivered) =>
                 OutputsOfText = FirstKinds(LinesOfText)
<1>1. Len(delivered) < LinesOfText => OutputsOfText = FirstKinds(Len(delivered))
  BY DEF OutputsOfText, FirstKinds
<1>2. ~(Len(delivered) < LinesOfText) => OutputsOfText = FirstKinds(LinesOfText)
  BY DEF OutputsOfText, FirstKinds
<1>3. Len(delivered) <= LinesOfText =>
        Len(delivered) < LinesOfText \/ Len(delivered) = LinesOfText
  OBVIOUS
<1>4. LinesOfText <= Len(delivered) => ~(Len(delivered) < LinesOfText)
  OBVIOUS
<1> QED BY <1>1, <1>2, <1>3, <1>4

\* The line that is delivered is the next one of the text.
LEMMA NextLineOfText ==
    ASSUME Streaming, InLine, Len(delivered) < LinesOfText
    PROVE  /\ NulFree
           /\ line = Protocol!Line(Text, Len(delivered) + 1)
<1> DEFINE c == Len(consumed)
           t == TextLength(pushed)
           d == Len(delivered)
<1>1. /\ PrefixInv /\ KeepsUp /\ d \in Nat
      /\ consumed \in Seq(Input) /\ pushed \in Seq(Input) /\ c \in Nat
      /\ \A i \in 1..c : consumed[i] = pushed[i]
  BY DEF Streaming, PrefixInv, OutputsInv
<1>2. /\ Text \in Seq(Input) /\ Len(Text) = t /\ t \in 0..Len(pushed)
      /\ \A i \in 1..t : Text[i] = pushed[i]
      /\ TextTo(Text, Len(Text))
      /\ LinesOfText = Lines(pushed, t)
  BY <1>1, TextIs DEF LinesOfText
<1>3. TextLength(consumed) = c /\ c <= t
  <2>1. CASE TextLength(consumed) < c
    <3>1. /\ t = TextLength(consumed)
          /\ Lines(consumed, t) = Lines(pushed, t)
      BY <1>1, <2>1, ConsumedText
    <3>2. Lines(consumed, t) <= d /\ Lines(consumed, t) \in Nat
      <4>1. Lines(consumed, t) <= d
        BY <1>1, <2>1, <3>1 DEF KeepsUp
      <4>2. t \in Nat
        BY <1>1, <1>2
      <4> QED BY <4>1, <4>2, LinesStep
    <3> QED BY <1>1, <1>2, <3>1, <3>2
  <2>2. CASE ~(TextLength(consumed) < c)
    <3>1. TextLength(consumed) = c
      BY <1>1, <2>2, ConsumedText
    <3> QED BY <1>1, <3>1, ConsumedText
  <2> QED BY <2>1, <2>2
<1>4. /\ c = 0 \/ consumed[c] = "LF"
      /\ Lines(consumed, c) = d + 1
  BY <1>1, <1>3 DEF KeepsUp
<1>5. PICK p : LineBegins(p)
  BY <1>1, <1>3 DEF KeepsUp
<1>6. /\ p \in 0..(c - 1)
      /\ p = 0 \/ consumed[p] = "LF"
      /\ Lines(consumed, p) = d /\ line = SubSeq(consumed, p + 1, c)
  BY <1>5 DEF LineBegins
<1> HIDE DEF c, t, d
<1>7. \A i \in 1..c : consumed[i] = Text[i]
  BY <1>1, <1>2, <1>3
<1>8. Lines(Text, p) = d /\ Lines(Text, c) = d + 1
  <2>1. \A i \in 1..p : consumed[i] = Text[i]
    BY <1>1, <1>6, <1>7
  <2>2. /\ Lines(consumed, p) = Lines(Text, p)
        /\ Lines(consumed, c) = Lines(Text, c)
    BY <1>7, <2>1, LinesSame
  <2> QED BY <1>4, <1>6, <2>2
<1>9. Protocol!EndOf(Text, d) = p /\ Protocol!EndOf(Text, d + 1) = c
  <2>1. p \in 0..Len(Text) /\ c \in 0..Len(Text)
    BY <1>1, <1>2, <1>3, <1>6
  <2>2. (p = 0 \/ Text[p] = "LF") /\ (c = 0 \/ Text[c] = "LF")
    BY <1>1, <1>4, <1>6, <1>7
  <2>3. /\ Protocol!EndOf(Text, Lines(Text, p)) = p
        /\ Protocol!EndOf(Text, Lines(Text, c)) = c
    BY <1>2, <2>1, <2>2, EndOfText
  <2> QED BY <1>8, <2>3
<1>10. Protocol!Line(Text, d + 1) = SubSeq(Text, p + 1, c)
  <2>1. (d + 1) - 1 = d
    BY <1>1
  <2> QED BY <1>9, <2>1 DEF Protocol!Line
<1>11. SubSeq(Text, p + 1, c) = SubSeq(consumed, p + 1, c)
  <2>1. c <= Len(Text) /\ c <= Len(consumed) /\ p \in Nat
    BY <1>1, <1>2, <1>3, <1>6 DEF c
  <2> QED BY <1>1, <1>2, <1>7, <2>1
<1>12. NulFree
  <2>1. TextTo(consumed, c)
    BY <1>1, <1>3, TextLengthIs DEF c
  <2>2. \A i \in 1..c : consumed[i] # "NUL"
    BY <2>1 DEF TextTo, NotText
  <2> QED BY <1>1, <2>2 DEF NulFree, Range, c
<1> QED BY <1>6, <1>10, <1>11, <1>12 DEF d

LEMMA DeliverRefines ==
    ASSUME ParserInv, Streaming, CleanLinesStandAlone, Deliver
    PROVE  Protocol!Emit \/ UNCHANGED Protocol!vars
<1> DEFINE d == Len(delivered)
           n == LinesOfText
           r == [output |-> output, line |-> line]
<1>1. /\ pc = "check" /\ InLine /\ pushed' = pushed
      /\ delivered' = Append(delivered, r)
  BY DEF Deliver, InLine
<1>2. PrefixInv /\ delivered \in Seq([output : Outputs \ {NoOutput},
                                      line : Seq(Input)])
  BY DEF Streaming, OutputsInv
<1>3. /\ d \in Nat /\ Len(delivered') = d + 1
      /\ delivered'[d + 1] = r
      /\ \A k \in 1..d : delivered'[k] = delivered[k]
  BY <1>1, <1>2
<1>4. Text' = Text /\ n' = n /\ n \in Nat
  BY <1>1, <1>2, TextIs DEF Text, LinesOfText
<1>5. CASE d < n
  <2>1. OutputsOfText = FirstKinds(d)
    BY <1>3, <1>4, <1>5, OutputsAre
  <2>2. OutputsOfText' = [k \in 1..(d + 1) |-> delivered'[k].output.kind]
    <3>1. (IF Len(delivered') < LinesOfText' THEN Len(delivered')
           ELSE LinesOfText') = d + 1
      BY <1>3, <1>4, <1>5
    <3> QED BY <3>1, Zenon DEF OutputsOfText
  <2>3. output.kind = Verdict(Protocol!Line(Text, d + 1))
    <3>1. NulFree /\ line = Protocol!Line(Text, d + 1)
      BY <1>1, <1>5, NextLineOfText
    <3>2. HasNewline(line) /\ ~abandoned /\ status # "NOMEM"
      BY <1>1, <3>1 DEF ParserInv, NulFreeInv, Deliver, LineParsed
    <3> QED BY <1>1, <3>1, <3>2 DEF CleanLinesStandAlone
  <2>4. Len(OutputsOfText) = d
    BY <1>3, <2>1 DEF FirstKinds
  <2>5. OutputsOfText' = Append(OutputsOfText, output.kind)
    <3> DEFINE f == [k \in 1..(d + 1) |-> delivered'[k].output.kind]
               g == Append(FirstKinds(d), output.kind)
    <3>1. f = g
      <4>1. /\ DOMAIN g = 1..(d + 1) /\ g[d + 1] = output.kind
            /\ \A k \in 1..d : g[k] = delivered[k].output.kind
        BY <1>3 DEF FirstKinds
      <4>2. \A k \in 1..(d + 1) : f[k] = g[k]
        BY <1>3, <4>1
      <4>3. g = [k \in 1..(d + 1) |-> g[k]]
        BY <1>3 DEF FirstKinds
      <4> QED BY <4>1, <4>2, <4>3
    <3> QED BY <2>1, <2>2, <3>1
  <2>6. d < Cardinality(Protocol!Ends(Text))
    BY <1>2, <1>5, TextIs
  <2> QED BY <1>4, <2>3, <2>4, <2>5, <2>6, SameCardinality DEF Protocol!Emit
<1>6. CASE n <= d
  <2>1. OutputsOfText = FirstKinds(n)
    BY <1>3, <1>4, <1>6, OutputsAre
  <2>2. OutputsOfText' = [k \in 1..n |-> delivered'[k].output.kind]
    <3>1. (IF Len(delivered') < LinesOfText' THEN Len(delivered')
           ELSE LinesOfText') = n
      BY <1>3, <1>4, <1>6
    <3> QED BY <3>1, Zenon DEF OutputsOfText
  <2>3. \A k \in 1..n : delivered'[k] = delivered[k]
    BY <1>3, <1>4, <1>6
  <2>4. OutputsOfText' = OutputsOfText
    BY <2>1, <2>2, <2>3 DEF FirstKinds
  <2> QED BY <1>4, <2>4 DEF Protocol!vars
<1> QED BY <1>3, <1>4, <1>5, <1>6

\* Text is only added to, and only as long as it goes on; the outputs that
\* have come are those they were.
LEMMA PushDataRefines ==
    ASSUME Streaming, NEW chunk \in Seq(Input), PushData(chunk)
    PROVE  Protocol!Receive \/ UNCHANGED Protocol!vars
<1> DEFINE d == Len(delivered)
           n == LinesOfText
           t == TextLength(pushed)
           q == pushed'
           u == TextLength(q)
<1>1. q = pushed \o chunk /\ delivered' = delivered
  BY DEF PushData
<1>2. /\ PrefixInv /\ KeepsUp /\ pushed \in Seq(Input)
      /\ delivered \in Seq([output : Outputs \ {NoOutput}, line : Seq(Input)])
      /\ d \in Nat
  BY DEF Streaming, PrefixInv, OutputsInv
<1>3. /\ q \in Seq(Input) /\ Len(pushed) \in Nat /\ Len(q) \in Nat
      /\ Len(pushed) <= Len(q)
      /\ \A i \in 1..Len(pushed) : pushed[i] = q[i]
  BY <1>1, <1>2
<1>4. /\ t \in 0..Len(pushed) /\ u \in 0..Len(q)
      /\ t < Len(pushed) => u = t
      /\ t = Len(pushed) => u >= t
  <2>1. t \in 0..Len(pushed) /\ u \in 0..Len(q)
    BY <1>2, <1>3, TextLengthIs
  <2> QED BY <1>2, <1>3, <2>1, TextLengthSame
<1>5. /\ Text = SubSeq(pushed, 1, t) /\ Text' = SubSeq(q, 1, u)
      /\ n = Lines(pushed, t) /\ n' = Lines(q, u)
  BY DEF Text, LinesOfText
<1> HIDE DEF q, t, u
<1>6. t \in Nat /\ u \in Nat /\ t <= u /\ Lines(q, t) = n
  <2>1. t \in Nat /\ u \in Nat /\ t <= u
    BY <1>3, <1>4
  <2>2. \A i \in 1..t : pushed[i] = q[i]
    BY <1>3, <1>4
  <2>3. Lines(q, t) = Lines(pushed, t)
    BY <2>2, LinesSame
  <2> QED BY <1>5, <2>1, <2>3
<1>7. SubSeq(Text', 1, Len(Text)) = Text /\ Len(Text) <= Len(Text')
  <2>1. /\ Text \in Seq(Input) /\ Len(Text) = t
        /\ \A i \in 1..t : Text[i] = pushed[i]
    BY <1>2, <1>3, <1>4, <1>5
  <2>2. /\ Text' \in Seq(Input) /\ Len(Text') = u
        /\ \A i \in 1..u : Text'[i] = q[i]
    BY <1>3, <1>4, <1>5
  <2> DEFINE s == SubSeq(Text', 1, Len(Text))
  <2>3. /\ s \in Seq(Input) /\ Len(s) = t
        /\ \A i \in 1..t : s[i] = Text'[i]
    BY <1>6, <2>1, <2>2
  <2> HIDE DEF s
  <2>4. ASSUME NEW i \in 1..t PROVE s[i] = Text[i]
    <3>1. i \in 1..u /\ i \in 1..Len(pushed)
      BY <1>3, <1>4, <1>6
    <3>2. s[i] = Text'[i] /\ Text'[i] = q[i] /\ pushed[i] = q[i]
      BY <1>3, <2>2, <2>3, <3>1
    <3> QED BY <2>1, <3>2
  <2>5. s = Text
    BY <2>1, <2>3, <2>4, SeqEqual
  <2> QED BY <1>6, <2>1, <2>2, <2>5 DEF s
<1>8. n \in Nat /\ n' \in Nat /\ n <= n'
  <2>1. Lines(q, t) <= Lines(q, u) /\ Lines(q, t) \in Nat /\ Lines(q, u) \in Nat
    BY <1>6, LinesGrow, LinesStep
  <2> QED BY <1>5, <1>6, <2>1
<1>9. CASE t = Len(pushed)
  <2>1. d <= n
    <3> DEFINE c == Len(consumed)
    <3>1. c \in Nat /\ c <= t /\ TextLength(consumed) = c
      <4>1. c \in Nat /\ c <= Len(pushed)
        BY <1>2 DEF PrefixInv
      <4>2. ~(TextLength(consumed) < c)
        BY <1>2, <1>3, <1>9, <4>1, ConsumedText DEF t
      <4>3. TextLength(consumed) = c
        BY <1>2, <4>1, <4>2, ConsumedText
      <4> QED BY <1>9, <4>1, <4>3
    <3>2. d <= Lines(consumed, c)
      <4>1. Lines(consumed, c) = IF InLine THEN d + 1 ELSE d
        BY <1>2, <3>1 DEF KeepsUp
      <4> HIDE DEF c, d
      <4> QED BY <1>2, <4>1
    <3>3. Lines(consumed, c) = Lines(pushed, c)
      BY <1>2, <3>1, ConsumedText
    <3>4. Lines(pushed, c) <= Lines(pushed, t)
      BY <1>6, <3>1, LinesGrow
    <3>5. Lines(pushed, c) \in Nat
      BY <3>1, LinesStep
    <3> HIDE DEF c
    <3> QED BY <1>2, <1>5, <1>8, <3>2, <3>3, <3>4, <3>5
  <2>2. /\ (IF Len(delivered) < LinesOfText THEN Len(delivered)
            ELSE LinesOfText) = d
        /\ (IF Len(delivered') < LinesOfText' THEN Len(delivered')
            ELSE LinesOfText') = d
    BY <1>1, <1>2, <1>8, <2>1
  <2>3. OutputsOfText' = OutputsOfText
    <3>1. OutputsOfText = [k \in 1..d |-> delivered[k].output.kind]
      BY <2>2, Zenon DEF OutputsOfText
    <3>2. OutputsOfText' = [k \in 1..d |-> delivered'[k].output.kind]
      BY <2>2, Zenon DEF OutputsOfText
    <3> QED BY <1>1, <3>1, <3>2
  <2> QED BY <1>7, <2>3 DEF Protocol!Receive
<1>10. CASE t < Len(pushed)
  <2>1. u = t /\ n' = n
    BY <1>4, <1>5, <1>6, <1>10
  <2>2. Text' = Text
    <3>1. SubSeq(pushed, 1, t) = SubSeq(q, 1, t)
      BY <1>2, <1>3, <1>4
    <3> QED BY <1>5, <2>1, <3>1
  <2>3. OutputsOfText' = OutputsOfText
    BY <1>1, <2>1, Zenon DEF OutputsOfText
  <2> QED BY <2>2, <2>3 DEF Protocol!vars
<1> QED BY <1>3, <1>4, <1>9, <1>10

LEMMA StepImplements ==
    ASSUME ParserInv, Streaming, CleanLinesStandAlone, AnyStep
    PROVE  [Protocol!Next]_(Protocol!vars)
<1>1. ASSUME UNCHANGED <<pushed, delivered>>
      PROVE  UNCHANGED Protocol!vars
  <2>1. Text' = Text /\ LinesOfText' = LinesOfText
    BY <1>1 DEF Text, LinesOfText
  <2>2. OutputsOfText' = OutputsOfText
    BY <1>1, <2>1, Zenon DEF OutputsOfText
  <2> QED BY <2>1, <2>2 DEF Protocol!vars
<1>2. ASSUME NEW chunk \in Seq(Input), PushData(chunk)
      PROVE  [Protocol!Next]_(Protocol!vars)
  BY <1>2, PushDataRefines DEF Protocol!Next
<1>3. CASE Deliver
  BY <1>3, DeliverRefines DEF Protocol!Next
<1>4. CASE PushNotStored \/ GetNextLine \/ NoMoreLines \/ LineNotCopied
           \/ LexToken \/ SkipBlank \/ ParseToken \/ EndOfLine \/ FailLine
           \/ CallbackReturns \/ Crash \/ Destroy
  BY <1>1, <1>4 DEF PushNotStored, GetNextLine, NoMoreLines, LineNotCopied,
     LexToken, SkipBlank, ParseToken, EndOfLine, FailLine, CallbackReturns,
     Crash, Destroy
<1>5. CASE UNCHANGED vars
  BY <1>1, <1>5 DEF vars, parserVars
<1> QED BY <1>2, <1>3, <1>4, <1>5 DEF AnyStep, Library

LEMMA InitImplements == Init => Protocol!Init
<1> SUFFICES ASSUME Init PROVE Protocol!Init
  OBVIOUS
<1>1. pushed = << >> /\ delivered = << >> /\ PrefixInv
  BY StreamInit DEF Init, StreamInv
<1>2. Text = << >> /\ LinesOfText \in Nat /\ Len(delivered) = 0
  <2>1. Len(pushed) = 0 /\ Text \in Seq(Input) /\ Len(Text) \in 0..Len(pushed)
        /\ LinesOfText \in Nat
    BY <1>1, TextIs
  <2>2. Text = << >>
    BY <2>1
  <2> QED BY <1>1, <2>1, <2>2
<1>3. OutputsOfText = FirstKinds(0)
  BY <1>2, OutputsAre
<1>4. FirstKinds(0) = << >>
  BY DEF FirstKinds
<1> QED BY <1>2, <1>3, <1>4 DEF Protocol!Init

\* The stream protocol is what the client can rely on.  As long as no line is
\* too deep, the parser gives its client the verdicts of the lines of the text,
\* one for each, in order and never one too early: whatever the chunks, whoever
\* pushes them, whichever allocations fail.
THEOREM ParserImplementsProtocol ==
    ASSUME EveryColumn, VerdictIsOutcome
    PROVE  Spec /\ []NoneTooDeep => ImplementsProtocol
<1>1. ParserInv /\ Streaming /\ CleanLinesStandAlone /\ [Next]_vars
      => [Protocol!Next]_(Protocol!vars)
  BY NextIsStep, StepImplements
<1> QED BY <1>1, InitImplements, ParserInvHolds, StreamingHolds,
           CleanLinesAreAlone, PTL
        DEF Spec, ImplementsProtocol, Protocol!Spec

\* So it does for short lines, however many there are and whatever they are.
THEOREM ShortLinesImplementProtocol ==
    ASSUME EveryColumn, VerdictIsOutcome
    PROVE  Spec /\ []ShortLine => ImplementsProtocol
BY ParserImplementsProtocol, NoneTooDeepHolds, PTL
=============================================================================
