----------------------------- MODULE TransportProofs -----------------------------
(***************************************************************************)
(* Proofs about both directions of the transport, which share no state.    *)
(*                                                                         *)
(* OutputTransport, for all sizes of headers, bodies and pipes, and all    *)
(* numbers of deferred requests and queued documents.  None of its         *)
(* invariants is inductive.  Invariant adds how the bytes of the frame are *)
(* counted, what a frame that was given up leaves behind, and why no       *)
(* message is sent between the decision to end with status 0 and the end:  *)
(* nothing is deferred after shutdown, and nothing is queued without a     *)
(* worker when the input ends.                                             *)
(*                                                                         *)
(* FrameDecoder, for all streams and limits.  FrameInv says between which  *)
(* cuts of the stream the dispatched frames lie, and what the decoder has  *)
(* made of the bytes after the last of them.                               *)
(***************************************************************************)
EXTENDS FiniteSetTheorems, OutputTransport, FrameDecoder, TLAPS

SequenceFacts == INSTANCE SequenceTheorems

Writing == {"write", "wait", "select", "end"}

\* The bytes of the frame that are written.
Written == IF part = "header" THEN HeaderSize - left ELSE HeaderSize + body - left

\* The Boolean variables, which one prover handles better apart from the rest.
Flags ==
    /\ busy \in BOOLEAN /\ eof \in BOOLEAN /\ shut \in BOOLEAN
    /\ failed \in BOOLEAN /\ frame \in BOOLEAN
    /\ saved \in BOOLEAN /\ mode \in BOOLEAN /\ late \in BOOLEAN
    /\ closed \in BOOLEAN /\ signal \in BOOLEAN /\ given \in BOOLEAN

\* Only a frame that was given up is left incomplete, and only the latch
\* remembers it.
FrameBytes ==
    /\ pc \in {"write", "wait", "select"} =>
          /\ ~ failed
          /\ body > 0
          /\ left <= (IF part = "header" THEN HeaderSize ELSE body)
          /\ partial = IF Written = HeaderSize + body THEN 0 ELSE Written
    /\ pc \notin {"write", "wait", "select"} /\ ~ failed => partial = 0

FrameMode ==
    /\ frame => saved = given
    /\ ~ frame => mode = given
    /\ pc \in Writing => frame /\ todo > 0
    /\ frame /\ ~ failed => pc \in Writing

\* analysis_worker_start_next_pending leaves no document queued without a
\* worker, so it sends nothing in the turn that finds the end of the input.
NothingQueued ==
    /\ pc \in {"message", "idle"} => NothingToStart
    /\ eof => /\ pc \in {"turn", "start", "message", "leave", "stopped"}
              /\ NothingToStart

\* Between the latch and the handler only a failed start can fail the output.
LatchIsFresh ==
    /\ pc \in {"start", "message"} /\ (eof \/ shut) => ~ failed
    /\ pc \in Writing \cup {"send"} /\ after = "start" => ~ shut /\ ~ eof
    /\ shut => deferred = 0

\* Status 0 is decided while the output is sound and nothing is left to send.
DecidedZero ==
    status = "ok" =>
        /\ ~ failed
        /\ \/ pc \in {"leave", "stopped"}
           \/ pc = "send" /\ after = "leave" /\ todo = 0

Invariant ==
    TypeOK /\ FrameBytes /\ FrameMode /\ NothingQueued /\ LatchIsFresh /\ DecidedZero

\* The first state satisfies the invariant.
LEMMA InitEstablishes == Init => Invariant
<1> SUFFICES ASSUME Init PROVE Invariant
  OBVIOUS
<1>1. Flags
  BY Zenon DEF Init, Flags
<1>2. TypeOK
  BY <1>1, OutputAssumption DEF Init, Flags, TypeOK
<1>3. FrameBytes /\ FrameMode
  BY DEF Init, FrameBytes, FrameMode, Writing
<1>4. NothingQueued /\ LatchIsFresh /\ DecidedZero
  BY DEF Init, NothingQueued, LatchIsFresh, DecidedZero, NothingToStart, Writing
<1>5. QED
  BY <1>2, <1>3, <1>4 DEF Invariant

\* Every step keeps it.
LEMMA NextPreserves == Invariant /\ [Next]_vars => Invariant'
<1> SUFFICES ASSUME Invariant, [Next]_vars PROVE Invariant'
  OBVIOUS
<1> USE OutputAssumption
        DEF Invariant, TypeOK, Flags, FrameBytes, FrameMode, NothingQueued, LatchIsFresh,
            DecidedZero, Writing, Written, NothingToStart, quiet, work, ending,
            session, fd, writing, world
<1>1. CASE Turn
  BY <1>1 DEF Turn, MustStop
<1>2. CASE StartNone
  BY <1>2 DEF StartNone
<1>3. CASE StartWorker
  BY <1>3 DEF StartWorker
<1>4. CASE StartFails
  BY <1>4 DEF StartFails, SendThen
<1>5. CASE Interrupted
  BY <1>5 DEF Interrupted
<1>6. CASE Defer
  BY <1>6 DEF Defer, Message
<1>7. CASE Shutdown
  <2>1. Flags'
    BY <1>7, Zenon DEF Shutdown, Message, SendThen
  <2>2. QED
    BY <1>7, <2>1 DEF Shutdown, Message, SendThen
<1>8. CASE Exit
  BY <1>8 DEF Exit, Message, SendThen
<1>9. CASE EndOfInput
  BY <1>9 DEF EndOfInput
<1>10. CASE WaitInput
  BY <1>10 DEF WaitInput, Message
<1>11. ASSUME NEW settled \in 0 .. deferred, NEW others \in {0, 1},
              Handle(settled, others)
       PROVE  Invariant'
  <2>1. Flags'
    BY <1>11, Zenon DEF Handle, Message, SendThen, Reschedule
  <2>2. QED
    BY <1>11, <2>1 DEF Handle, Message, SendThen, Reschedule
<1>12. ASSUME NEW messages \in {0, 1}, WorkerEvent(messages) PROVE Invariant'
  <2>1. Flags'
    BY <1>12, Zenon DEF WorkerEvent, SendThen
  <2>2. QED
    BY <1>12, <2>1 DEF WorkerEvent, SendThen
<1>13. CASE HandlerEnds
  BY <1>13 DEF HandlerEnds
<1>14. CASE SendsNothing
  BY <1>14 DEF SendsNothing, MaySend
<1>15. CASE BeginFails
  BY <1>15 DEF BeginFails, MaySend
<1>16. ASSUME NEW size \in 1 .. MaxBody, Begin(size) PROVE Invariant'
  <2>1. Flags'
    BY <1>16, Zenon DEF Begin, MaySend
  <2>2. QED
    BY <1>16, <2>1 DEF Begin, MaySend
<1>17. CASE End
  <2>1. Flags'
    BY <1>17, Zenon DEF End, ModeBefore
  <2>2. TypeOK'
    BY <1>17, <2>1 DEF End
  <2>3. FrameBytes' /\ FrameMode'
    BY <1>17 DEF End, ModeBefore
  <2>4. NothingQueued' /\ LatchIsFresh' /\ DecidedZero'
    BY <1>17 DEF End
  <2>5. QED
    BY <2>2, <2>3, <2>4
<1>18. CASE PartDone
  BY <1>18 DEF PartDone
<1>19. CASE WouldBlock
  BY <1>19 DEF WouldBlock
<1>20. CASE WriteFails
  BY <1>20 DEF WriteFails, Gives
<1>21. CASE Wait
  <2>1. Flags'
    BY <1>21, Zenon DEF Wait, Gives
  <2>2. QED
    BY <1>21, <2>1 DEF Wait, Gives
<1>22. CASE Writable
  <2>1. Flags'
    BY <1>22, Zenon DEF Writable, Gives
  <2>2. QED
    BY <1>22, <2>1 DEF Writable, Gives
<1>23. CASE SelectExpires
  BY <1>23 DEF SelectExpires, Gives
<1>24. ASSUME NEW n \in 1 .. left, WriteSome(n) PROVE Invariant'
  BY <1>24 DEF WriteSome
<1>25. CASE Leave
  <2>1. Flags'
    BY <1>25, Zenon DEF Leave, ModeBefore
  <2>2. QED
    BY <1>25, <2>1 DEF Leave, ModeBefore
<1>26. CASE Input
  BY <1>26 DEF Input
<1>27. CASE WaitEnds
  BY <1>27 DEF WaitEnds
<1>28. CASE ClientReads
  BY <1>28 DEF ClientReads
<1>29. CASE ClientCloses
  BY <1>29 DEF ClientCloses
<1>30. CASE Tick
  <2>1. Flags'
    BY <1>30, Zenon DEF Tick
  <2>2. QED
    BY <1>30, <2>1 DEF Tick
<1>31. CASE Signal
  <2>1. Flags'
    BY <1>31, Zenon DEF Signal, Gives
  <2>2. QED
    BY <1>31, <2>1 DEF Signal, Gives
<1>32. CASE Stopped \/ UNCHANGED vars
  BY <1>32 DEF Stopped, vars
<1>33. QED
  BY <1>1, <1>2, <1>3, <1>4, <1>5, <1>6, <1>7, <1>8, <1>9, <1>10, <1>11, <1>12,
     <1>13, <1>14, <1>15, <1>16, <1>17, <1>18, <1>19, <1>20, <1>21, <1>22, <1>23,
     <1>24, <1>25, <1>26, <1>27, <1>28, <1>29, <1>30, <1>31, <1>32
     DEF Next, Server, Environment, Process, Send, Write

\* Every state of the program satisfies the invariant.
THEOREM InvariantHolds == Spec => []Invariant
BY InitEstablishes, NextPreserves, PTL DEF Spec

\* The variables keep their types; in particular the count of the bytes of a
\* frame never leaves the frame, and the queue bounds the messages of a handler.
THEOREM TypeCorrect == Spec => []TypeOK
<1>1. Invariant => TypeOK
  BY DEF Invariant
<1>2. QED
  BY <1>1, InvariantHolds, PTL

\* No frame begins while an earlier one is incomplete (send_message).
THEOREM FramesAreWhole == Spec => []StreamIsFramed
<1>1. Invariant => StreamIsFramed
  BY OutputAssumption
     DEF Invariant, TypeOK, FrameBytes, Written, StreamIsFramed
<1>2. QED
  BY <1>1, InvariantHolds, PTL

\* Status 0 is never reported over an output that was cut (transport_finish).
THEOREM ZeroIsHonest == Spec => []ZeroMeansWhole
<1>1. Invariant => ZeroMeansWhole
  BY DEF Invariant, FrameBytes, FrameMode, DecidedZero, Writing, ZeroMeansWhole
<1>2. QED
  BY <1>1, InvariantHolds, PTL

\* The mode of stdout is the caller's outside a frame (elisa_lsp_output_end).
THEOREM ModeIsTheCallers == Spec => []ModeIsRestored
<1>1. Invariant => ModeIsRestored
  BY DEF Invariant, FrameMode, Writing, ModeIsRestored
<1>2. QED
  BY <1>1, InvariantHolds, PTL

-----------------------------------------------------------------------------
(***************************************************************************)
(* The framing of the input: what the decoder's state says of the bytes it *)
(* has read, in the words of the grammar of a frame.                       *)
(***************************************************************************)

ReadByte(p, call, b) == HeaderByte(call, b)
NoWeight(p, x) == 0

Header == INSTANCE FoldLemmas WITH Weight <- NoWeight, Step <- ReadByte

IsStream == stream \in Seq(ToSet(stream))

\* A whole line of a header that begins after b: the field it holds.
Field(b, k) == TextBefore(b, k)[1]

GoodLine(b, k) ==
    /\ Len(TextBefore(b, k)) >= 2 /\ Last(TextBefore(b, k)) = "\r"
    /\ AcceptedLine(Front(TextBefore(b, k)))

Declared(b, p) == {LengthOf(Field(b, k)) : k \in LineEnds(b, p)} \ {-1}

Named(b, p, S) == {k \in LineEnds(b, p) : Field(b, k) \in S}

AtMostOne(S) == \A j, k \in S : j = k

DecoderFields ==
    {"phase", "line", "body", "bytes", "lines", "length", "remaining", "typed", "encoded"}

CallFields == {"at", "pos", "result", "frame"}

\* The decoder has read the bytes from b to p, and they begin a header.
HeaderRead(b, p, at) ==
    /\ DOMAIN at = DecoderFields /\ at.phase = "header"
    /\ at.line = TextBefore(b, p + 1) /\ at.body = <<>> /\ at.remaining = 0
    /\ at.bytes = p - b /\ at.lines = Cardinality(LineEnds(b, p))
    /\ p - b <= MaxHeaderBytes /\ at.lines <= MaxHeaderLines
    /\ \A k \in LineEnds(b, p) : GoodLine(b, k)
    /\ at.length \in Nat \cup {-1} /\ Declared(b, p) = {at.length} \ {-1}
    /\ at.typed \in BOOLEAN /\ at.typed <=> Named(b, p, Types) # {}
    /\ at.encoded \in BOOLEAN /\ at.encoded <=> Named(b, p, Encodings) # {}
    /\ AtMostOne(Named(b, p, Types)) /\ AtMostOne(Named(b, p, Encodings))

\* The header from b ends at mid, and declares a body that ends at to.
Framed(b, mid, to) ==
    /\ mid \in b + 1 .. Len(stream) /\ to - mid \in 0 .. MaxBodyBytes /\ IsHeader(b, mid)
    /\ \E k \in LineEnds(b, mid) : LengthOf(Field(b, k)) = to - mid

NoFrameAfter(b) == \A mid, to \in Nat : ~ Framed(b, mid, to)

\* The decoder has read a header and the part of its body up to p.
BodyRead(b, p, at) ==
    /\ DOMAIN at = DecoderFields /\ at.phase = "body" /\ at.length \in Nat
    /\ \E mid \in b + 1 .. p :
          /\ at.body = SubSeq(stream, mid + 1, p)
          /\ at.remaining = at.length - (p - mid) /\ at.remaining > 0
          /\ Framed(b, mid, mid + at.length)

\* Where the line begins that p is in, or after which the next one begins.
LineStart(b, p) ==
    IF LineEnds(b, p) = {} THEN b + 1
    ELSE 1 + CHOOSE j \in LineEnds(b, p) : \A i \in LineEnds(b, p) : i <= j

LEMMA TextIsLine ==
  ASSUME NEW b, NEW p \in Int
  PROVE  TextBefore(b, p + 1) = SubSeq(stream, LineStart(b, p), p)
  <1> DEFINE q == (p + 1) - 1
  <1>1. TextBefore(b, p + 1) = SubSeq(stream, LineStart(b, q), q)
    BY DEF TextBefore, LineStart
  <1>2. q = p
    OBVIOUS
  <1> HIDE DEF q
  <1>3. QED
    BY <1>1, <1>2

LEMMA LinesOfPrefix ==
  ASSUME IsStream, NEW b \in Nat, NEW p \in Nat, b <= p, p <= Len(stream)
  PROVE  /\ IsFiniteSet(LineEnds(b, p)) /\ LineEnds(b, p) \subseteq b + 1 .. p
         /\ LineStart(b, p) \in b + 1 .. p + 1
         /\ TextBefore(b, p + 1) \in Seq(ToSet(stream))
  <1> DEFINE before == LineEnds(b, p)
             last == CHOOSE j \in before : \A i \in before : i <= j
  <1>1. IsFiniteSet(before) /\ before \subseteq b + 1 .. p
    <2>1. before \subseteq b + 1 .. p
      BY DEF LineEnds
    <2>2. IsFiniteSet(b + 1 .. p)
      BY FS_Interval
    <2>3. QED
      BY <2>1, <2>2, FS_Subset
  <1>2. before # {} => \E j \in before : \A i \in before : i <= j
    <2> SUFFICES ASSUME before # {}
                 PROVE  \E j \in before : \A i \in before : i <= j
      OBVIOUS
    <2> DEFINE T == {p - i : i \in before}
    <2>1. T \subseteq Nat /\ T # {}
      BY <1>1
    <2> HIDE DEF T
    <2>2. PICK n \in T : \A m \in T : n <= m
      BY <2>1, Header!Summing!SmallestNumber
    <2> USE DEF T
    <2>3. PICK j \in before : n = p - j
      OBVIOUS
    <2>4. \A i \in before : p - j <= p - i
      BY <2>2, <2>3
    <2> HIDE DEF before
    <2>5. \A i \in before : i <= j
      BY <1>1, <2>4
    <2>6. QED
      BY <2>5
  <1>3. LineStart(b, p) \in b + 1 .. p + 1
    <2>1. CASE before = {}
      BY <2>1 DEF LineStart
    <2>2. CASE before # {}
      <3>1. last \in before /\ LineStart(b, p) = 1 + last
        BY <1>2, <2>2 DEF LineStart
      <3> HIDE DEF last, before
      <3>2. QED
        BY <1>1, <3>1
    <2>3. QED
      BY <2>1, <2>2
  <1>4. TextBefore(b, p + 1) \in Seq(ToSet(stream))
    <2>1. TextBefore(b, p + 1) = SubSeq(stream, LineStart(b, p), p)
      BY TextIsLine
    <2>2. \A m \in b + 1 .. p + 1 : SubSeq(stream, m, p) \in Seq(ToSet(stream))
      BY DEF IsStream
    <2>3. QED
      BY <1>3, <2>1, <2>2
  <1>5. QED
    BY <1>1, <1>3, <1>4

\* What one more byte does to the lines.
LEMMA NextByte ==
  ASSUME IsStream, NEW b \in Nat, NEW p \in Nat, b <= p, p < Len(stream)
  PROVE  /\ stream[p + 1] # "\n" =>
               /\ LineEnds(b, p + 1) = LineEnds(b, p)
               /\ TextBefore(b, p + 2) = Append(TextBefore(b, p + 1), stream[p + 1])
         /\ stream[p + 1] = "\n" =>
               /\ LineEnds(b, p + 1) = LineEnds(b, p) \cup {p + 1}
               /\ Cardinality(LineEnds(b, p + 1)) = Cardinality(LineEnds(b, p)) + 1
               /\ TextBefore(b, p + 2) = <<>>
  <1> DEFINE before == LineEnds(b, p)
             first == LineStart(b, p)
             more == LineEnds(b, p + 1)
             last == CHOOSE j \in more : \A i \in more : i <= j
  <1>1. /\ IsFiniteSet(before) /\ before \subseteq b + 1 .. p /\ first \in b + 1 .. p + 1
        /\ stream \in Seq(ToSet(stream)) /\ Len(stream) \in Nat
    BY LinesOfPrefix DEF IsStream
  <1>2. TextBefore(b, p + 1) = SubSeq(stream, first, p)
    BY TextIsLine
  <1>3. TextBefore(b, p + 2) = SubSeq(stream, LineStart(b, p + 1), p + 1)
    <2>1. TextBefore(b, (p + 1) + 1) = SubSeq(stream, LineStart(b, p + 1), p + 1)
      BY TextIsLine
    <2>2. (p + 1) + 1 = p + 2
      OBVIOUS
    <2>3. QED
      BY <2>1, <2>2
  <1>4. ASSUME stream[p + 1] # "\n"
        PROVE  /\ more = before
               /\ TextBefore(b, p + 2) = Append(TextBefore(b, p + 1), stream[p + 1])
    <2>1. more = before
      BY <1>4 DEF LineEnds
    <2>2. TextBefore(b, p + 2) = SubSeq(stream, first, p + 1)
      BY <1>3, <2>1 DEF LineStart
    <2> HIDE DEF first, before, more, last
    <2>3. SubSeq(stream, first, p + 1) = Append(SubSeq(stream, first, p), stream[p + 1])
      BY <1>1
    <2>4. QED
      BY <1>2, <2>1, <2>2, <2>3
  <1>5. ASSUME stream[p + 1] = "\n"
        PROVE  /\ more = before \cup {p + 1}
               /\ Cardinality(more) = Cardinality(before) + 1
               /\ TextBefore(b, p + 2) = <<>>
    <2>1. more = before \cup {p + 1}
      BY <1>5 DEF LineEnds
    <2>2. Cardinality(more) = Cardinality(before) + 1
      <3> HIDE DEF before, more
      <3>1. p + 1 \notin before
        BY <1>1
      <3>2. QED
        BY <1>1, <2>1, <3>1, FS_AddElement
    <2>3. last = p + 1
      <3>1. p + 1 \in more /\ \A i \in more : i <= p + 1 /\ i \in Int
        BY <1>1, <2>1
      <3> HIDE DEF more
      <3>2. \A j \in more : (\A i \in more : i <= j) => j = p + 1
        BY <3>1
      <3>3. QED
        BY <3>1, <3>2
    <2>4. LineStart(b, p + 1) = 1 + last
      BY <2>1 DEF LineStart
    <2>5. SubSeq(stream, (p + 1) + 1, p + 1) = <<>>
      BY <1>1
    <2> HIDE DEF last
    <2>6. QED
      BY <1>3, <2>1, <2>2, <2>3, <2>4, <2>5
  <1>6. QED
    BY <1>4, <1>5

\* A length is a number, and a line end declares none.
LEMMA Fields ==
  /\ \A f : LengthOf(f) \in -1 .. 3
  /\ LengthOf("\r") = -1
  BY DEF LengthOf, Lengths

LEMMA OneAtMost ==
  ASSUME NEW S, IsFiniteSet(S)
  PROVE  Cardinality(S) <= 1 <=> AtMostOne(S)
  <1>1. ASSUME Cardinality(S) <= 1, NEW j \in S, NEW k \in S, j # k
        PROVE  FALSE
    <2>1. {j} \subseteq S /\ {j} # S
      BY <1>1
    <2>2. Cardinality({j}) = 1
      BY FS_Singleton
    <2> DEFINE T == {j}
    <2> HIDE DEF T
    <2>3. T \in SUBSET S /\ T # S /\ Cardinality(T) = 1
      BY <2>1, <2>2 DEF T
    <2>4. Cardinality(T) <= Cardinality(S) /\ Cardinality(S) # Cardinality(T)
      BY <2>3, FS_Subset
    <2>5. QED
      BY <1>1, <2>3, <2>4, FS_CardinalityType
  <1>2. ASSUME AtMostOne(S)
        PROVE  Cardinality(S) <= 1
    <2>1. CASE S = {}
      BY <2>1, FS_EmptySet
    <2>2. CASE S # {}
      <3>1. PICK x \in S : TRUE
        BY <2>2
      <3>2. S = {x}
        BY <1>2, <3>1 DEF AtMostOne
      <3>3. QED
        BY <3>2, FS_Singleton
    <2>3. QED
      BY <2>1, <2>2
  <1>3. QED
    BY <1>1, <1>2 DEF AtMostOne

\* What it is to be a header, without its counts.
LEMMA HeaderMeans ==
  ASSUME IsStream, NEW b \in Nat, NEW mid \in Nat, b < mid, mid <= Len(stream)
  PROVE  IsHeader(b, mid) <=>
           LET names == {k \in LineEnds(b, mid) : k < mid}
               declared == {LengthOf(Field(b, k)) : k \in names} \ {-1}
           IN /\ mid \in LineEnds(b, mid) /\ TextBefore(b, mid) = <<"\r">>
              /\ \A k \in names : GoodLine(b, k)
              /\ \E x : declared = {x}
              /\ AtMostOne({k \in names : Field(b, k) \in Types})
              /\ AtMostOne({k \in names : Field(b, k) \in Encodings})
              /\ mid - b <= MaxHeaderBytes
              /\ Cardinality(LineEnds(b, mid)) <= MaxHeaderLines
  <1> DEFINE texts == [k \in LineEnds(b, mid) |-> TextBefore(b, k)]
             names == {k \in LineEnds(b, mid) : k < mid}
             lengths == {LengthOf(Field(b, k)) : k \in names}
             declared == lengths \ {-1}
             types == {k \in names : Field(b, k) \in Types}
             encodings == {k \in names : Field(b, k) \in Encodings}
  <1>1. IsHeader(b, mid) <=>
          /\ mid \in LineEnds(b, mid) /\ TextBefore(b, mid) = <<"\r">>
          /\ \A k \in names : GoodLine(b, k)
          /\ Cardinality(declared) = 1
          /\ Cardinality(types) <= 1 /\ Cardinality(encodings) <= 1
          /\ mid - b <= MaxHeaderBytes
          /\ Cardinality(LineEnds(b, mid)) <= MaxHeaderLines
    <2>1. DOMAIN texts = LineEnds(b, mid) /\ \A k \in LineEnds(b, mid) : texts[k] = TextBefore(b, k)
      OBVIOUS
    <2>2. {k \in DOMAIN texts : k < mid} = names
      BY <2>1
    <2>3. {LengthOf(texts[k][1]) : k \in names} = lengths
      BY <2>1 DEF Field
    <2>4. /\ {k \in names : texts[k][1] \in Types} = types
          /\ {k \in names : texts[k][1] \in Encodings} = encodings
      BY <2>1 DEF Field
    <2>5. IsHeader(b, mid) <=>
            /\ mid \in DOMAIN texts /\ texts[mid] = <<"\r">>
            /\ \A k \in {k \in DOMAIN texts : k < mid} :
                  /\ Len(texts[k]) >= 2 /\ Last(texts[k]) = "\r"
                  /\ AcceptedLine(Front(texts[k]))
            /\ Cardinality({LengthOf(texts[k][1]) : k \in {k \in DOMAIN texts : k < mid}} \ {-1}) = 1
            /\ Cardinality({k \in {k \in DOMAIN texts : k < mid} : texts[k][1] \in Types}) <= 1
            /\ Cardinality({k \in {k \in DOMAIN texts : k < mid} : texts[k][1] \in Encodings}) <= 1
            /\ mid - b <= MaxHeaderBytes /\ Cardinality(DOMAIN texts) <= MaxHeaderLines
      BY DEF IsHeader
    <2>6. \A k \in names : k \in LineEnds(b, mid)
      OBVIOUS
    <2> HIDE DEF texts, names, lengths, types, encodings
    <2>7. QED
      BY <2>1, <2>2, <2>3, <2>4, <2>5, <2>6 DEF GoodLine
  <1>2. IsFiniteSet(names) /\ IsFiniteSet(types) /\ IsFiniteSet(encodings) /\ IsFiniteSet(declared)
    <2>1. IsFiniteSet(LineEnds(b, mid))
      BY LinesOfPrefix
    <2>2. IsFiniteSet(names) /\ IsFiniteSet(types) /\ IsFiniteSet(encodings)
      BY <2>1, FS_Subset
    <2>3. IsFiniteSet(lengths)
      <3>1. lengths \subseteq -1 .. 3
        BY Fields
      <3>2. IsFiniteSet(-1 .. 3)
        <4> DEFINE n == -1
        <4>1. n \in Int
          OBVIOUS
        <4> HIDE DEF n
        <4>2. IsFiniteSet(n .. 3)
          BY <4>1, FS_Interval
        <4>3. QED
          BY <4>2 DEF n
      <3>3. QED
        BY ONLY <3>1, <3>2, FS_Subset
    <2>4. IsFiniteSet(declared)
      <3> HIDE DEF lengths
      <3>1. declared \subseteq lengths
        OBVIOUS
      <3>2. QED
        BY ONLY <2>3, <3>1, FS_Subset
    <2>5. QED
      BY <2>2, <2>4
  <1>3. Cardinality(declared) = 1 <=> \E x : declared = {x}
    <2> HIDE DEF declared
    <2>1. QED
      BY <1>2, FS_Singleton
  <1>4. /\ Cardinality(types) <= 1 <=> AtMostOne(types)
        /\ Cardinality(encodings) <= 1 <=> AtMostOne(encodings)
    <2> HIDE DEF types, encodings
    <2>1. QED
      BY <1>2, OneAtMost
  <1> HIDE DEF texts, names, lengths, types, encodings
  <1>5. QED
    BY <1>1, <1>3, <1>4 DEF names, lengths, types, encodings

\* The lines of a longer prefix are those of the shorter one and later ones.
LEMMA LinesOfMore ==
  ASSUME NEW b \in Nat, NEW p \in Nat, NEW m \in Nat, p <= m
  PROVE  LineEnds(b, p) = {k \in LineEnds(b, m) : k <= p}
  BY DEF LineEnds

\* What a frame is, without the reference's counts.
LEMMA FrameMeans ==
  ASSUME IsStream, NEW b \in Nat, NEW mid \in Nat, NEW to \in Nat, Framed(b, mid, to)
  PROVE  LET names == {k \in LineEnds(b, mid) : k < mid}
         IN /\ mid \in b + 1 .. Len(stream) /\ to - mid \in 0 .. MaxBodyBytes
            /\ mid \in LineEnds(b, mid) /\ TextBefore(b, mid) = <<"\r">>
            /\ \A k \in names : GoodLine(b, k)
            /\ {LengthOf(Field(b, k)) : k \in names} \ {-1} = {to - mid}
            /\ AtMostOne({k \in names : Field(b, k) \in Types})
            /\ AtMostOne({k \in names : Field(b, k) \in Encodings})
            /\ mid - b <= MaxHeaderBytes
            /\ Cardinality(LineEnds(b, mid)) <= MaxHeaderLines
  <1> DEFINE names == {k \in LineEnds(b, mid) : k < mid}
             lengths == {LengthOf(Field(b, k)) : k \in names}
             types == {k \in names : Field(b, k) \in Types}
             encodings == {k \in names : Field(b, k) \in Encodings}
  <1>1. /\ mid \in b + 1 .. Len(stream) /\ to - mid \in 0 .. MaxBodyBytes
        /\ MaxBodyBytes \in Nat /\ Len(stream) \in Nat
    BY FrameAssumption DEF Framed, IsStream
  <1>2. /\ mid \in LineEnds(b, mid) /\ TextBefore(b, mid) = <<"\r">>
        /\ \A k \in names : GoodLine(b, k)
        /\ \E x : lengths \ {-1} = {x}
        /\ AtMostOne(types) /\ AtMostOne(encodings)
        /\ mid - b <= MaxHeaderBytes
        /\ Cardinality(LineEnds(b, mid)) <= MaxHeaderLines
    <2>1. IsHeader(b, mid)
      BY DEF Framed
    <2>2. b < mid /\ mid <= Len(stream)
      BY <1>1
    <2>3. QED
      BY ONLY IsStream, b \in Nat, mid \in Nat, <2>1, <2>2, HeaderMeans, Zenon
  <1>3. lengths \ {-1} = {to - mid}
    <2>1. PICK k \in LineEnds(b, mid) : LengthOf(Field(b, k)) = to - mid
      BY DEF Framed
    <2>2. k # mid
      <3>1. Field(b, mid) = "\r"
        BY <1>2 DEF Field
      <3>2. QED
        BY <1>1, <2>1, <3>1, Fields
    <2>3. LineEnds(b, mid) \subseteq b + 1 .. mid
      BY <1>1, LinesOfPrefix
    <2>4. k \in names
      BY <2>2, <2>3
    <2>5. to - mid \in lengths \ {-1}
      BY <1>1, <2>1, <2>4
    <2> HIDE DEF lengths
    <2>6. QED
      BY <1>2, <2>5
  <1> HIDE DEF names, lengths, types, encodings
  <1>4. QED
    BY <1>1, <1>2, <1>3 DEF names, lengths, types, encodings

\* What a frame after b says of the bytes up to p, which have been read and
\* hold no empty line, and of the next one, if it ends a line.
LEMMA FrameGoesOn ==
  ASSUME IsStream, NEW b \in Nat, NEW p \in Nat, b <= p, p < Len(stream), NEW at,
         HeaderRead(b, p, at), NEW mid \in Nat, NEW to \in Nat, Framed(b, mid, to)
  PROVE  /\ mid > p /\ mid - b <= MaxHeaderBytes
         /\ stream[p + 1] = "\n" =>
               /\ Cardinality(LineEnds(b, p + 1)) <= MaxHeaderLines
               /\ \/ /\ mid = p + 1 /\ TextBefore(b, p + 1) = <<"\r">>
                     /\ Declared(b, p) = {to - mid}
                  \/ /\ mid > p + 1 /\ GoodLine(b, p + 1)
                     /\ Declared(b, p + 1) \subseteq {to - mid}
                     /\ AtMostOne(Named(b, p + 1, Types))
                     /\ AtMostOne(Named(b, p + 1, Encodings))
  <1> DEFINE names == {k \in LineEnds(b, mid) : k < mid}
             lengths == {LengthOf(Field(b, k)) : k \in names}
             types == {k \in names : Field(b, k) \in Types}
             encodings == {k \in names : Field(b, k) \in Encodings}
  <1>1. /\ mid \in b + 1 .. Len(stream) /\ to - mid \in 0 .. MaxBodyBytes
        /\ MaxBodyBytes \in Nat /\ Len(stream) \in Nat
    BY FrameAssumption DEF Framed, IsStream
  <1>2. /\ mid \in LineEnds(b, mid) /\ TextBefore(b, mid) = <<"\r">>
        /\ \A k \in names : GoodLine(b, k)
        /\ lengths \ {-1} = {to - mid}
        /\ AtMostOne(types) /\ AtMostOne(encodings)
        /\ mid - b <= MaxHeaderBytes
        /\ Cardinality(LineEnds(b, mid)) <= MaxHeaderLines
    BY ONLY IsStream, b \in Nat, mid \in Nat, to \in Nat, Framed(b, mid, to), FrameMeans, Zenon
  <1>3. mid > p
    <2> SUFFICES ASSUME mid <= p
                 PROVE  FALSE
      BY <1>1
    <2>1. mid \in LineEnds(b, p)
      BY <1>1, <1>2 DEF LineEnds
    <2>2. GoodLine(b, mid)
      BY <2>1 DEF HeaderRead
    <2>3. QED
      BY <1>2, <2>2 DEF GoodLine
  <1>4. ASSUME stream[p + 1] = "\n"
        PROVE  Cardinality(LineEnds(b, p + 1)) <= MaxHeaderLines
    <2>1. LineEnds(b, p + 1) \subseteq LineEnds(b, mid)
      BY <1>1, <1>3, LinesOfMore
    <2>2. IsFiniteSet(LineEnds(b, mid))
      BY <1>1, LinesOfPrefix
    <2>3. /\ Cardinality(LineEnds(b, p + 1)) <= Cardinality(LineEnds(b, mid))
          /\ Cardinality(LineEnds(b, p + 1)) \in Nat /\ Cardinality(LineEnds(b, mid)) \in Nat
      BY <2>1, <2>2, FS_Subset, FS_CardinalityType
    <2>4. QED
      BY <1>2, <2>3, FrameAssumption
  <1>5. ASSUME mid = p + 1
        PROVE  TextBefore(b, p + 1) = <<"\r">> /\ Declared(b, p) = {to - mid}
    <2>1. names = LineEnds(b, p)
      BY <1>1, <1>5 DEF LineEnds
    <2>2. QED
      BY <1>2, <1>5, <2>1 DEF Declared
  <1>6. ASSUME mid # p + 1, stream[p + 1] = "\n"
        PROVE  /\ mid > p + 1 /\ GoodLine(b, p + 1)
               /\ Declared(b, p + 1) \subseteq {to - mid}
               /\ AtMostOne(Named(b, p + 1, Types)) /\ AtMostOne(Named(b, p + 1, Encodings))
    <2>1. mid > p + 1 /\ p + 1 \in LineEnds(b, p + 1)
      BY <1>1, <1>3, <1>6 DEF LineEnds
    <2>2. LineEnds(b, p + 1) \subseteq names
      BY <1>1, <2>1 DEF LineEnds
    <2>3. GoodLine(b, p + 1)
      BY <1>2, <2>1, <2>2
    <2>4. Declared(b, p + 1) \subseteq {to - mid}
      BY <1>2, <2>2 DEF Declared
    <2>5. Named(b, p + 1, Types) \subseteq types /\ Named(b, p + 1, Encodings) \subseteq encodings
      BY <2>2 DEF Named
    <2>6. QED
      BY <1>2, <2>1, <2>3, <2>4, <2>5 DEF AtMostOne
  <1>7. QED
    BY <1>2, <1>3, <1>4, <1>5, <1>6

\* The bytes from b to p and one more.
LEMMA MakesFrame ==
  ASSUME IsStream, NEW b \in Nat, NEW p \in Nat, b <= p, p < Len(stream), NEW at,
         HeaderRead(b, p, at), stream[p + 1] = "\n", TextBefore(b, p + 1) = <<"\r">>,
         p + 1 - b <= MaxHeaderBytes, at.lines < MaxHeaderLines,
         at.length \in 0 .. MaxBodyBytes
  PROVE  Framed(b, p + 1, (p + 1) + at.length)
  <1> DEFINE mid == p + 1
             names == {k \in LineEnds(b, mid) : k < mid}
             lengths == {LengthOf(Field(b, k)) : k \in names}
             types == {k \in names : Field(b, k) \in Types}
             encodings == {k \in names : Field(b, k) \in Encodings}
  <1>1. /\ mid \in Nat /\ b < mid /\ mid <= Len(stream) /\ mid \in b + 1 .. Len(stream)
        /\ (mid + at.length) - mid = at.length
        /\ MaxBodyBytes \in Nat /\ MaxHeaderLines \in Nat
        /\ Len(stream) \in Nat /\ p <= Len(stream)
    BY FrameAssumption DEF IsStream
  <1>2. /\ LineEnds(b, mid) = LineEnds(b, p) \cup {mid} /\ names = LineEnds(b, p)
        /\ Cardinality(LineEnds(b, mid)) = Cardinality(LineEnds(b, p)) + 1
    <2>1. /\ LineEnds(b, mid) = LineEnds(b, p) \cup {mid}
          /\ Cardinality(LineEnds(b, mid)) = Cardinality(LineEnds(b, p)) + 1
      BY NextByte
    <2>2. LineEnds(b, p) \subseteq b + 1 .. p
      BY <1>1, LinesOfPrefix
    <2>3. QED
      BY <2>1, <2>2
  <1>3. Cardinality(LineEnds(b, mid)) <= MaxHeaderLines
    <2>1. Cardinality(LineEnds(b, p)) \in Nat
      BY <1>1, LinesOfPrefix, FS_CardinalityType
    <2>2. QED
      BY <1>1, <1>2, <2>1 DEF HeaderRead
  <1>4. lengths \ {-1} = Declared(b, p) /\ Declared(b, p) = {at.length}
    <2>1. lengths \ {-1} = Declared(b, p)
      BY <1>2 DEF Declared
    <2>2. at.length \in Nat /\ Declared(b, p) = {at.length} \ {-1}
      BY <1>1 DEF HeaderRead
    <2> HIDE DEF lengths
    <2>3. QED
      BY <2>1, <2>2
  <1>5. types = Named(b, p, Types) /\ encodings = Named(b, p, Encodings)
    BY <1>2 DEF Named
  <1>6. IsHeader(b, mid)
    <2>1. /\ mid \in LineEnds(b, mid) /\ TextBefore(b, mid) = <<"\r">>
          /\ \A k \in names : GoodLine(b, k)
          /\ \E x : lengths \ {-1} = {x}
          /\ AtMostOne(types) /\ AtMostOne(encodings)
          /\ mid - b <= MaxHeaderBytes
          /\ Cardinality(LineEnds(b, mid)) <= MaxHeaderLines
      <3>1. mid \in LineEnds(b, mid) /\ TextBefore(b, mid) = <<"\r">> /\ mid - b <= MaxHeaderBytes
        BY <1>2
      <3>2. \A k \in names : GoodLine(b, k)
        BY <1>2 DEF HeaderRead
      <3>3. \E x : lengths \ {-1} = {x}
        BY <1>4
      <3>4. AtMostOne(types) /\ AtMostOne(encodings)
        <4> HIDE DEF types, encodings
        <4>1. QED
          BY <1>5 DEF HeaderRead
      <3>5. QED
        BY <1>3, <3>1, <3>2, <3>3, <3>4
    <2>2. QED
      BY ONLY IsStream, b \in Nat, <1>1, <2>1, HeaderMeans, Zenon
  <1>7. \E k \in LineEnds(b, mid) : LengthOf(Field(b, k)) = at.length
    <2>1. at.length \in lengths
      <3> HIDE DEF lengths
      <3>1. QED
        BY <1>4
    <2>2. QED
      BY <1>2, <2>1
  <1>8. QED
    BY <1>1, <1>6, <1>7 DEF Framed

\* What a line leaves in a decoder.
LEMMA LineIsRead ==
  ASSUME IsStream, NEW b \in Nat, NEW p \in Nat, b <= p, p < Len(stream), NEW at,
         HeaderRead(b, p, at), stream[p + 1] = "\n", GoodLine(b, p + 1),
         p + 1 - b <= MaxHeaderBytes, at.lines < MaxHeaderLines,
         NEW field, field = Field(b, p + 1), ~ Contradicts(at, field),
         NEW new, DOMAIN new = DecoderFields, new.phase = "header", new.line = <<>>,
         new.body = <<>>, new.remaining = 0, new.bytes = at.bytes + 1,
         new.lines = at.lines + 1,
         new.length = IF LengthOf(field) >= 0 THEN LengthOf(field) ELSE at.length,
         new.typed = (at.typed \/ field \in Types),
         new.encoded = (at.encoded \/ field \in Encodings)
  PROVE  HeaderRead(b, p + 1, new)
  <1> DEFINE old == LineEnds(b, p)
             more == LineEnds(b, p + 1)
  <1>1. /\ more = old \cup {p + 1} /\ p + 1 \notin old
        /\ Cardinality(more) = Cardinality(old) + 1 /\ Cardinality(old) \in Nat
        /\ TextBefore(b, (p + 1) + 1) = <<>>
    <2>1. (p + 1) + 1 = p + 2 /\ p <= Len(stream)
      BY DEF IsStream
    <2>2. /\ more = old \cup {p + 1} /\ Cardinality(more) = Cardinality(old) + 1
          /\ TextBefore(b, p + 2) = <<>>
      BY NextByte
    <2>3. IsFiniteSet(old) /\ old \subseteq b + 1 .. p
      BY <2>1, LinesOfPrefix
    <2>4. Cardinality(old) \in Nat
      BY <2>3, FS_CardinalityType
    <2> HIDE DEF old, more
    <2>5. QED
      BY <2>1, <2>2, <2>3, <2>4
  <1>2. LengthOf(field) \in -1 .. 3
    BY Fields
  <1>3. Declared(b, p + 1) = Declared(b, p) \cup ({LengthOf(field)} \ {-1})
    BY <1>1 DEF Declared
  <1>4. Declared(b, p + 1) = {new.length} \ {-1} /\ new.length \in Nat \cup {-1}
    <2>1. /\ Declared(b, p) = {at.length} \ {-1} /\ at.length \in Nat \cup {-1}
          /\ ~ (at.length >= 0 /\ LengthOf(field) \notin {-1, at.length})
      BY DEF HeaderRead, Contradicts
    <2>2. QED
      BY <1>2, <1>3, <2>1
  <1>5. ASSUME NEW S
        PROVE  Named(b, p + 1, S) = Named(b, p, S) \cup (IF field \in S THEN {p + 1} ELSE {})
    BY <1>1 DEF Named
  <1>6. /\ new.typed \in BOOLEAN /\ new.typed <=> Named(b, p + 1, Types) # {}
        /\ AtMostOne(Named(b, p + 1, Types))
    <2>1. /\ at.typed \in BOOLEAN /\ at.typed <=> Named(b, p, Types) # {}
          /\ AtMostOne(Named(b, p, Types)) /\ ~ (at.typed /\ field \in Types)
      BY DEF HeaderRead, Contradicts
    <2>2. Named(b, p + 1, Types) = Named(b, p, Types) \cup (IF field \in Types THEN {p + 1} ELSE {})
      BY <1>5
    <2>3. QED
      BY <2>1, <2>2 DEF AtMostOne
  <1>7. /\ new.encoded \in BOOLEAN /\ new.encoded <=> Named(b, p + 1, Encodings) # {}
        /\ AtMostOne(Named(b, p + 1, Encodings))
    <2>1. /\ at.encoded \in BOOLEAN /\ at.encoded <=> Named(b, p, Encodings) # {}
          /\ AtMostOne(Named(b, p, Encodings)) /\ ~ (at.encoded /\ field \in Encodings)
      BY DEF HeaderRead, Contradicts
    <2>2. Named(b, p + 1, Encodings)
             = Named(b, p, Encodings) \cup (IF field \in Encodings THEN {p + 1} ELSE {})
      BY <1>5
    <2>3. QED
      BY <2>1, <2>2 DEF AtMostOne
  <1>8. \A k \in more : GoodLine(b, k)
    BY <1>1 DEF HeaderRead
  <1>9. /\ new.bytes = (p + 1) - b /\ (p + 1) - b <= MaxHeaderBytes
        /\ new.lines = Cardinality(more) /\ new.lines <= MaxHeaderLines
    BY <1>1, FrameAssumption DEF HeaderRead
  <1> HIDE DEF old, more
  <1>10. QED
    BY <1>1, <1>4, <1>6, <1>7, <1>8, <1>9 DEF HeaderRead, more

\* What a byte within a line leaves.
LEMMA LineGrows ==
  ASSUME IsStream, NEW b \in Nat, NEW p \in Nat, b <= p, p < Len(stream), NEW at,
         HeaderRead(b, p, at), stream[p + 1] # "\n", p + 1 - b <= MaxHeaderBytes,
         NEW new, DOMAIN new = DecoderFields, new.phase = "header",
         new.line = Append(at.line, stream[p + 1]),
         new.body = <<>>, new.remaining = 0, new.bytes = at.bytes + 1, new.lines = at.lines,
         new.length = at.length, new.typed = at.typed, new.encoded = at.encoded
  PROVE  HeaderRead(b, p + 1, new)
  <1>1. /\ LineEnds(b, p + 1) = LineEnds(b, p)
        /\ TextBefore(b, (p + 1) + 1) = Append(TextBefore(b, p + 1), stream[p + 1])
    <2>1. (p + 1) + 1 = p + 2
      OBVIOUS
    <2>2. QED
      BY <2>1, NextByte
  <1>2. /\ Declared(b, p + 1) = Declared(b, p)
        /\ \A S : Named(b, p + 1, S) = Named(b, p, S)
    BY <1>1 DEF Declared, Named
  <1>3. /\ at.line = TextBefore(b, p + 1) /\ at.lines = Cardinality(LineEnds(b, p))
        /\ at.bytes = p - b /\ at.lines <= MaxHeaderLines
        /\ \A k \in LineEnds(b, p) : GoodLine(b, k)
    BY DEF HeaderRead
  <1>4. /\ at.length \in Nat \cup {-1} /\ Declared(b, p) = {at.length} \ {-1}
        /\ at.typed \in BOOLEAN /\ at.typed <=> Named(b, p, Types) # {}
        /\ at.encoded \in BOOLEAN /\ at.encoded <=> Named(b, p, Encodings) # {}
        /\ AtMostOne(Named(b, p, Types)) /\ AtMostOne(Named(b, p, Encodings))
    BY DEF HeaderRead
  <1>5. new.bytes = (p + 1) - b /\ (p + 1) - b <= MaxHeaderBytes
    BY <1>3
  <1>6. QED
    BY <1>1, <1>2, <1>3, <1>4, <1>5 DEF HeaderRead

IsCall(call, p, r) ==
    DOMAIN call = CallFields /\ call.pos = p /\ call.result = r /\ call.frame = <<>>

\* What one byte of a header can do: the header or the body goes on, a frame
\* without a body is complete, or nothing can become a frame any more.
LEMMA ByteIsRead ==
  ASSUME IsStream, NEW b \in Nat, NEW p \in Nat, b <= p, p < Len(stream), NEW call,
         IsCall(call, p, 2), HeaderRead(b, p, call.at),
         NEW new, new = HeaderByte(call, stream[p + 1])
  PROVE  \/ IsCall(new, p + 1, 2) /\ HeaderRead(b, p + 1, new.at)
         \/ IsCall(new, p + 1, 2) /\ BodyRead(b, p + 1, new.at)
         \/ IsCall(new, p + 1, 1) /\ new.at = Fresh /\ Framed(b, p + 1, p + 1)
         \/ IsCall(new, p + 1, -1) /\ NoFrameAfter(b)
  <1> DEFINE at == call.at
             c == stream[p + 1]
             read == [call EXCEPT !.pos = @ + 1, !.at.bytes = @ + 1]
             counted == [read EXCEPT !.at.lines = @ + 1]
             line == TextBefore(b, p + 1)
             text == Front(line)
  <1>1. /\ DOMAIN at = DecoderFields /\ at.phase = "header" /\ at.line = line
        /\ at.body = <<>> /\ at.remaining = 0 /\ at.bytes = p - b
        /\ at.lines \in Nat /\ at.lines = Cardinality(LineEnds(b, p))
        /\ at.length \in Nat \cup {-1}
        /\ line \in Seq(ToSet(stream))
    <2>1. p <= Len(stream)
      BY DEF IsStream
    <2>2. Cardinality(LineEnds(b, p)) \in Nat /\ line \in Seq(ToSet(stream))
      BY <2>1, LinesOfPrefix, FS_CardinalityType
    <2>3. QED
      BY <2>2 DEF HeaderRead
  <1>2. /\ DOMAIN read = CallFields /\ read.pos = p + 1 /\ read.result = 2 /\ read.frame = <<>>
        /\ DOMAIN read.at = DecoderFields /\ read.at.phase = "header" /\ read.at.line = line
        /\ read.at.body = <<>> /\ read.at.remaining = 0 /\ read.at.bytes = at.bytes + 1
        /\ read.at.lines = at.lines /\ read.at.length = at.length
        /\ read.at.typed = at.typed /\ read.at.encoded = at.encoded
    BY <1>1 DEF IsCall, CallFields, DecoderFields
  <1>3. new = IF read.at.bytes > MaxHeaderBytes THEN Refuse(read)
              ELSE IF c = "\n" THEN EndLine(read)
              ELSE [read EXCEPT !.at.line = Append(@, c)]
    BY <1>1 DEF HeaderByte, IsCall
  <1> HIDE DEF read
  <1>4. /\ DOMAIN counted = CallFields /\ counted.pos = p + 1 /\ counted.result = 2
        /\ counted.frame = <<>>
        /\ DOMAIN counted.at = DecoderFields /\ counted.at.phase = "header"
        /\ counted.at.line = line
        /\ counted.at.body = <<>> /\ counted.at.remaining = 0 /\ counted.at.bytes = at.bytes + 1
        /\ counted.at.lines = at.lines + 1 /\ counted.at.length = at.length
        /\ counted.at.typed = at.typed /\ counted.at.encoded = at.encoded
    BY <1>2 DEF CallFields, DecoderFields
  <1>5. EndLine(read) = IF line = <<>> \/ Last(line) # "\r" \/ at.lines >= MaxHeaderLines
                        THEN Refuse(read)
                        ELSE IF Len(line) = 1 THEN EmptyLine(counted)
                        ELSE FieldLine(counted, text)
    BY <1>2 DEF EndLine
  <1> HIDE DEF counted
  <1>6. IsCall(Refuse(read), p + 1, -1) /\ IsCall(Refuse(counted), p + 1, -1)
    BY <1>2, <1>4 DEF Refuse, IsCall, CallFields
  <1> HIDE DEF at
  <1>7. CASE read.at.bytes > MaxHeaderBytes
    <2>1. p + 1 - b > MaxHeaderBytes
      BY <1>1, <1>2, <1>7
    <2>2. ASSUME NEW mid \in Nat, NEW to \in Nat, Framed(b, mid, to)
          PROVE  FALSE
      <3>1. mid > p /\ mid - b <= MaxHeaderBytes
        BY <2>2, FrameGoesOn
      <3>2. QED
        BY <2>1, <3>1, FrameAssumption
    <2>3. NoFrameAfter(b)
      BY <2>2 DEF NoFrameAfter
    <2>4. QED
      BY <1>3, <1>6, <1>7, <2>3
  <1>8. CASE ~ (read.at.bytes > MaxHeaderBytes) /\ c # "\n"
    <2>1. p + 1 - b <= MaxHeaderBytes
      BY <1>1, <1>2, <1>8, FrameAssumption
    <2>2. new = [read EXCEPT !.at.line = Append(@, c)]
      BY <1>3, <1>8
    <2>3. IsCall(new, p + 1, 2)
      BY <1>2, <2>2 DEF IsCall, CallFields
    <2>4. /\ DOMAIN new.at = DecoderFields /\ new.at.phase = "header"
          /\ new.at.line = Append(line, c)
          /\ new.at.body = <<>> /\ new.at.remaining = 0 /\ new.at.bytes = at.bytes + 1
          /\ new.at.lines = at.lines /\ new.at.length = at.length
          /\ new.at.typed = at.typed /\ new.at.encoded = at.encoded
      BY <1>2, <2>2 DEF CallFields, DecoderFields
    <2>5. HeaderRead(b, p + 1, new.at)
      BY <1>1, <1>8, <2>1, <2>4, LineGrows DEF at
    <2>6. QED
      BY <2>3, <2>5
  <1>9. CASE ~ (read.at.bytes > MaxHeaderBytes) /\ c = "\n"
    <2>1. p + 1 - b <= MaxHeaderBytes
      BY <1>1, <1>2, <1>9, FrameAssumption
    <2>2. CASE line = <<>> \/ Last(line) # "\r" \/ at.lines >= MaxHeaderLines
      <3>1. ASSUME NEW mid \in Nat, NEW to \in Nat, Framed(b, mid, to)
            PROVE  FALSE
        <4>1. /\ Cardinality(LineEnds(b, p + 1)) <= MaxHeaderLines
              /\ line = <<"\r">> \/ GoodLine(b, p + 1)
          BY <1>9, <3>1, FrameGoesOn
        <4>2. line # <<>> /\ Last(line) = "\r"
          <5>1. CASE line = <<"\r">>
            <6>1. <<"\r">> # <<>> /\ Last(<<"\r">>) = "\r"
              BY DEF Last
            <6>2. QED
              BY <5>1, <6>1
          <5>2. CASE GoodLine(b, p + 1)
            <6>1. Len(line) >= 2 /\ Last(line) = "\r"
              BY <5>2 DEF GoodLine
            <6>2. QED
              BY <6>1
          <5>3. QED
            BY <4>1, <5>1, <5>2
        <4>3. Cardinality(LineEnds(b, p + 1)) = at.lines + 1
          BY <1>1, <1>9, NextByte
        <4>4. QED
          BY <1>1, <2>2, <4>1, <4>2, <4>3, FrameAssumption
      <3>2. NoFrameAfter(b)
        BY <3>1 DEF NoFrameAfter
      <3>3. QED
        BY <1>3, <1>5, <1>6, <1>9, <2>2, <3>2
    <2>3. CASE ~ (line = <<>> \/ Last(line) # "\r" \/ at.lines >= MaxHeaderLines) /\ Len(line) = 1
      <3>1. line = <<"\r">> /\ at.lines < MaxHeaderLines
        BY <1>1, <2>3, FrameAssumption DEF Last
      <3>2. new = EmptyLine(counted)
        BY <1>3, <1>5, <1>9, <2>3
      <3>3. CASE at.length \notin 0 .. MaxBodyBytes
        <4>1. ASSUME NEW mid \in Nat, NEW to \in Nat, Framed(b, mid, to)
              PROVE  FALSE
          <5>1. \/ Declared(b, p) = {to - mid}
                \/ GoodLine(b, p + 1)
            BY <1>9, <4>1, FrameGoesOn
          <5>2. ~ GoodLine(b, p + 1)
            <6>1. ~ (Len(line) >= 2)
              <7> HIDE DEF line
              <7>1. QED
                BY <2>3
            <6>2. QED
              BY <6>1 DEF GoodLine
          <5>3. to - mid \in 0 .. MaxBodyBytes /\ MaxBodyBytes \in Nat
            BY <4>1, FrameAssumption DEF Framed
          <5>4. Declared(b, p) = {at.length} \ {-1}
            BY DEF HeaderRead, at
          <5>5. QED
            BY <1>1, <3>3, <5>1, <5>2, <5>3, <5>4
        <4>2. NoFrameAfter(b)
          BY <4>1 DEF NoFrameAfter
        <4>3. new = Refuse(counted)
          BY <1>4, <3>2, <3>3 DEF EmptyLine
        <4>4. QED
          BY <1>6, <4>2, <4>3
      <3>4. CASE at.length = 0
        <4>1. Framed(b, p + 1, (p + 1) + at.length)
          BY <1>1, <1>9, <2>1, <3>1, <3>4, FrameAssumption, MakesFrame DEF at
        <4>2. (p + 1) + at.length = p + 1
          BY <3>4
        <4>3. new = [counted EXCEPT !.at = Fresh, !.result = 1, !.frame = <<>>]
          BY <1>4, <3>2, <3>4, FrameAssumption DEF EmptyLine
        <4>4. IsCall(new, p + 1, 1) /\ new.at = Fresh
          BY <1>4, <4>3 DEF IsCall, CallFields
        <4>5. QED
          BY <4>1, <4>2, <4>4
      <3>5. CASE at.length \in 1 .. MaxBodyBytes
        <4>1. Framed(b, p + 1, (p + 1) + at.length)
          <5>1. at.length \in 0 .. MaxBodyBytes
            BY <3>5, FrameAssumption
          <5>2. QED
            BY <1>9, <2>1, <3>1, <5>1, MakesFrame DEF at
        <4>2. new = [counted EXCEPT !.at.phase = "body", !.at.remaining = at.length,
                                    !.at.line = <<>>]
          BY <1>4, <3>2, <3>5, FrameAssumption DEF EmptyLine
        <4>3. IsCall(new, p + 1, 2)
          BY <1>4, <4>2 DEF IsCall, CallFields
        <4>4. /\ DOMAIN new.at = DecoderFields /\ new.at.phase = "body"
              /\ new.at.length = at.length /\ new.at.remaining = at.length
              /\ new.at.body = <<>>
          <5> DEFINE first == [counted EXCEPT !.at.phase = "body"]
                     second == [first EXCEPT !.at.remaining = at.length]
          <5>1. new = [second EXCEPT !.at.line = <<>>]
            BY <4>2
          <5>2. /\ DOMAIN first = CallFields /\ DOMAIN first.at = DecoderFields
                /\ first.at.phase = "body" /\ first.at.length = at.length /\ first.at.body = <<>>
            BY <1>4 DEF CallFields, DecoderFields
          <5> HIDE DEF first
          <5>3. /\ DOMAIN second = CallFields /\ DOMAIN second.at = DecoderFields
                /\ second.at.phase = "body" /\ second.at.length = at.length
                /\ second.at.remaining = at.length /\ second.at.body = <<>>
            BY <5>2 DEF CallFields, DecoderFields
          <5> HIDE DEF second
          <5>4. QED
            BY <5>1, <5>3 DEF CallFields, DecoderFields
        <4>5. SubSeq(stream, (p + 1) + 1, p + 1) = <<>>
          BY DEF IsStream
        <4>6. BodyRead(b, p + 1, new.at)
          <5>1. /\ p + 1 \in b + 1 .. p + 1 /\ at.length \in Nat /\ at.length > 0
                /\ at.length - ((p + 1) - (p + 1)) = at.length
            BY <3>5, FrameAssumption
          <5>2. QED
            BY <4>1, <4>4, <4>5, <5>1 DEF BodyRead
        <4>7. QED
          BY <4>3, <4>6
      <3>6. QED
        BY <1>1, <3>3, <3>4, <3>5, FrameAssumption
    <2>4. CASE ~ (line = <<>> \/ Last(line) # "\r" \/ at.lines >= MaxHeaderLines) /\ Len(line) # 1
      <3>1. Len(line) >= 2 /\ Last(line) = "\r" /\ at.lines < MaxHeaderLines
        <4>1. Len(line) \in Nat /\ Len(line) # 0
          BY <1>1, <2>4
        <4>2. at.lines < MaxHeaderLines
          BY <1>1, <2>4, FrameAssumption
        <4>3. Last(line) = "\r" /\ Len(line) # 1
          BY <2>4
        <4> HIDE DEF line
        <4>4. Len(line) >= 2
          <5>1. \A n \in Nat : n # 0 /\ n # 1 => n >= 2
            OBVIOUS
          <5>2. QED
            BY <4>1, <4>3, <5>1
        <4>5. QED
          BY <4>2, <4>3, <4>4
      <3>2. text[1] = Field(b, p + 1)
        BY <1>1, <3>1 DEF Field, Front
      <3>3. new = FieldLine(counted, text)
        BY <1>3, <1>5, <1>9, <2>4
      <3>4. Contradicts(counted.at, text[1]) <=> Contradicts(at, text[1])
        BY <1>4 DEF Contradicts
      <3>5. CASE ~ AcceptedLine(text) \/ Contradicts(at, text[1])
        <4>1. ASSUME NEW mid \in Nat, NEW to \in Nat, Framed(b, mid, to)
              PROVE  FALSE
          <5>1. line # <<"\r">>
            <6>1. Len(<<"\r">>) = 1
              OBVIOUS
            <6>2. QED
              BY <2>4, <6>1
          <5>2. /\ GoodLine(b, p + 1) /\ Declared(b, p + 1) \subseteq {to - mid}
                /\ AtMostOne(Named(b, p + 1, Types)) /\ AtMostOne(Named(b, p + 1, Encodings))
            BY <1>9, <4>1, <5>1, FrameGoesOn
          <5>3. Contradicts(at, Field(b, p + 1))
            BY <3>2, <3>5, <5>2 DEF GoodLine
          <5>4. LineEnds(b, p + 1) = LineEnds(b, p) \cup {p + 1} /\ LineEnds(b, p) \subseteq b + 1 .. p
            <6>1. p <= Len(stream)
              BY DEF IsStream
            <6>2. QED
              BY <1>9, <6>1, NextByte, LinesOfPrefix
          <5>5. /\ Declared(b, p) = {at.length} \ {-1}
                /\ at.typed <=> Named(b, p, Types) # {}
                /\ at.encoded <=> Named(b, p, Encodings) # {}
            BY DEF HeaderRead, at
          <5>6. CASE at.length >= 0 /\ LengthOf(Field(b, p + 1)) \notin {-1, at.length}
            <6>1. at.length \in Declared(b, p + 1) /\ LengthOf(Field(b, p + 1)) \in Declared(b, p + 1)
              <7>1. at.length \in Declared(b, p)
                BY <1>1, <5>5, <5>6
              <7>2. Declared(b, p) \subseteq Declared(b, p + 1)
                BY <5>4 DEF Declared
              <7>3. LengthOf(Field(b, p + 1)) \in Declared(b, p + 1)
                BY <5>4, <5>6 DEF Declared
              <7>4. QED
                BY <7>1, <7>2, <7>3
            <6>2. QED
              BY <5>2, <5>6, <6>1
          <5>7. CASE at.typed /\ Field(b, p + 1) \in Types
            BY <5>2, <5>4, <5>5, <5>7 DEF AtMostOne, Named
          <5>8. CASE at.encoded /\ Field(b, p + 1) \in Encodings
            BY <5>2, <5>4, <5>5, <5>8 DEF AtMostOne, Named
          <5>9. QED
            BY <5>3, <5>6, <5>7, <5>8 DEF Contradicts
        <4>2. NoFrameAfter(b)
          BY <4>1 DEF NoFrameAfter
        <4>3. new = Refuse(counted)
          BY <3>3, <3>4, <3>5 DEF FieldLine
        <4>4. QED
          BY <1>6, <4>2, <4>3
      <3>6. CASE AcceptedLine(text) /\ ~ Contradicts(at, text[1])
        <4> DEFINE field == text[1]
        <4>1. new = [counted EXCEPT !.at = AfterField(@, field)]
          BY <3>3, <3>4, <3>6 DEF FieldLine
        <4>2. IsCall(new, p + 1, 2) /\ new.at = AfterField(counted.at, field)
          BY <1>4, <4>1 DEF IsCall, CallFields
        <4>3. /\ DOMAIN new.at = DecoderFields /\ new.at.phase = "header" /\ new.at.line = <<>>
              /\ new.at.body = <<>> /\ new.at.remaining = 0 /\ new.at.bytes = at.bytes + 1
              /\ new.at.lines = at.lines + 1
              /\ new.at.length = IF LengthOf(field) >= 0 THEN LengthOf(field) ELSE at.length
              /\ new.at.typed = (at.typed \/ field \in Types)
              /\ new.at.encoded = (at.encoded \/ field \in Encodings)
          BY <1>4, <4>2 DEF AfterField, DecoderFields
        <4>4. GoodLine(b, p + 1)
          BY <3>1, <3>6 DEF GoodLine
        <4>5. HeaderRead(b, p + 1, new.at)
          <5> HIDE DEF field
          <5>1. field = Field(b, p + 1) /\ ~ Contradicts(at, field)
            BY <3>2, <3>6 DEF field
          <5>2. QED
            BY <1>9, <2>1, <3>1, <4>3, <4>4, <5>1, LineIsRead DEF at
        <4>6. QED
          BY <4>2, <4>5
      <3>7. QED
        BY <3>5, <3>6
    <2>5. QED
      BY <2>2, <2>3, <2>4
  <1>10. QED
    BY <1>7, <1>8, <1>9

\* One frame at most begins after a byte.
LEMMA FrameIsUnique ==
  ASSUME IsStream, NEW b \in Nat, NEW m1 \in Nat, NEW t1 \in Nat, NEW m2 \in Nat, NEW t2 \in Nat,
         Framed(b, m1, t1), Framed(b, m2, t2)
  PROVE  m1 = m2 /\ t1 = t2
  <1>1. ASSUME NEW m \in Nat, NEW t \in Nat, NEW n \in Nat, NEW u \in Nat,
               Framed(b, m, t), Framed(b, n, u)
        PROVE  ~ (m < n)
    <2> SUFFICES ASSUME m < n
                 PROVE  FALSE
      OBVIOUS
    <2>1. m \in LineEnds(b, m) /\ TextBefore(b, m) = <<"\r">> /\ m \in b + 1 .. Len(stream)
      BY <1>1, FrameMeans
    <2>2. m \in {k \in LineEnds(b, n) : k < n}
      BY <2>1 DEF LineEnds
    <2>3. GoodLine(b, m)
      BY <1>1, <2>2, FrameMeans
    <2>4. QED
      BY <2>1, <2>3 DEF GoodLine
  <1>2. m1 = m2
    <2>1. ~ (m1 < m2) /\ ~ (m2 < m1)
      BY <1>1
    <2>2. QED
      BY <2>1
  <1>3. t1 - m1 = t2 - m2
    <2> DEFINE lengths == {LengthOf(Field(b, k)) : k \in {k \in LineEnds(b, m1) : k < m1}} \ {-1}
    <2>1. lengths = {t1 - m1}
      BY FrameMeans
    <2>2. lengths = {t2 - m2}
      BY <1>2, FrameMeans
    <2> HIDE DEF lengths
    <2>3. QED
      BY <2>1, <2>2
  <1>4. QED
    BY <1>2, <1>3

LEMMA FrameAfterIs ==
  ASSUME IsStream, arrived \in 0 .. Len(stream), NEW b \in Nat
  PROVE  /\ \A f \in FrameAfter(b) : /\ f = <<f[1], f[2]>> /\ f[1] \in Nat /\ f[2] \in Nat
                                     /\ f[2] \in b + 1 .. arrived /\ Framed(b, f[1], f[2])
         /\ \A mid, to \in Nat : Framed(b, mid, to) /\ to <= arrived => <<mid, to>> \in FrameAfter(b)
  <1>0. Len(stream) \in Nat /\ MaxBodyBytes \in Nat
    BY FrameAssumption DEF IsStream
  <1>1. ASSUME NEW f \in FrameAfter(b)
        PROVE  /\ f = <<f[1], f[2]>> /\ f[1] \in Nat /\ f[2] \in Nat
               /\ f[2] \in b + 1 .. arrived /\ Framed(b, f[1], f[2])
    <2>1. /\ f \in (b + 1 .. arrived) \X (b + 1 .. arrived)
          /\ f[1] <= f[2] /\ f[2] - f[1] <= MaxBodyBytes /\ IsHeader(b, f[1])
          /\ \E k \in LineEnds(b, f[1]) : LengthOf(Field(b, k)) = f[2] - f[1]
      BY DEF FrameAfter, Field
    <2>2. /\ f = <<f[1], f[2]>> /\ f[1] \in b + 1 .. arrived /\ f[2] \in b + 1 .. arrived
      BY <2>1
    <2>3. f[1] \in b + 1 .. Len(stream) /\ f[2] - f[1] \in 0 .. MaxBodyBytes
      BY <1>0, <2>1, <2>2
    <2>4. QED
      BY <2>1, <2>2, <2>3 DEF Framed
  <1>2. ASSUME NEW mid \in Nat, NEW to \in Nat, Framed(b, mid, to), to <= arrived
        PROVE  <<mid, to>> \in FrameAfter(b)
    <2> DEFINE f == <<mid, to>>
    <2>1. /\ mid \in b + 1 .. Len(stream) /\ to - mid \in 0 .. MaxBodyBytes /\ IsHeader(b, mid)
          /\ \E k \in LineEnds(b, mid) : LengthOf(Field(b, k)) = to - mid
      BY <1>2 DEF Framed
    <2>2. mid <= to /\ mid \in b + 1 .. arrived /\ to \in b + 1 .. arrived /\ to - mid <= MaxBodyBytes
      BY <1>0, <1>2, <2>1
    <2>3. f \in (b + 1 .. arrived) \X (b + 1 .. arrived) /\ f[1] = mid /\ f[2] = to
      BY <2>2
    <2> HIDE DEF f
    <2>4. f \in FrameAfter(b)
      BY <2>1, <2>2, <2>3 DEF FrameAfter, Field
    <2>5. QED
      BY <2>4 DEF f
  <1>3. QED
    BY <1>1, <1>2

\* Nothing is complete while the decoder is within a frame, or has refused it.
LEMMA NothingComplete ==
  ASSUME IsStream, arrived \in 0 .. Len(stream), NEW b \in Nat, b <= arrived, NEW at,
         HeaderRead(b, arrived, at) \/ BodyRead(b, arrived, at) \/ NoFrameAfter(b)
  PROVE  FrameAfter(b) = {}
  <1> SUFFICES ASSUME NEW f \in FrameAfter(b)
               PROVE  FALSE
    OBVIOUS
  <1> DEFINE m == f[1]
             t == f[2]
  <1>0. Len(stream) \in Nat /\ arrived \in Nat /\ MaxBodyBytes \in Nat
    BY FrameAssumption DEF IsStream
  <1>1. m \in Nat /\ t \in b + 1 .. arrived /\ t \in Nat /\ Framed(b, m, t)
    BY FrameAfterIs
  <1> HIDE DEF m, t
  <1>2. m <= t
    <2>1. t - m \in 0 .. MaxBodyBytes
      BY <1>1 DEF Framed
    <2>2. QED
      BY <1>0, <1>1, <2>1
  <1>3. CASE HeaderRead(b, arrived, at)
    <2>1. m \in LineEnds(b, m) /\ TextBefore(b, m) = <<"\r">> /\ m \in b + 1 .. Len(stream)
      BY <1>1, FrameMeans
    <2>2. m \in LineEnds(b, arrived)
      BY <1>0, <1>1, <1>2, <2>1 DEF LineEnds
    <2>3. GoodLine(b, m)
      BY <1>3, <2>2 DEF HeaderRead
    <2>4. QED
      BY <2>1, <2>3 DEF GoodLine
  <1>4. CASE BodyRead(b, arrived, at)
    <2>1. PICK n \in b + 1 .. arrived :
             /\ at.length \in Nat /\ at.remaining = at.length - (arrived - n) /\ at.remaining > 0
             /\ Framed(b, n, n + at.length)
      BY <1>4 DEF BodyRead
    <2>2. n \in Nat /\ n + at.length \in Nat
      BY <1>0, <2>1
    <2>3. t = n + at.length
      BY <1>1, <2>1, <2>2, FrameIsUnique
    <2>4. QED
      BY <1>0, <1>1, <2>1, <2>3
  <1>5. CASE NoFrameAfter(b)
    BY <1>1, <1>5 DEF NoFrameAfter
  <1>6. QED
    BY <1>3, <1>4, <1>5

-----------------------------------------------------------------------------
(***************************************************************************)
(* A call of the decoder.                                                  *)
(***************************************************************************)

LEMMA FoldOfHeader ==
  ASSUME NEW p, NEW begun, NEW seq
  PROVE  FoldLeft(HeaderByte, begun, seq) = Header!Fold(p, begun, seq)
  BY DEF FoldLeft, MapThenFoldSet, Header!Fold, Header!FoldLeft, Header!MapThenFoldSet,
         Max, Header!Max, ReadByte

\* Where the reading of bytes can stand, k bytes after the start.
HeaderStands(b, call, k) ==
    \/ IsCall(call, pos + k, 2) /\ HeaderRead(b, pos + k, call.at)
    \/ \E q \in pos .. pos + k :
          \/ IsCall(call, q, 2) /\ BodyRead(b, q, call.at)
          \/ q > pos /\ IsCall(call, q, 1) /\ call.at = Fresh /\ Framed(b, q, q)
          \/ q > pos /\ IsCall(call, q, -1) /\ NoFrameAfter(b)

LEMMA HeaderIsRead ==
  ASSUME IsStream, arrived \in 0 .. Len(stream), pos \in 0 .. arrived,
         NEW b \in Nat, b <= pos, HeaderRead(b, pos, decoder) \/ BodyRead(b, pos, decoder),
         NEW read,
         read = FoldLeft(HeaderByte, [at |-> decoder, pos |-> pos, result |-> 2, frame |-> <<>>],
                         SubSeq(stream, pos + 1, arrived))
  PROVE  HeaderStands(b, read, arrived - pos)
  <1> DEFINE begun == [at |-> decoder, pos |-> pos, result |-> 2, frame |-> <<>>]
             seq == SubSeq(stream, pos + 1, arrived)
             n == arrived - pos
  <1>1. /\ n \in Nat /\ pos \in Nat /\ Len(stream) \in Nat /\ arrived \in Nat
        /\ DOMAIN seq = 1 .. n /\ \A k \in 1 .. n : seq[k] = stream[pos + k]
    BY DEF IsStream
  <1>2. PICK h : /\ h[0] = begun
                 /\ \A k \in 1 .. n : h[k] = HeaderByte(h[k - 1], seq[k])
                 /\ h[n] = read
    <2> HIDE DEF seq, n, begun
    <2>1. \E h : Header!ChainOf(pos, begun, seq, n, h)
      BY <1>1, Header!FoldIsChain
    <2>2. read = Header!Fold(pos, begun, seq)
      BY FoldOfHeader DEF begun, seq
    <2>3. QED
      BY <2>1, <2>2 DEF Header!ChainOf, ReadByte
  <1>3. HeaderStands(b, h[0], 0)
    <2>1. IsCall(begun, pos, 2) /\ begun.at = decoder
      BY DEF IsCall, CallFields
    <2>2. pos + 0 = pos /\ pos \in pos .. pos + 0
      BY <1>1
    <2> HIDE DEF begun
    <2>3. QED
      BY <1>2, <2>1, <2>2 DEF HeaderStands
  <1>4. ASSUME NEW k \in 1 .. n, HeaderStands(b, h[k - 1], k - 1)
        PROVE  HeaderStands(b, h[k], k)
    <2> DEFINE p == pos + (k - 1)
               old == h[k - 1]
    <2>1. /\ p \in Nat /\ b <= p /\ p < Len(stream) /\ p + 1 = pos + k /\ pos <= p
          /\ p + 1 \in pos .. pos + k /\ p + 1 > pos
      <3>1. /\ n \in Nat /\ pos \in Nat /\ arrived \in Nat /\ Len(stream) \in Nat
            /\ arrived <= Len(stream) /\ k \in 1 .. n /\ n = arrived - pos
        BY <1>1
      <3>2. k \in Nat /\ k >= 1 /\ k <= n
        BY <3>1
      <3> HIDE DEF n
      <3>3. QED
        BY ONLY <3>1, <3>2, b \in Nat, b <= pos
    <2>2. h[k] = HeaderByte(old, stream[p + 1])
      BY <1>1, <1>2, <2>1
    <2>3. CASE IsCall(old, p, 2) /\ HeaderRead(b, p, old.at)
      <3> HIDE DEF p, old
      <3>1. \/ IsCall(h[k], p + 1, 2) /\ HeaderRead(b, p + 1, h[k].at)
            \/ IsCall(h[k], p + 1, 2) /\ BodyRead(b, p + 1, h[k].at)
            \/ IsCall(h[k], p + 1, 1) /\ h[k].at = Fresh /\ Framed(b, p + 1, p + 1)
            \/ IsCall(h[k], p + 1, -1) /\ NoFrameAfter(b)
        BY <2>1, <2>2, <2>3, ByteIsRead
      <3>2. QED
        BY <2>1, <3>1 DEF HeaderStands
    <2>4. ASSUME NEW q \in pos .. pos + (k - 1),
                 \/ IsCall(old, q, 2) /\ BodyRead(b, q, old.at)
                 \/ q > pos /\ IsCall(old, q, 1) /\ old.at = Fresh /\ Framed(b, q, q)
                 \/ q > pos /\ IsCall(old, q, -1) /\ NoFrameAfter(b)
          PROVE  HeaderStands(b, h[k], k)
      <3>1. old.result # 2 \/ old.at.phase = "body"
        BY <2>4 DEF IsCall, BodyRead
      <3>2. h[k] = old
        BY <2>2, <3>1 DEF HeaderByte
      <3>3. q \in pos .. pos + k
        BY <1>1
      <3> HIDE DEF old
      <3>4. QED
        BY <2>4, <3>2, <3>3 DEF HeaderStands
    <2>5. QED
      BY <1>4, <2>3, <2>4 DEF HeaderStands
  <1>5. \A k \in 0 .. n : HeaderStands(b, h[k], k)
    <2> SUFFICES ASSUME NEW k \in 0 .. n, ~ HeaderStands(b, h[k], k)
                 PROVE  FALSE
      OBVIOUS
    <2> DEFINE T == {j \in 0 .. n : ~ HeaderStands(b, h[j], j)}
    <2>1. T \subseteq Nat /\ T # {}
      <3>1. k \in T
        OBVIOUS
      <3>2. T \subseteq Nat
        BY <1>1
      <3>3. QED
        BY ONLY <3>1, <3>2
    <2> HIDE DEF T
    <2>2. PICK j \in T : \A i \in T : j <= i
      BY <2>1, Header!Summing!SmallestNumber
    <2>3. j \in 0 .. n /\ ~ HeaderStands(b, h[j], j)
      BY <2>2 DEF T
    <2>4. j # 0
      BY <1>3, <2>3
    <2>5. j \in 1 .. n /\ j - 1 \in 0 .. n /\ ~ (j <= j - 1)
      BY <1>1, <2>3, <2>4
    <2>6. j - 1 \notin T
      BY <2>2, <2>5
    <2>7. HeaderStands(b, h[j - 1], j - 1)
      BY <2>5, <2>6 DEF T
    <2>8. QED
      BY <1>4, <2>3, <2>5, <2>7
  <1>6. n \in 0 .. n
    BY <1>1
  <1> HIDE DEF n
  <1>7. HeaderStands(b, h[n], n)
    BY <1>5, <1>6
  <1>8. QED
    BY <1>2, <1>7 DEF n

LEMMA BodyIsTaken ==
  ASSUME IsStream, arrived \in 0 .. Len(stream), inputEof \in BOOLEAN,
         NEW b \in Nat, NEW q \in Nat, q <= arrived,
         NEW read, IsCall(read, q, 2), BodyRead(b, q, read.at),
         NEW call, call = TakeBody(read)
  PROVE  \/ /\ call.result = 1 /\ call.at = Fresh /\ call.pos \in q .. arrived
            /\ \E mid \in b + 1 .. q : /\ Framed(b, mid, call.pos)
                                       /\ call.frame = SubSeq(stream, mid + 1, call.pos)
         \/ /\ call.result = IF inputEof THEN -3 ELSE 2
            /\ call.pos = arrived /\ BodyRead(b, arrived, call.at)
  <1> DEFINE at == read.at
             available == arrived - q
             take == IF available < at.remaining THEN available ELSE at.remaining
             taken == at.body \o SubSeq(stream, q + 1, q + take)
  <1>1. /\ DOMAIN at = DecoderFields /\ at.phase = "body" /\ at.length \in Nat
        /\ \E mid \in b + 1 .. q :
              /\ at.body = SubSeq(stream, mid + 1, q)
              /\ at.remaining = at.length - (q - mid) /\ at.remaining > 0
              /\ Framed(b, mid, mid + at.length)
    BY DEF BodyRead
  <1>2. PICK mid \in b + 1 .. q :
           /\ at.body = SubSeq(stream, mid + 1, q)
           /\ at.remaining = at.length - (q - mid) /\ at.remaining > 0
           /\ Framed(b, mid, mid + at.length)
    BY <1>1
  <1>3. /\ Len(stream) \in Nat /\ arrived \in Nat /\ arrived <= Len(stream) /\ mid \in Nat
        /\ mid <= q /\ available \in Nat /\ at.remaining \in Nat /\ take \in Nat
        /\ q + take <= arrived /\ at.length \in Nat
    BY <1>1, <1>2 DEF IsStream
  <1>4. taken = SubSeq(stream, mid + 1, q + take)
    <2> HIDE DEF take, at
    <2>1. /\ mid + 1 \in 1 .. Len(stream) + 1 /\ q \in (mid + 1) - 1 .. Len(stream)
          /\ q + take \in q .. Len(stream)
      BY <1>3
    <2>2. SubSeq(stream, mid + 1, q) \o SubSeq(stream, q + 1, q + take)
             = SubSeq(stream, mid + 1, q + take)
      BY <2>1, SequenceFacts!ConcatAdjacentSubSeq DEF IsStream
    <2>3. QED
      BY <1>2, <2>2
  <1>5. read.pos = q /\ read.result = 2 /\ DOMAIN read = CallFields
    BY DEF IsCall
  <1>6. call = IF take = at.remaining
               THEN [read EXCEPT !.pos = @ + take, !.at = Fresh, !.result = 1, !.frame = taken]
               ELSE [read EXCEPT !.pos = @ + take, !.at.body = taken, !.at.remaining = @ - take,
                                 !.result = IF inputEof THEN -3 ELSE 2]
    BY <1>5 DEF TakeBody
  <1> HIDE DEF take, taken
  <1>7. CASE take = at.remaining
    <2>1. call.pos = q + take /\ call.at = Fresh /\ call.result = 1 /\ call.frame = taken
      BY <1>5, <1>6, <1>7 DEF CallFields
    <2>2. q + take = mid + at.length /\ q + take \in q .. arrived
      BY <1>2, <1>3, <1>7
    <2> HIDE DEF at
    <2>3. QED
      BY <1>2, <1>4, <2>1, <2>2
  <1>8. CASE take # at.remaining
    <2>1. take = available
      BY <1>8 DEF take
    <2>2. q + take = arrived /\ at.remaining - take = at.length - (arrived - mid)
          /\ at.remaining - take > 0
      BY <1>2, <1>3, <1>8, <2>1 DEF take
    <2>3. /\ call.pos = q + take /\ call.result = IF inputEof THEN -3 ELSE 2
          /\ DOMAIN call.at = DecoderFields /\ call.at.phase = "body"
          /\ call.at.length = at.length
          /\ call.at.body = taken /\ call.at.remaining = at.remaining - take
      <3> DEFINE first == [read EXCEPT !.pos = @ + take]
                 second == [first EXCEPT !.at.body = taken]
                 third == [second EXCEPT !.at.remaining = at.remaining - take]
      <3>1. call = [third EXCEPT !.result = IF inputEof THEN -3 ELSE 2]
        BY <1>6, <1>8
      <3>2. DOMAIN first = CallFields /\ first.at = at /\ first.pos = q + take
        BY <1>5 DEF CallFields
      <3> HIDE DEF first
      <3>3. /\ DOMAIN second = CallFields /\ second.pos = q + take
            /\ DOMAIN second.at = DecoderFields /\ second.at.phase = "body"
            /\ second.at.length = at.length /\ second.at.body = taken
            /\ second.at.remaining = at.remaining
        BY <1>1, <3>2 DEF CallFields, DecoderFields
      <3> HIDE DEF second, at
      <3>4. /\ DOMAIN third = CallFields /\ third.pos = q + take
            /\ DOMAIN third.at = DecoderFields /\ third.at.phase = "body"
            /\ third.at.length = at.length /\ third.at.body = taken
            /\ third.at.remaining = at.remaining - take
        BY <3>3 DEF CallFields, DecoderFields
      <3> HIDE DEF third
      <3>5. QED
        BY <3>1, <3>4 DEF CallFields
    <2> HIDE DEF at
    <2>4. mid \in b + 1 .. arrived
      BY <1>3
    <2>5. BodyRead(b, arrived, call.at)
      BY <1>2, <1>3, <1>4, <2>2, <2>3, <2>4 DEF BodyRead
    <2>6. QED
      BY <2>2, <2>3, <2>5
  <1>9. QED
    BY <1>7, <1>8

\* What a call of the decoder can find.
LEMMA CallFinds ==
  ASSUME IsStream, arrived \in 0 .. Len(stream), pos \in 0 .. arrived, inputEof \in BOOLEAN,
         NEW b \in Nat, b <= pos, HeaderRead(b, pos, decoder) \/ BodyRead(b, pos, decoder),
         NEW call, call = Called
  PROVE  /\ call.pos \in pos .. arrived
         /\ \/ /\ call.result = 2 /\ ~ inputEof /\ call.pos = arrived
               /\ HeaderRead(b, arrived, call.at) \/ BodyRead(b, arrived, call.at)
            \/ /\ call.result = 1 /\ call.at = Fresh
               /\ \E mid \in b + 1 .. call.pos :
                     /\ Framed(b, mid, call.pos)
                     /\ call.frame = SubSeq(stream, mid + 1, call.pos)
            \/ call.result = -1 /\ b < arrived /\ FrameAfter(b) = {}
            \/ call.result \in {-2, -3} /\ inputEof /\ b < arrived /\ FrameAfter(b) = {}
            \/ call.result = 0 /\ inputEof /\ b = arrived /\ FrameAfter(b) = {}
  <1> DEFINE begun == [at |-> decoder, pos |-> pos, result |-> 2, frame |-> <<>>]
             read == FoldLeft(HeaderByte, begun, SubSeq(stream, pos + 1, arrived))
  <1>1. HeaderStands(b, read, arrived - pos)
    BY HeaderIsRead
  <1>2. call = IF read.result # 2 THEN read
               ELSE IF read.at.phase = "body" THEN TakeBody(read)
               ELSE [read EXCEPT !.result = IF ~inputEof THEN 2
                                            ELSE IF Started(read.at) THEN -2 ELSE 0]
    BY DEF Called
  <1>3. /\ Len(stream) \in Nat /\ arrived \in Nat /\ pos \in Nat
        /\ pos + (arrived - pos) = arrived /\ pos <= arrived
    BY DEF IsStream
  <1>4. \/ IsCall(read, arrived, 2) /\ HeaderRead(b, arrived, read.at)
        \/ \E q \in pos .. arrived :
              \/ IsCall(read, q, 2) /\ BodyRead(b, q, read.at)
              \/ q > pos /\ IsCall(read, q, 1) /\ read.at = Fresh /\ Framed(b, q, q)
              \/ q > pos /\ IsCall(read, q, -1) /\ NoFrameAfter(b)
    BY <1>1, <1>3 DEF HeaderStands
  <1> HIDE DEF read
  <1>5. CASE IsCall(read, arrived, 2) /\ HeaderRead(b, arrived, read.at)
    <2>1. call = [read EXCEPT !.result = IF ~inputEof THEN 2
                                         ELSE IF Started(read.at) THEN -2 ELSE 0]
      BY <1>2, <1>5 DEF IsCall, HeaderRead
    <2>2. /\ call.pos = arrived /\ call.at = read.at
          /\ call.result = IF ~inputEof THEN 2 ELSE IF Started(read.at) THEN -2 ELSE 0
      BY <1>5, <2>1 DEF IsCall, CallFields
    <2>3. FrameAfter(b) = {}
      BY <1>3, <1>5, NothingComplete
    <2>4. Started(read.at) <=> b < arrived
      <3>1. /\ read.at.bytes = arrived - b /\ read.at.line = TextBefore(b, arrived + 1)
            /\ read.at.lines = Cardinality(LineEnds(b, arrived))
        BY <1>5 DEF HeaderRead
      <3>2. CASE b < arrived
        BY <1>3, <3>1, <3>2 DEF Started
      <3>3. CASE b = arrived
        <4>1. LineEnds(b, arrived) = {}
          BY <1>3, <3>3 DEF LineEnds
        <4>2. TextBefore(b, arrived + 1) = <<>>
          <5>1. LineStart(b, arrived) = b + 1
            BY <4>1 DEF LineStart
          <5>2. TextBefore(b, arrived + 1) = SubSeq(stream, LineStart(b, arrived), arrived)
            BY <1>3, TextIsLine
          <5>3. SubSeq(stream, arrived + 1, arrived) = <<>>
            BY <1>3 DEF IsStream
          <5>4. QED
            BY <3>3, <5>1, <5>2, <5>3
        <4>3. read.at.bytes = 0 /\ read.at.lines = 0 /\ read.at.line = <<>>
          BY <1>3, <3>1, <3>3, <4>1, <4>2, FS_EmptySet
        <4>4. QED
          BY <3>3, <4>3 DEF Started
      <3>4. QED
        BY <1>3, <3>2, <3>3
    <2>5. QED
      BY <1>3, <1>5, <2>2, <2>3, <2>4
  <1>6. ASSUME NEW q \in pos .. arrived, IsCall(read, q, 2), BodyRead(b, q, read.at)
        PROVE  /\ call.pos \in pos .. arrived
               /\ \/ /\ call.result = 2 /\ ~ inputEof /\ call.pos = arrived
                     /\ BodyRead(b, arrived, call.at)
                  \/ /\ call.result = 1 /\ call.at = Fresh
                     /\ \E mid \in b + 1 .. call.pos :
                           /\ Framed(b, mid, call.pos)
                           /\ call.frame = SubSeq(stream, mid + 1, call.pos)
                  \/ call.result = -3 /\ inputEof /\ b < arrived /\ FrameAfter(b) = {}
    <2>1. call = TakeBody(read)
      BY <1>2, <1>6 DEF IsCall, BodyRead
    <2>2. q \in Nat /\ q <= arrived /\ pos <= q
      BY <1>3
    <2>3. CASE /\ call.result = 1 /\ call.at = Fresh /\ call.pos \in q .. arrived
               /\ \E mid \in b + 1 .. q : /\ Framed(b, mid, call.pos)
                                          /\ call.frame = SubSeq(stream, mid + 1, call.pos)
      <3>1. PICK mid \in b + 1 .. q : /\ Framed(b, mid, call.pos)
                                       /\ call.frame = SubSeq(stream, mid + 1, call.pos)
        BY <2>3
      <3>2. mid \in b + 1 .. call.pos /\ call.pos \in pos .. arrived
        BY <1>3, <2>2, <2>3
      <3>3. QED
        BY <2>3, <3>1, <3>2
    <2>4. CASE /\ call.result = IF inputEof THEN -3 ELSE 2
               /\ call.pos = arrived /\ BodyRead(b, arrived, call.at)
      <3>1. FrameAfter(b) = {}
        BY <1>3, <2>4, NothingComplete
      <3>2. b < arrived
        <4>1. \E mid \in b + 1 .. arrived : TRUE
          BY <2>4 DEF BodyRead
        <4>2. QED
          BY <1>3, <4>1
      <3>3. QED
        BY <1>3, <2>4, <3>1, <3>2
    <2>5. \/ /\ call.result = 1 /\ call.at = Fresh /\ call.pos \in q .. arrived
             /\ \E mid \in b + 1 .. q : /\ Framed(b, mid, call.pos)
                                        /\ call.frame = SubSeq(stream, mid + 1, call.pos)
          \/ /\ call.result = IF inputEof THEN -3 ELSE 2
             /\ call.pos = arrived /\ BodyRead(b, arrived, call.at)
      BY <1>6, <2>1, <2>2, BodyIsTaken
    <2>6. QED
      BY <2>3, <2>4, <2>5
  <1>7. ASSUME NEW q \in pos .. arrived, q > pos, IsCall(read, q, 1), read.at = Fresh,
               Framed(b, q, q)
        PROVE  /\ call.pos \in pos .. arrived /\ call.result = 1 /\ call.at = Fresh
               /\ \E mid \in b + 1 .. call.pos :
                     /\ Framed(b, mid, call.pos)
                     /\ call.frame = SubSeq(stream, mid + 1, call.pos)
    <2>1. call = read /\ call.pos = q /\ call.result = 1 /\ call.frame = <<>>
      BY <1>2, <1>7 DEF IsCall
    <2>2. SubSeq(stream, q + 1, q) = <<>> /\ q \in b + 1 .. q
      BY <1>3, <1>7 DEF IsStream
    <2>3. QED
      BY <1>7, <2>1, <2>2
  <1>8. ASSUME NEW q \in pos .. arrived, q > pos, IsCall(read, q, -1), NoFrameAfter(b)
        PROVE  /\ call.pos \in pos .. arrived
               /\ call.result = -1 /\ b < arrived /\ FrameAfter(b) = {}
    <2>1. call = read /\ call.pos = q /\ call.result = -1
      BY <1>2, <1>8 DEF IsCall
    <2>2. b < arrived /\ b <= arrived
      BY <1>3, <1>8
    <2>3. FrameAfter(b) = {}
      BY <1>8, <2>2, NothingComplete
    <2>4. QED
      BY <2>1, <2>2, <2>3
  <1>9. QED
    BY <1>4, <1>5, <1>6, <1>7, <1>8

-----------------------------------------------------------------------------
(***************************************************************************)
(* The frames of a stream.                                                 *)
(***************************************************************************)

\* The equation of the reference.
CompleteValue(p, f, from) ==
    IF FrameAfter(from) = {} THEN [frames |-> <<>>, end |-> from]
    ELSE LET g == CHOOSE g \in FrameAfter(from) : TRUE
             rest == f[g[2]]
         IN [frames |-> <<SubSeq(stream, g[1] + 1, g[2])>> \o rest.frames,
             end |-> rest.end]

Left(p, from) == arrived - from

Cutting == INSTANCE RecursionTheorems WITH Value <- CompleteValue, Rank <- Left

\* The frames that were dispatched are those between the cuts c.
FramesRead(c) ==
    /\ c[1] = 0
    /\ \A i \in 1 .. Len(frames) + 1 : c[i] \in 0 .. pos
    /\ \A i \in 1 .. Len(frames) :
          \E mid \in c[i] + 1 .. c[i + 1] :
              Framed(c[i], mid, c[i + 1]) /\ frames[i] = SubSeq(stream, mid + 1, c[i + 1])

LEMMA CompleteIsSolution ==
  ASSUME NEW p
  PROVE  Complete = Cutting!Solution(p, 0 .. arrived)[0]
  BY DEF Complete, Cutting!Solution, CompleteValue

LEMMA CompleteIsRecursive ==
  ASSUME IsStream, arrived \in 0 .. Len(stream), NEW p
  PROVE  Cutting!Recursive(p, 0 .. arrived)
  <1>1. arrived \in Nat /\ \A x \in 0 .. arrived : Left(p, x) \in Nat
    BY DEF IsStream, Left
  <1>2. ASSUME NEW x \in 0 .. arrived, NEW g, NEW h,
               \A y \in 0 .. arrived : Left(p, y) < Left(p, x) => g[y] = h[y]
        PROVE  CompleteValue(p, g, x) = CompleteValue(p, h, x)
    <2>1. CASE FrameAfter(x) = {}
      BY <2>1 DEF CompleteValue
    <2>2. CASE FrameAfter(x) # {}
      <3> DEFINE f == CHOOSE f \in FrameAfter(x) : TRUE
      <3>1. f \in FrameAfter(x)
        BY <2>2
      <3> HIDE DEF f
      <3>2. f[2] \in x + 1 .. arrived
        BY <1>1, <3>1, FrameAfterIs
      <3>3. g[f[2]] = h[f[2]]
        BY <1>1, <1>2, <3>2 DEF Left
      <3>4. QED
        BY <2>2, <3>3 DEF CompleteValue, f
    <2>3. QED
      BY <2>1, <2>2
  <1>3. QED
    BY <1>1, <1>2 DEF Cutting!Recursive

\* Nothing is complete after the last cut, so the frames between the cuts are
\* all of them.
LEMMA CutsAreComplete ==
  ASSUME IsStream, arrived \in 0 .. Len(stream), pos \in 0 .. arrived,
         frames \in Seq(Seq(ToSet(stream))), NEW c, FramesRead(c),
         FrameAfter(c[Len(frames) + 1]) = {}
  PROVE  Complete = [frames |-> frames, end |-> c[Len(frames) + 1]]
  <1> DEFINE split == Cutting!Solution(c, 0 .. arrived)
             n == Len(frames)
             Right(i) == split[c[i]] = [frames |-> SubSeq(frames, i, n), end |-> c[n + 1]]
  <1>1. \A x \in 0 .. arrived : split[x] = CompleteValue(c, split, x)
    <2> DEFINE D == 0 .. arrived
    <2>1. Cutting!Recursive(c, D)
      BY CompleteIsRecursive
    <2> HIDE DEF D
    <2>2. \A x \in D : Cutting!Solution(c, D)[x] = CompleteValue(c, Cutting!Solution(c, D), x)
      BY <2>1, Cutting!RecursiveFunction
    <2>3. QED
      BY <2>2 DEF D
  <1>2. Complete = split[0]
    BY CompleteIsSolution
  <1> HIDE DEF split
  <1>3. /\ n \in Nat /\ arrived \in Nat /\ Len(stream) \in Nat /\ c[1] = 0
        /\ \A i \in 1 .. n + 1 : c[i] \in 0 .. arrived
    BY DEF FramesRead, IsStream
  <1>4. Right(n + 1)
    <2>1. SubSeq(frames, n + 1, n) = <<>>
      BY <1>3
    <2>2. n + 1 \in 1 .. n + 1
      BY <1>3
    <2>3. split[c[n + 1]] = CompleteValue(c, split, c[n + 1])
      BY <1>1, <1>3, <2>2
    <2> HIDE DEF n
    <2>4. FrameAfter(c[n + 1]) = {}
      BY DEF n
    <2>5. QED
      BY <2>1, <2>3, <2>4 DEF CompleteValue
  <1>5. ASSUME NEW i \in 1 .. n, Right(i + 1)
        PROVE  Right(i)
    <2>1. PICK mid \in c[i] + 1 .. c[i + 1] :
             Framed(c[i], mid, c[i + 1]) /\ frames[i] = SubSeq(stream, mid + 1, c[i + 1])
      BY DEF FramesRead
    <2>2. i \in 1 .. n + 1 /\ i + 1 \in 1 .. n + 1
      BY <1>3
    <2>3. /\ c[i] \in Nat /\ c[i] \in 0 .. arrived /\ c[i + 1] \in Nat /\ c[i + 1] <= arrived
          /\ mid \in Nat
      BY <1>3, <2>2
    <2>4. <<mid, c[i + 1]>> \in FrameAfter(c[i])
      BY <2>1, <2>3, FrameAfterIs
    <2> DEFINE f == CHOOSE f \in FrameAfter(c[i]) : TRUE
    <2>5. f \in FrameAfter(c[i])
      BY <2>4
    <2> HIDE DEF f
    <2>6. /\ f = <<f[1], f[2]>> /\ f[1] \in Nat /\ f[2] \in Nat /\ Framed(c[i], f[1], f[2])
      BY <2>3, <2>5, FrameAfterIs
    <2>7. f[1] = mid /\ f[2] = c[i + 1]
      <3> DEFINE x == c[i]
                 y == c[i + 1]
                 u == f[1]
                 v == f[2]
      <3> HIDE DEF x, y, u, v
      <3>1. /\ x \in Nat /\ mid \in Nat /\ y \in Nat /\ u \in Nat /\ v \in Nat
            /\ Framed(x, mid, y) /\ Framed(x, u, v)
        BY <2>1, <2>3, <2>6 DEF x, y, u, v
      <3>2. u = mid /\ v = y
        BY ONLY <3>1, IsStream, FrameIsUnique
      <3>3. QED
        BY <3>2 DEF u, v, y
    <2>8. split[c[i]] = CompleteValue(c, split, c[i])
      BY <1>1, <2>3
    <2>9. split[c[i]] = [frames |-> <<SubSeq(stream, f[1] + 1, f[2])>> \o split[f[2]].frames,
                         end |-> split[f[2]].end]
      BY <2>4, <2>8 DEF CompleteValue, f
    <2>10. split[f[2]].frames = SubSeq(frames, i + 1, n) /\ split[f[2]].end = c[n + 1]
      <3>1. split[c[i + 1]] = [frames |-> SubSeq(frames, i + 1, n), end |-> c[n + 1]]
        BY <1>5
      <3>2. split[f[2]] = split[c[i + 1]]
        BY <2>7
      <3>3. PICK value : /\ value = [frames |-> SubSeq(frames, i + 1, n), end |-> c[n + 1]]
                         /\ value = split[f[2]]
        BY <3>1, <3>2
      <3>4. value.frames = SubSeq(frames, i + 1, n) /\ value.end = c[n + 1]
        BY <3>3
      <3>5. QED
        BY ONLY <3>3, <3>4
    <2>11. <<frames[i]>> \o SubSeq(frames, i + 1, n) = SubSeq(frames, i, n)
      <3>1. n \in i .. Len(frames) /\ i \in 1 .. Len(frames)
        BY <1>3
      <3>2. QED
        BY <3>1, SequenceFacts!SubSeqRecursiveFirst
    <2>12. QED
      BY <2>1, <2>7, <2>9, <2>10, <2>11
  <1>6. \A k \in 0 .. n : Right((n + 1) - k)
    <2> SUFFICES ASSUME NEW k \in 0 .. n, ~ Right((n + 1) - k)
                 PROVE  FALSE
      OBVIOUS
    <2> DEFINE T == {j \in 0 .. n : ~ Right((n + 1) - j)}
    <2> HIDE DEF Right
    <2>1. T \subseteq Nat /\ T # {}
      <3>1. k \in T
        OBVIOUS
      <3>2. T \subseteq Nat
        BY <1>3
      <3>3. QED
        BY ONLY <3>1, <3>2
    <2> HIDE DEF T
    <2>2. PICK j \in T : \A m \in T : j <= m
      BY <2>1, Cutting!SmallestNumber
    <2>3. j \in 0 .. n /\ ~ Right((n + 1) - j)
      BY <2>2 DEF T
    <2>4. j # 0
      <3>1. (n + 1) - 0 = n + 1
        BY <1>3
      <3>2. QED
        BY <1>4, <2>3, <3>1
    <2>5. /\ j - 1 \in 0 .. n /\ ~ (j <= j - 1) /\ (n + 1) - j \in 1 .. n
          /\ (n + 1) - (j - 1) = ((n + 1) - j) + 1
      BY <1>3, <2>3, <2>4
    <2>6. Right(((n + 1) - j) + 1)
      <3>1. j - 1 \notin T
        BY <2>2, <2>5
      <3>2. Right((n + 1) - (j - 1))
        BY <2>5, <3>1 DEF T
      <3>3. QED
        BY <2>5, <3>2
    <2>7. QED
      BY <1>5, <2>3, <2>5, <2>6
  <1>7. Right(1)
    <2> HIDE DEF Right
    <2>1. n \in 0 .. n /\ (n + 1) - n = 1
      BY <1>3
    <2>2. Right((n + 1) - n)
      BY <1>6, <2>1
    <2>3. QED
      BY <2>1, <2>2
  <1>8. SubSeq(frames, 1, n) = frames
    BY <1>3, SequenceFacts!SubSeqFull
  <1>9. QED
    BY <1>2, <1>3, <1>7, <1>8

-----------------------------------------------------------------------------
(***************************************************************************)
(* The invariant.                                                          *)
(***************************************************************************)

\* The frames are those between the cuts c, the last of which is b; after it,
\* at has read up to p.
Standing(c, b, p, at) ==
    /\ FramesRead(c) /\ b = c[Len(frames) + 1] /\ p = pos /\ at = decoder
    /\ ended = -1 => HeaderRead(b, p, at) \/ BodyRead(b, p, at)
    /\ waiting \/ ended # -1 => FrameAfter(b) = {}
    /\ ended = 0 => inputEof /\ b = arrived
    /\ ended = 1 /\ ~waiting /\ inputEof => b < arrived

FrameInv ==
    /\ IsStream /\ arrived \in 0 .. Len(stream) /\ pos \in 0 .. arrived
    /\ inputEof \in BOOLEAN /\ waiting \in BOOLEAN /\ ended \in {-1, 0, 1}
    /\ frames \in Seq(Seq(ToSet(stream)))
    /\ \E c, b, p, at : Standing(c, b, p, at)

\* The parts of the grammar, as functions of what they depend on.
StartIn(before, from) ==
    IF before = {} THEN from + 1 ELSE 1 + CHOOSE j \in before : \A i \in before : i <= j

HeaderOf(texts, from, to) ==
    LET names == {k \in DOMAIN texts : k < to}
        declared == {LengthOf(texts[k][1]) : k \in names} \ {-1}
        once(S) == Cardinality({k \in names : texts[k][1] \in S}) <= 1
    IN /\ to \in DOMAIN texts /\ texts[to] = <<"\r">>
       /\ \A k \in names : /\ Len(texts[k]) >= 2 /\ Last(texts[k]) = "\r"
                          /\ AcceptedLine(Front(texts[k]))
       /\ Cardinality(declared) = 1 /\ once(Types) /\ once(Encodings)
       /\ to - from <= MaxHeaderBytes /\ Cardinality(DOMAIN texts) <= MaxHeaderLines

\* What the grammar says of a place stays, as the stream does.
LEMMA StreamStays ==
  ASSUME stream' = stream
  PROVE  /\ \A b, p : LineEnds(b, p)' = LineEnds(b, p)
         /\ \A b, k : TextBefore(b, k)' = TextBefore(b, k)
         /\ \A b, m : IsHeader(b, m)' <=> IsHeader(b, m)
         /\ \A b, m, t : Framed(b, m, t)' <=> Framed(b, m, t)
         /\ \A b, p, at : HeaderRead(b, p, at)' <=> HeaderRead(b, p, at)
         /\ \A b, p, at : BodyRead(b, p, at)' <=> BodyRead(b, p, at)
  <1>1. \A b, p : LineEnds(b, p)' = LineEnds(b, p)
    BY DEF LineEnds
  <1>2. \A b, k : TextBefore(b, k)' = TextBefore(b, k)
    <2> SUFFICES ASSUME NEW b, NEW k
                 PROVE  TextBefore(b, k)' = TextBefore(b, k)
      OBVIOUS
    <2>1. TextBefore(b, k) = SubSeq(stream, StartIn(LineEnds(b, k - 1), b), k - 1)
      BY DEF TextBefore, StartIn
    <2>2. TextBefore(b, k)' = SubSeq(stream', StartIn(LineEnds(b, k - 1)', b), k - 1)
      BY DEF TextBefore, StartIn
    <2>3. QED
      BY <1>1, <2>1, <2>2
  <1>3. \A b, m : IsHeader(b, m)' <=> IsHeader(b, m)
    <2> SUFFICES ASSUME NEW b, NEW m
                 PROVE  IsHeader(b, m)' <=> IsHeader(b, m)
      OBVIOUS
    <2>1. IsHeader(b, m) <=> HeaderOf([k \in LineEnds(b, m) |-> TextBefore(b, k)], b, m)
      BY DEF IsHeader, HeaderOf
    <2>2. IsHeader(b, m)' <=> HeaderOf([k \in LineEnds(b, m)' |-> TextBefore(b, k)'], b, m)
      BY DEF IsHeader, HeaderOf
    <2>3. [k \in LineEnds(b, m)' |-> TextBefore(b, k)'] = [k \in LineEnds(b, m) |-> TextBefore(b, k)]
      BY <1>1, <1>2
    <2>4. QED
      BY <2>1, <2>2, <2>3
  <1>4. \A b, k : Field(b, k)' = Field(b, k) /\ (GoodLine(b, k)' <=> GoodLine(b, k))
    BY <1>2 DEF Field, GoodLine
  <1>5. \A b, p : Declared(b, p)' = Declared(b, p)
    BY <1>1, <1>4 DEF Declared
  <1>6. \A b, p, S : Named(b, p, S)' = Named(b, p, S)
    BY <1>1, <1>4 DEF Named
  <1>7. \A b, m, t : Framed(b, m, t)' <=> Framed(b, m, t)
    BY <1>1, <1>3, <1>4 DEF Framed
  <1>8. \A b, p, at : HeaderRead(b, p, at)' <=> HeaderRead(b, p, at)
    BY <1>1, <1>2, <1>4, <1>5, <1>6 DEF HeaderRead
  <1>9. \A b, p, at : BodyRead(b, p, at)' <=> BodyRead(b, p, at)
    BY <1>7 DEF BodyRead
  <1>10. QED
    BY <1>1, <1>2, <1>3, <1>7, <1>8, <1>9

\* So does what is complete in what has arrived.
LEMMA CompleteStays ==
  ASSUME stream' = stream, arrived' = arrived, NEW b
  PROVE  FrameAfter(b)' = FrameAfter(b)
  <1>1. \A m, k : (IsHeader(b, m)' <=> IsHeader(b, m)) /\ TextBefore(b, k)' = TextBefore(b, k)
                  /\ LineEnds(b, m)' = LineEnds(b, m)
    BY StreamStays
  <1>2. QED
    BY <1>1 DEF FrameAfter

\* A frame more: it ends where the call has stopped reading.
LEMMA OneMoreFrame ==
  ASSUME IsStream, pos \in Nat, frames \in Seq(Seq(ToSet(stream))), NEW c, FramesRead(c),
         NEW q \in Nat, pos <= q, NEW piece, NEW b, b = c[Len(frames) + 1],
         stream' = stream, pos' = q, frames' = Append(frames, piece), piece \in Seq(ToSet(stream)),
         NEW mid \in b + 1 .. q, Framed(b, mid, q), piece = SubSeq(stream, mid + 1, q)
  PROVE  \E d : FramesRead(d)' /\ d[Len(frames') + 1] = q
  <1>0. PICK n : n = Len(frames)
    OBVIOUS
  <1>d. PICK d : d = [i \in 1 .. n + 2 |-> IF i = n + 2 THEN q ELSE c[i]]
    OBVIOUS
  <1>1. n \in Nat /\ Len(frames') = n + 1 /\ frames'[n + 1] = piece
        /\ \A i \in 1 .. n : frames'[i] = frames[i]
    <2>1. piece \in Seq(ToSet(stream)) /\ frames \in Seq(Seq(ToSet(stream)))
      OBVIOUS
    <2>2. QED
      BY ONLY <1>0, <2>1, frames' = Append(frames, piece)
  <1>n. n \in Nat
    BY <1>1
  <1>2. d[n + 2] = q /\ \A i \in 1 .. n + 1 : d[i] = c[i] /\ i \in 1 .. n + 2
    BY <1>d, <1>1
  <1>3. (n + 1) + 1 = n + 2 /\ n + 1 \in 1 .. n + 1 /\ 1 \in 1 .. n + 1
    BY ONLY <1>n
  <1>4. \A i \in 1 .. n + 2 : i \in 1 .. n + 1 \/ i = n + 2
    BY ONLY <1>n
  <1>5. \A i \in 1 .. n + 1 : i \in 1 .. n \/ i = n + 1
    BY ONLY <1>n
  <1>6. \A i \in 1 .. n : i \in 1 .. n + 1 /\ i + 1 \in 1 .. n + 1
    BY ONLY <1>n
  <1>7. \A x, m, t : Framed(x, m, t)' <=> Framed(x, m, t)
    BY StreamStays
  <1>8. /\ c[1] = 0 /\ \A i \in 1 .. n + 1 : c[i] \in 0 .. pos
        /\ \A i \in 1 .. n :
              \E m \in c[i] + 1 .. c[i + 1] :
                  Framed(c[i], m, c[i + 1]) /\ frames[i] = SubSeq(stream, m + 1, c[i + 1])
    BY <1>0 DEF FramesRead
  <1>9. b = c[n + 1]
    BY <1>0
  <1>10. d[1] = 0
    BY <1>2, <1>3, <1>8
  <1>11. \A i \in 1 .. (n + 1) + 1 : d[i] \in 0 .. q
    <2>1. \A i \in 1 .. n + 1 : c[i] \in 0 .. q
      BY <1>8
    <2>2. \A i \in 1 .. n + 2 : d[i] \in 0 .. q
      <3> SUFFICES ASSUME NEW i \in 1 .. n + 2
                   PROVE  d[i] \in 0 .. q
        OBVIOUS
      <3>1. q \in 0 .. q
        OBVIOUS
      <3>2. CASE i = n + 2
        BY ONLY <1>2, <3>1, <3>2
      <3>3. CASE i \in 1 .. n + 1
        BY ONLY <1>2, <2>1, <3>3
      <3>4. QED
        BY <1>4, <3>2, <3>3
    <2>3. QED
      BY <1>3, <2>2
  <1>12. ASSUME NEW i \in 1 .. n + 1
         PROVE  \E m \in d[i] + 1 .. d[i + 1] :
                    Framed(d[i], m, d[i + 1])' /\ frames'[i] = SubSeq(stream', m + 1, d[i + 1])
    <2>1. CASE i \in 1 .. n
      <3>1. d[i] = c[i] /\ d[i + 1] = c[i + 1] /\ frames'[i] = frames[i]
        BY <1>1, <1>2, <1>6, <2>1
      <3>2. QED
        BY <1>7, <1>8, <2>1, <3>1
    <2>2. CASE i = n + 1
      <3>1. d[i] = b /\ d[i + 1] = q /\ frames'[i] = piece
        BY <1>1, <1>2, <1>3, <1>9, <2>2
      <3>2. QED
        BY <1>7, <3>1
    <2>3. QED
      BY <1>5, <2>1, <2>2
  <1>13. FramesRead(d)'
    BY <1>1, <1>10, <1>11, <1>12 DEF FramesRead
  <1>14. QED
    BY <1>1, <1>2, <1>3, <1>13

\* A decoder that was reset has read nothing.
LEMMA FreshStands ==
  ASSUME IsStream, NEW b \in Nat
  PROVE  HeaderRead(b, b, Fresh)
  <1>1. LineEnds(b, b) = {}
    BY DEF LineEnds
  <1>2. TextBefore(b, b + 1) = <<>>
    <2>1. TextBefore(b, b + 1) = SubSeq(stream, b + 1, b)
      BY <1>1, TextIsLine DEF LineStart
    <2>2. SubSeq(stream, b + 1, b) = <<>>
      BY DEF IsStream
    <2>3. QED
      BY <2>1, <2>2
  <1>3. Cardinality(LineEnds(b, b)) = 0
    BY <1>1, FS_EmptySet
  <1>4. Declared(b, b) = {} /\ \A S : Named(b, b, S) = {}
    BY <1>1 DEF Declared, Named
  <1>5. MaxHeaderBytes \in Nat /\ MaxHeaderLines \in Nat
    BY FrameAssumption
  <1>6. QED
    BY <1>1, <1>2, <1>3, <1>4, <1>5 DEF HeaderRead, Fresh, DecoderFields, AtMostOne

LEMMA FrameBegins ==
  FrameInit => FrameInv
  <1> SUFFICES ASSUME FrameInit
               PROVE  FrameInv
    OBVIOUS
  <1>1. IsStream /\ Len(stream) \in Nat
    BY FrameAssumption DEF FrameInit, IsStream
  <1>2. /\ arrived \in 0 .. Len(stream) /\ pos \in 0 .. arrived
        /\ inputEof \in BOOLEAN /\ waiting \in BOOLEAN /\ ended \in {-1, 0, 1}
        /\ frames = <<>> /\ pos = 0
    <2>1. /\ arrived = 0 /\ pos = 0 /\ inputEof = FALSE /\ waiting = FALSE /\ ended = -1
          /\ frames = <<>>
      BY DEF FrameInit
    <2>2. arrived \in 0 .. Len(stream) /\ pos \in 0 .. arrived
      BY <1>1, <2>1
    <2>3. QED
      BY ONLY <2>1, <2>2
  <1>e. frames \in Seq(Seq(ToSet(stream))) /\ Len(frames) = 0
    BY <1>2
  <1>3. PICK c : c = [i \in 1 .. 1 |-> 0]
    OBVIOUS
  <1>4. FramesRead(c) /\ c[Len(frames) + 1] = 0
    BY <1>2, <1>3, <1>e DEF FramesRead
  <1>5. HeaderRead(0, 0, Fresh)
    BY <1>1, FreshStands
  <1>6. Standing(c, 0, 0, Fresh)
    BY <1>4, <1>5 DEF Standing, FrameInit
  <1>7. QED
    BY <1>1, <1>2, <1>e, <1>6 DEF FrameInv

\* A call of the decoder.
LEMMA DecodeStands ==
  ASSUME FrameInv, Decode
  PROVE  FrameInv'
  <1>1. PICK c, b, p, at : Standing(c, b, p, at)
    BY DEF FrameInv
  <1>2. PICK call : call = Called
    OBVIOUS
  <1>3. PICK n : n = Len(frames)
    OBVIOUS
  <1>4. /\ IsStream /\ arrived \in 0 .. Len(stream) /\ pos \in 0 .. arrived /\ inputEof \in BOOLEAN
        /\ frames \in Seq(Seq(ToSet(stream))) /\ Len(stream) \in Nat /\ arrived \in Nat /\ pos \in Nat
        /\ n \in Nat
    BY <1>3 DEF FrameInv, IsStream
  <1>5. ended = -1 /\ ~waiting /\ stream' = stream /\ arrived' = arrived /\ inputEof' = inputEof
    BY DEF Decode
  <1>6. /\ decoder' = call.at /\ pos' = call.pos
        /\ frames' = IF call.result = 1 THEN Append(frames, call.frame) ELSE frames
        /\ waiting' = (call.result = 2)
        /\ ended' = IF call.result = 0 THEN 0 ELSE IF call.result < 0 THEN 1 ELSE -1
    BY <1>2 DEF Decode
  <1>7. /\ FramesRead(c) /\ b = c[n + 1]
        /\ HeaderRead(b, pos, decoder) \/ BodyRead(b, pos, decoder)
    BY <1>1, <1>3, <1>5 DEF Standing
  <1>8. b \in Nat /\ b <= pos
    <2>1. n + 1 \in 1 .. Len(frames) + 1
      BY <1>3, <1>4
    <2>2. b \in 0 .. pos
      BY <1>7, <2>1 DEF FramesRead
    <2>3. QED
      BY <1>4, <2>2
  <1>9. /\ call.pos \in pos .. arrived
        /\ \/ /\ call.result = 2 /\ ~ inputEof /\ call.pos = arrived
              /\ HeaderRead(b, arrived, call.at) \/ BodyRead(b, arrived, call.at)
           \/ /\ call.result = 1 /\ call.at = Fresh
              /\ \E mid \in b + 1 .. call.pos :
                    /\ Framed(b, mid, call.pos)
                    /\ call.frame = SubSeq(stream, mid + 1, call.pos)
           \/ call.result = -1 /\ b < arrived /\ FrameAfter(b) = {}
           \/ call.result \in {-2, -3} /\ inputEof /\ b < arrived /\ FrameAfter(b) = {}
           \/ call.result = 0 /\ inputEof /\ b = arrived /\ FrameAfter(b) = {}
    BY <1>2, <1>4, <1>7, <1>8, CallFinds
  <1>10. PICK q : q = call.pos
    OBVIOUS
  <1>11. /\ IsStream' /\ arrived' \in 0 .. Len(stream') /\ pos' \in 0 .. arrived' /\ inputEof' \in BOOLEAN
         /\ q \in Nat /\ pos <= q /\ q <= arrived
    BY <1>4, <1>5, <1>6, <1>9, <1>10 DEF IsStream
  <1>12. ToSet(stream') = ToSet(stream)
    BY <1>5
  <1>13. FrameAfter(b)' = FrameAfter(b)
    BY <1>5, CompleteStays
  <1>14. ASSUME call.result # 1
         PROVE  frames' = frames /\ FramesRead(c)' /\ b = c[Len(frames') + 1]
    <2>1. frames' = frames
      BY <1>6, <1>14
    <2>2. \A x, m, t : Framed(x, m, t)' <=> Framed(x, m, t)
      BY <1>5, StreamStays
    <2>3. \A i \in 1 .. Len(frames) + 1 : c[i] \in 0 .. pos'
      BY <1>4, <1>6, <1>7, <1>10, <1>11 DEF FramesRead
    <2>4. FramesRead(c)'
      BY <1>5, <1>7, <2>1, <2>2, <2>3 DEF FramesRead
    <2>5. QED
      BY <1>3, <1>7, <2>1, <2>4
  <1>15. CASE call.result = 2
    <2>1. ended' = -1 /\ waiting' = TRUE
      <3>1. ended' = -1
        BY <1>6, <1>15
      <3>2. waiting' = TRUE
        BY ONLY <1>6, <1>15
      <3>3. QED
        BY <3>1, <3>2
    <2>2. HeaderRead(b, q, call.at) \/ BodyRead(b, q, call.at)
      BY <1>9, <1>10, <1>15
    <2>3. HeaderRead(b, q, call.at)' \/ BodyRead(b, q, call.at)'
      BY <1>5, <2>2, StreamStays
    <2>4. FrameAfter(b)' = {}
      <3>1. HeaderRead(b, arrived, call.at) \/ BodyRead(b, arrived, call.at)
        BY <1>9, <1>15
      <3>2. b <= arrived
        BY <1>4, <1>8
      <3>3. FrameAfter(b) = {}
        BY <1>4, <1>8, <3>1, <3>2, NothingComplete
      <3>4. QED
        BY <1>13, <3>3
    <2>5. Standing(c, b, q, call.at)'
      BY <1>6, <1>10, <1>14, <1>15, <2>1, <2>3, <2>4 DEF Standing
    <2>6. QED
      BY <1>4, <1>11, <1>12, <1>14, <1>15, <2>1, <2>5 DEF FrameInv
  <1>16. CASE call.result = 1
    <2>1. ended' = -1 /\ waiting' = FALSE /\ frames' = Append(frames, call.frame)
      <3>1. ended' = -1 /\ frames' = Append(frames, call.frame)
        BY <1>6, <1>16
      <3>2. call.result # 2
        BY <1>16
      <3>3. waiting' = FALSE
        BY ONLY <1>6, <3>2
      <3>4. QED
        BY <3>1, <3>3
    <2>2. PICK mid \in b + 1 .. q : Framed(b, mid, q) /\ call.frame = SubSeq(stream, mid + 1, q)
      BY <1>9, <1>10, <1>16
    <2>3. PICK piece : piece = call.frame
      OBVIOUS
    <2>4. piece \in Seq(ToSet(stream))
      <3>1. mid + 1 \in 1 .. Len(stream) + 1 /\ mid + 1 \in Nat
        BY <1>4, <1>8, <1>11
      <3>2. SubSeq(stream, mid + 1, q) \in Seq(ToSet(stream))
        BY <1>4, <1>11, <3>1 DEF IsStream
      <3>3. QED
        BY <2>2, <2>3, <3>2
    <2>5. PICK d : FramesRead(d)' /\ d[Len(frames') + 1] = q
      BY <1>3, <1>4, <1>5, <1>6, <1>7, <1>8, <1>10, <1>11, <2>1, <2>2, <2>3, <2>4, OneMoreFrame
    <2>6. HeaderRead(q, q, Fresh)'
      BY <1>4, <1>5, <1>11, FreshStands, StreamStays
    <2>7. Standing(d, q, q, Fresh)'
      BY <1>6, <1>9, <1>10, <1>16, <2>1, <2>5, <2>6 DEF Standing
    <2>8. frames' \in Seq(Seq(ToSet(stream')))
      BY <1>4, <1>12, <2>1, <2>3, <2>4
    <2>9. QED
      BY <1>11, <2>1, <2>7, <2>8 DEF FrameInv
  <1>17. CASE call.result \notin {1, 2}
    <2>1. /\ FrameAfter(b) = {} /\ waiting' = FALSE
          /\ \/ ended' = 0 /\ inputEof /\ b = arrived
             \/ ended' = 1 /\ b < arrived
      <3>1. waiting' = FALSE
        BY ONLY <1>6, <1>17
      <3>2. /\ FrameAfter(b) = {}
            /\ \/ ended' = 0 /\ inputEof /\ b = arrived
               \/ ended' = 1 /\ b < arrived
        BY <1>6, <1>9, <1>17
      <3>3. QED
        BY <3>1, <3>2
    <2>2. Standing(c, b, q, call.at)'
      BY <1>5, <1>6, <1>10, <1>13, <1>14, <1>17, <2>1 DEF Standing
    <2>3. QED
      BY <1>4, <1>11, <1>12, <1>14, <1>17, <2>1, <2>2 DEF FrameInv
  <1>18. QED
    BY <1>15, <1>16, <1>17

\* A step that reads nothing, when more may have arrived or the end has come.
LEMMA WaitStands ==
  ASSUME FrameInv, UNCHANGED <<stream, pos, decoder, frames>>, ended = -1,
         arrived' \in arrived .. Len(stream), inputEof' \in BOOLEAN, waiting' \in BOOLEAN,
         \/ waiting' = FALSE /\ ended' = -1
         \/ arrived' = arrived /\ waiting /\ waiting' = waiting /\ ended' = 1
  PROVE  FrameInv'
  <1>1. PICK c, b, p, at : Standing(c, b, p, at)
    BY DEF FrameInv
  <1>2. /\ arrived \in 0 .. Len(stream) /\ pos \in 0 .. arrived /\ Len(stream) \in Nat
        /\ frames \in Seq(Seq(ToSet(stream))) /\ IsStream
    BY DEF FrameInv, IsStream
  <1>3. /\ IsStream' /\ arrived' \in 0 .. Len(stream') /\ pos' \in 0 .. arrived'
        /\ inputEof' \in BOOLEAN /\ waiting' \in BOOLEAN /\ ended' \in {-1, 0, 1}
    BY <1>2 DEF IsStream
  <1>4. ToSet(stream') = ToSet(stream)
    OBVIOUS
  <1>5. frames' \in Seq(Seq(ToSet(stream')))
    BY <1>2, <1>4
  <1>6. FramesRead(c)' /\ b = c[Len(frames') + 1]
    <2>1. \A x, m, t : Framed(x, m, t)' <=> Framed(x, m, t)
      BY StreamStays
    <2>2. FramesRead(c) /\ b = c[Len(frames) + 1]
      BY <1>1 DEF Standing
    <2>3. QED
      BY <2>1, <2>2 DEF FramesRead
  <1>7. HeaderRead(b, p, at)' \/ BodyRead(b, p, at)'
    BY <1>1, StreamStays DEF Standing
  <1>8. p = pos' /\ at = decoder'
    BY <1>1 DEF Standing
  <1>9. Standing(c, b, p, at)'
    <2>1. CASE waiting' = FALSE /\ ended' = -1
      BY <1>6, <1>7, <1>8, <2>1 DEF Standing
    <2>2. CASE arrived' = arrived /\ waiting /\ waiting' = waiting /\ ended' = 1
      <3>1. FrameAfter(b)' = FrameAfter(b)
        BY <2>2, CompleteStays
      <3>2. FrameAfter(b) = {}
        BY <1>1, <2>2 DEF Standing
      <3>3. QED
        BY <1>6, <1>8, <2>2, <3>1, <3>2 DEF Standing
    <2>3. QED
      BY <2>1, <2>2
  <1>10. QED
    BY <1>3, <1>5, <1>9 DEF FrameInv

LEMMA FrameStep ==
  FrameInv /\ [FrameNext]_frameVars => FrameInv'
  <1> SUFFICES ASSUME FrameInv, [FrameNext]_frameVars
               PROVE  FrameInv'
    OBVIOUS
  <1>1. arrived \in 0 .. Len(stream) /\ inputEof \in BOOLEAN /\ waiting \in BOOLEAN /\ Len(stream) \in Nat
    BY DEF FrameInv, IsStream
  <1>2. CASE Decode
    BY <1>2, DecodeStands
  <1>3. CASE Receive
    <2>1. arrived' \in arrived .. Len(stream)
      BY <1>1, <1>3 DEF Receive
    <2>2. QED
      BY <1>1, <1>3, <2>1, WaitStands DEF Receive
  <1>4. CASE InputEnds
    <2>1. arrived' \in arrived .. Len(stream)
      BY <1>1, <1>4 DEF InputEnds
    <2>2. QED
      BY <1>1, <1>4, <2>1, WaitStands DEF InputEnds
  <1>5. CASE InputFails
    <2>1. arrived' \in arrived .. Len(stream)
      BY <1>1, <1>5 DEF InputFails
    <2>2. QED
      BY <1>1, <1>5, <2>1, WaitStands DEF InputFails
  <1>6. CASE WorkerWakes
    <2>1. arrived' \in arrived .. Len(stream)
      BY <1>1, <1>6 DEF WorkerWakes
    <2>2. QED
      BY <1>1, <1>6, <2>1, WaitStands DEF WorkerWakes
  <1>7. CASE UNCHANGED frameVars
    <2>1. PICK c, b, p, at : Standing(c, b, p, at)
      BY DEF FrameInv
    <2>2. Standing(c, b, p, at)'
      <3>1. /\ \A x, m, t : Framed(x, m, t)' <=> Framed(x, m, t)
            /\ HeaderRead(b, p, at)' <=> HeaderRead(b, p, at)
            /\ BodyRead(b, p, at)' <=> BodyRead(b, p, at)
        BY <1>7, StreamStays DEF frameVars
      <3>2. FrameAfter(b)' = FrameAfter(b)
        BY <1>7, CompleteStays DEF frameVars
      <3>3. QED
        BY <1>7, <2>1, <3>1, <3>2 DEF Standing, FramesRead, frameVars
    <2>3. ToSet(stream') = ToSet(stream)
      BY <1>7 DEF frameVars
    <2>4. frames' \in Seq(Seq(ToSet(stream')))
      BY <1>7, <2>3 DEF FrameInv, frameVars
    <2>5. QED
      BY <1>7, <2>2, <2>4 DEF FrameInv, IsStream, frameVars
  <1>8. QED
    BY <1>2, <1>3, <1>4, <1>5, <1>6, <1>7 DEF FrameNext

\* Each time the server waits, and when it ends, it has dispatched exactly the
\* frames that are complete in what has arrived (frame_decoder_step,
\* src/main.elisa): whatever the client sends, wherever the pieces end that it
\* arrives in, and whatever the three limits are.
THEOREM FramesAreRight ==
  FrameSpec => []FramesAreTheStream
  <1>1. FrameInv => FramesAreTheStream
    <2> SUFFICES ASSUME FrameInv, waiting \/ ended # -1
                 PROVE  LET complete == Complete
                        IN /\ frames = complete.frames
                           /\ ended = 0 => inputEof /\ complete.end = arrived
                           /\ ended = 1 /\ ~waiting /\ inputEof => complete.end < arrived
      BY DEF FramesAreTheStream
    <2>1. PICK c, b, p, at : Standing(c, b, p, at)
      BY DEF FrameInv
    <2>2. /\ FramesRead(c) /\ b = c[Len(frames) + 1] /\ FrameAfter(b) = {}
          /\ ended = 0 => inputEof /\ b = arrived
          /\ ended = 1 /\ ~waiting /\ inputEof => b < arrived
      BY <2>1 DEF Standing
    <2>3. Complete = [frames |-> frames, end |-> b]
      BY <2>2, CutsAreComplete DEF FrameInv
    <2>4. PICK complete : complete = Complete
      OBVIOUS
    <2>5. complete.frames = frames /\ complete.end = b
      BY <2>3, <2>4
    <2>6. QED
      BY <2>2, <2>4, <2>5
  <1>2. QED
    BY FrameBegins, FrameStep, <1>1, PTL DEF FrameSpec

=============================================================================
