------------------------------ MODULE FrameDecoder ------------------------------
(***************************************************************************)
(* The input of the server: frame_decoder_step in src/main.elisa, called   *)
(* in every turn on the bytes that have arrived, with the state it keeps   *)
(* from one turn to the next.  The client's bytes arrive in pieces that    *)
(* end anywhere, and the stream may end, or reading may fail, at any byte. *)
(*                                                                         *)
(* A stream is a sequence of characters: the two of a line end, "x", and   *)
(* one for the text of each header field the decoder tells apart.          *)
(***************************************************************************)
EXTENDS Integers, Sequences, FiniteSets, SequencesExt

CONSTANTS
    Streams,        \* bound: what a client may send
    MaxHeaderBytes, \* max_header_bytes
    MaxHeaderLines, \* max_header_lines, the empty line included
    MaxBodyBytes    \* max_body_bytes

ASSUME FrameAssumption ==
    /\ \A s \in Streams : s \in Seq(ToSet(s))
    /\ MaxHeaderBytes \in Nat /\ MaxHeaderLines \in Nat /\ MaxBodyBytes \in Nat

\* content_length_of: the fields that declare a length.
Lengths == [L0 |-> 0, L1 |-> 1, L2 |-> 2, L3 |-> 3]
LengthOf(field) == IF field \in DOMAIN Lengths THEN Lengths[field] ELSE -1

\* Fields that are read only once, with a value the server supports, and
\* fields that pass.  Every other line is refused: no name, a length that is
\* no number, another charset or encoding, a character that is not visible.
Types == {"type"}
Encodings == {"encoding"}
Accepted == DOMAIN Lengths \cup Types \cup Encodings \cup {"other"}

\* header_line_valid and what the three named fields may hold; a field the
\* decoder does not know may be of any length.
AcceptedLine(text) ==
    /\ text[1] \in Accepted
    /\ \A i \in 2 .. Len(text) : text[1] = "other" /\ text[i] = "x"

VARIABLES
    stream,  \* all the client will send
    arrived, \* how much of it the server has read
    pos,     \* how much of that the decoder has consumed
    inputEof,     \* lsp_transport_input_eof
    decoder, \* LspFrameDecoder
    frames,  \* the bodies handed to the dispatcher
    waiting, \* the server waits for an event
    ended    \* the exit status, -1 while the session lasts

frameVars == <<stream, arrived, pos, inputEof, decoder, frames, waiting, ended>>

\* frame_decoder_reset
Fresh == [phase |-> "header", line |-> <<>>, body |-> <<>>, bytes |-> 0, lines |-> 0,
          length |-> -1, remaining |-> 0, typed |-> FALSE, encoded |-> FALSE]

FrameInit ==
    /\ stream \in Streams
    /\ arrived = 0 /\ pos = 0 /\ inputEof = FALSE
    /\ decoder = Fresh /\ frames = <<>>
    /\ waiting = FALSE /\ ended = -1

(***************************************************************************)
(* The header.  A call is the state "at" of the decoder, the position, and *)
(* the result, which is 2 as long as the call goes on.                     *)
(***************************************************************************)
Refuse(call) == [call EXCEPT !.result = -1]

\* Mutant: the line is kept from the line before.
KeptLine(at, field) ==
    [at EXCEPT !.length = IF LengthOf(field) >= 0 THEN LengthOf(field) ELSE @,
               !.typed = @ \/ field \in Types,
               !.encoded = @ \/ field \in Encodings]

\* What a line that is accepted leaves behind.
AfterField(at, field) ==
    [at EXCEPT !.line = <<>>,
               !.length = IF LengthOf(field) >= 0 THEN LengthOf(field) ELSE @,
               !.typed = @ \/ field \in Types,
               !.encoded = @ \/ field \in Encodings]

Contradicts(at, field) ==
    \/ at.length >= 0 /\ LengthOf(field) \notin {-1, at.length}
    \/ at.typed /\ field \in Types
    \/ at.encoded /\ field \in Encodings

\* The line before an LF that is not the first line end in a row.
FieldLine(call, text) ==
    IF ~AcceptedLine(text) \/ Contradicts(call.at, text[1])
    THEN Refuse(call)
    ELSE [call EXCEPT !.at = AfterField(@, text[1])]

\* The empty line: the body follows, and a body of no bytes is complete.
EmptyLine(call) ==
    IF call.at.length \notin 0 .. MaxBodyBytes THEN Refuse(call)
    ELSE IF call.at.length = 0
    THEN [call EXCEPT !.at = Fresh, !.result = 1, !.frame = <<>>]
    ELSE [call EXCEPT !.at.phase = "body", !.at.remaining = call.at.length,
                      !.at.line = <<>>]

EndLine(call) ==
    LET line == call.at.line
    IN IF line = <<>> \/ Last(line) # "\r" \/ call.at.lines >= MaxHeaderLines
       THEN Refuse(call)
       ELSE LET counted == [call EXCEPT !.at.lines = @ + 1]
            IN IF Len(line) = 1 THEN EmptyLine(counted)
               ELSE FieldLine(counted, Front(line))

HeaderByte(call, b) ==
    IF call.result # 2 \/ call.at.phase = "body" THEN call
    ELSE LET read == [call EXCEPT !.pos = @ + 1, !.at.bytes = @ + 1]
         IN IF read.at.bytes > MaxHeaderBytes THEN Refuse(read)
            ELSE IF b = "\n" THEN EndLine(read)
            ELSE [read EXCEPT !.at.line = Append(@, b)]

(***************************************************************************)
(* The body, and the whole call.                                           *)
(***************************************************************************)
TakeBody(call) ==
    LET available == arrived - call.pos
        take == IF available < call.at.remaining THEN available ELSE call.at.remaining
        body == call.at.body \o SubSeq(stream, call.pos + 1, call.pos + take)
    IN IF take = call.at.remaining
       THEN [call EXCEPT !.pos = @ + take, !.at = Fresh, !.result = 1, !.frame = body]
       ELSE [call EXCEPT !.pos = @ + take, !.at.body = body, !.at.remaining = @ - take,
                         !.result = IF inputEof THEN -3 ELSE 2]

Started(at) == at.bytes > 0 \/ at.line # <<>> \/ at.lines > 0

\* frame_decoder_step
Called ==
    LET begun == [at |-> decoder, pos |-> pos, result |-> 2, frame |-> <<>>]
        read == FoldLeft(HeaderByte, begun, SubSeq(stream, pos + 1, arrived))
    IN IF read.result # 2 THEN read
       ELSE IF read.at.phase = "body" THEN TakeBody(read)
       ELSE [read EXCEPT !.result = IF ~inputEof THEN 2 ELSE IF Started(read.at) THEN -2 ELSE 0]

Decode ==
    /\ ended = -1 /\ ~waiting
    /\ LET call == Called
       IN /\ decoder' = call.at /\ pos' = call.pos
          /\ frames' = IF call.result = 1 THEN Append(frames, call.frame) ELSE frames
          /\ waiting' = (call.result = 2)
          /\ ended' = IF call.result = 0 THEN 0 ELSE IF call.result < 0 THEN 1 ELSE -1
    /\ UNCHANGED <<stream, arrived, inputEof>>

\* transport_fill: at least one byte, or the end of the stream, which may
\* come before the client has sent all, or an error.
Receive ==
    /\ ended = -1 /\ waiting /\ ~inputEof
    /\ \E upTo \in arrived + 1 .. Len(stream) : arrived' = upTo
    /\ waiting' = FALSE
    /\ UNCHANGED <<stream, pos, inputEof, decoder, frames, ended>>

InputEnds ==
    /\ ended = -1 /\ waiting /\ ~inputEof
    /\ inputEof' = TRUE /\ waiting' = FALSE
    /\ UNCHANGED <<stream, arrived, pos, decoder, frames, ended>>

InputFails ==
    /\ ended = -1 /\ waiting /\ ~inputEof
    /\ ended' = 1
    /\ UNCHANGED <<stream, arrived, pos, inputEof, decoder, frames, waiting>>

\* The wait ends for another reason, with no byte more.
WorkerWakes ==
    /\ ended = -1 /\ waiting
    /\ waiting' = FALSE
    /\ UNCHANGED <<stream, arrived, pos, inputEof, decoder, frames, ended>>

FrameNext == Decode \/ Receive \/ InputEnds \/ InputFails \/ WorkerWakes

FrameSpec == FrameInit /\ [][FrameNext]_frameVars

(***************************************************************************)
(* The reference: which pieces of what has arrived are frames, from the    *)
(* grammar of a frame alone.                                               *)
(***************************************************************************)
LineEnds(from, to) == {k \in from + 1 .. to : stream[k] = "\n"}

\* The text of the line that ends at k, in a header that begins after from.
TextBefore(from, k) ==
    LET before == LineEnds(from, k - 1)
        first == IF before = {} THEN from + 1 ELSE 1 + CHOOSE j \in before : \A i \in before : i <= j
    IN SubSeq(stream, first, k - 1)

IsHeader(from, to) ==
    LET texts == [k \in LineEnds(from, to) |-> TextBefore(from, k)]
        names == {k \in DOMAIN texts : k < to}
        declared == {LengthOf(texts[k][1]) : k \in names} \ {-1}
        once(S) == Cardinality({k \in names : texts[k][1] \in S}) <= 1
    IN /\ to \in DOMAIN texts /\ texts[to] = <<"\r">>
       /\ \A k \in names : /\ Len(texts[k]) >= 2 /\ Last(texts[k]) = "\r"
                          /\ AcceptedLine(Front(texts[k]))
       /\ Cardinality(declared) = 1 /\ once(Types) /\ once(Encodings)
       /\ to - from <= MaxHeaderBytes /\ Cardinality(DOMAIN texts) <= MaxHeaderLines

\* The frames that begin after from: where the body begins and ends.
FrameAfter(from) ==
    {f \in (from + 1 .. arrived) \X (from + 1 .. arrived) :
        LET mid == f[1]
            to == f[2]
        IN /\ mid <= to /\ to - mid <= MaxBodyBytes /\ IsHeader(from, mid)
           /\ \E k \in LineEnds(from, mid) :
                 LengthOf(TextBefore(from, k)[1]) = to - mid}

Complete ==
    LET after[from \in 0 .. arrived] ==
            IF FrameAfter(from) = {} THEN [frames |-> <<>>, end |-> from]
            ELSE LET f == CHOOSE f \in FrameAfter(from) : TRUE
                     rest == after[f[2]]
                 IN [frames |-> <<SubSeq(stream, f[1] + 1, f[2])>> \o rest.frames,
                     end |-> rest.end]
    IN after[0]

\* Whatever the pieces a stream arrives in, the server has dispatched, each
\* time it waits and when it ends, exactly the frames that are complete in
\* what it has read, in order and byte for byte: none is held back until
\* more arrives, and none is made of the rest of another.  It ends with
\* status 0 only when the stream ended between two frames.
FramesAreTheStream ==
    waiting \/ ended # -1 =>
        LET complete == Complete
        IN /\ frames = complete.frames
           /\ ended = 0 => inputEof /\ complete.end = arrived
           /\ ended = 1 /\ ~waiting /\ inputEof => complete.end < arrived

=============================================================================
