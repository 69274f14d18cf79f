---------------------------- MODULE OutputTransport ----------------------------
(***************************************************************************)
(* The output of the server: frames written to a client that may stop      *)
(* reading, under one deadline for each frame, with stdout nonblocking     *)
(* while a frame is written, and the latch after which nothing is written  *)
(* any more (src/transport_posix.c, send_message in src/main.elisa).       *)
(*                                                                         *)
(* What a handler sends is reduced to a number of messages, and the        *)
(* documents to how many are queued for analysis and whether a worker runs *)
(* (AnalysisScheduler has them).  The handlers that end the session are    *)
(* told apart, for the status it ends with.                                *)
(***************************************************************************)
EXTENDS Integers

CONSTANTS
    HeaderSize,  \* bytes of "Content-Length: N" with its line ends
    MaxBody,     \* bound: bytes of a body
    PipeSize,    \* bytes the kernel holds between server and client
    MaxDeferred, \* bound: requests deferred at one time
    MaxQueued    \* bound: documents queued for analysis at one time

ASSUME OutputAssumption ==
    /\ HeaderSize \in Nat \ {0}
    /\ MaxBody \in Nat \ {0} /\ PipeSize \in Nat
    /\ MaxDeferred \in Nat /\ MaxQueued \in Nat

VARIABLES
    pc,       \* where the server is
    after,    \* where it goes once it has sent what it has to send
    todo,     \* messages still to send
    deferred, \* requests that wait for an analysis
    queued,   \* documents queued for analysis
    busy,     \* worker_runtime.active
    eof,      \* lsp_transport_input_eof
    shut,     \* shutdown was accepted
    status,   \* what the session ends with, or "none"
    failed,   \* lsp_transport_output_failed
    frame,    \* output_frame_fd is set
    saved,    \* O_NONBLOCK in output_frame_flags
    mode,     \* O_NONBLOCK of stdout
    late,     \* output_frame_deadline has passed
    body,     \* bytes of the body of the frame
    part,     \* the part of the frame that is written
    left,     \* bytes of that part still to write
    partial,  \* bytes the client was sent of a frame that is not complete
    pipe,     \* bytes the client has not read
    closed,   \* the client has closed its end
    signal,   \* pending_termination_signal # 0
    given     \* O_NONBLOCK of stdout when the server was started

work    == <<queued, busy>>
ending  == <<eof, shut, status>>
session == <<deferred, work, ending>>
fd      == <<frame, saved, mode, late>>
writing == <<body, part, left, partial>>
world   == <<pipe, closed, signal, given>>
vars == <<pc, after, todo, session, failed, fd, writing, world>>

TypeOK ==
    /\ pc \in {"turn", "start", "message", "idle", "send", "write", "wait",
               "select", "end", "leave", "stopped"}
    /\ after \in {"turn", "start", "leave"}
    /\ todo \in 0 .. MaxDeferred + 1
    /\ deferred \in 0 .. MaxDeferred
    /\ queued \in 0 .. MaxQueued
    /\ status \in {"none", "ok", "failure", "signal"}
    /\ busy \in BOOLEAN /\ eof \in BOOLEAN /\ shut \in BOOLEAN
    /\ failed \in BOOLEAN /\ frame \in BOOLEAN
    /\ saved \in BOOLEAN /\ mode \in BOOLEAN /\ late \in BOOLEAN
    /\ closed \in BOOLEAN /\ signal \in BOOLEAN /\ given \in BOOLEAN
    /\ body \in 0 .. MaxBody
    /\ part \in {"header", "body"}
    /\ left \in 0 .. HeaderSize + MaxBody
    /\ partial \in 0 .. HeaderSize + MaxBody
    /\ pipe \in 0 .. PipeSize

Init ==
    /\ pc = "turn" /\ after = "turn" /\ todo = 0
    /\ deferred = 0 /\ queued = 0 /\ busy = FALSE
    /\ eof = FALSE /\ shut = FALSE /\ status = "none"
    /\ failed = FALSE
    /\ given \in BOOLEAN
    /\ frame = FALSE /\ saved = FALSE /\ mode = given /\ late = FALSE
    /\ body = 0 /\ part = "header" /\ left = 0 /\ partial = 0
    /\ pipe = 0 /\ closed = FALSE /\ signal = FALSE

-----------------------------------------------------------------------------
(***************************************************************************)
(* The turn of main(): the latch, the start of the next analysis, one      *)
(* message or the wait for one.                                            *)
(***************************************************************************)

quiet == UNCHANGED <<failed, fd, writing, world>>

\* What ends in "where" after the messages are sent.
SendThen(messages, where) ==
    pc' = "send" /\ todo' = messages /\ after' = where

\* Mutant: the latch is not looked at.
MustStopOnSignal == signal

MustStop == signal \/ failed

Turn ==
    /\ pc = "turn"
    /\ IF MustStop THEN /\ pc' = "leave"
                        /\ status' = IF signal THEN "signal" ELSE "failure"
       ELSE pc' = "start" /\ UNCHANGED status
    /\ UNCHANGED <<after, todo, deferred, work, eof, shut>> /\ quiet

\* Mutant: one document is tried, not one after the other.
StartsOnce == after = "start" \/ busy \/ queued = 0 \/ shut

NothingToStart == busy \/ queued = 0 \/ shut

\* analysis_worker_start_next_pending
StartNone ==
    /\ pc = "start"
    /\ NothingToStart
    /\ pc' = "message" /\ after' = "turn"
    /\ UNCHANGED <<todo, session>> /\ quiet

StartWorker ==
    /\ pc = "start"
    /\ ~ NothingToStart
    /\ busy' = TRUE /\ queued' = queued - 1
    /\ UNCHANGED <<pc, after, todo, deferred, ending>> /\ quiet

\* The document is marked failed; the latch is not looked at again.
StartFails ==
    /\ pc = "start"
    /\ ~ NothingToStart
    /\ queued' = queued - 1
    /\ SendThen(IF signal THEN 0 ELSE 1, "start")
    /\ UNCHANGED <<deferred, busy, ending>> /\ quiet

Interrupted ==
    /\ pc = "message"
    /\ signal
    /\ pc' = "leave" /\ status' = "signal"
    /\ UNCHANGED <<after, todo, deferred, work, eof, shut>> /\ quiet

Message ==
    /\ pc = "message"
    /\ ~ signal /\ ~ eof

\* Scheduling as AnalysisScheduler has it, seen from here.
Reschedule == queued' \in 0 .. MaxQueued /\ busy' \in {busy, FALSE}

\* A handler answers at once, publishes, or settles deferred requests.
Handle(settled, others) ==
    /\ Message
    /\ SendThen(settled + others, "turn")
    /\ deferred' = deferred - settled
    /\ Reschedule
    /\ UNCHANGED ending /\ quiet

Defer ==
    /\ Message
    /\ ~ shut
    /\ deferred < MaxDeferred
    /\ deferred' = deferred + 1
    /\ pc' = "turn"
    /\ UNCHANGED <<after, todo, work, ending>> /\ quiet

\* Mutant: the response is sent before the requests are cancelled, and again.
ShutdownAnswersTwice ==
    /\ Message
    /\ ~ shut
    /\ SendThen(deferred + 2, "turn")
    /\ deferred' = 0 /\ shut' = TRUE /\ busy' = FALSE
    /\ UNCHANGED <<queued, eof, status>> /\ quiet

\* pending_analysis_requests_cancel_all, and the response to shutdown.
Shutdown ==
    /\ Message
    /\ ~ shut
    /\ SendThen(deferred + 1, "turn")
    /\ deferred' = 0 /\ shut' = TRUE /\ busy' = FALSE
    /\ UNCHANGED <<queued, eof, status>> /\ quiet

\* The session ends with this handler, after what it sends.
Exit ==
    /\ Message
    /\ SendThen(deferred, "leave")
    /\ deferred' = 0
    /\ status' = IF shut THEN "ok" ELSE "failure"
    /\ UNCHANGED <<work, eof, shut>> /\ quiet

\* Clean, or within a frame.
EndOfInput ==
    /\ pc = "message"
    /\ ~ signal /\ eof
    /\ pc' = "leave"
    /\ status' \in {"ok", "failure"}
    /\ UNCHANGED <<after, todo, deferred, work, eof, shut>> /\ quiet

\* No message is complete: elisa_lsp_analysis_worker_wait_event.
WaitInput ==
    /\ Message
    /\ pc' = "idle"
    /\ UNCHANGED <<after, todo, session>> /\ quiet

Input ==
    /\ pc = "idle"
    /\ pc' = "turn"
    /\ eof' \in BOOLEAN
    /\ UNCHANGED <<after, todo, deferred, work, shut, status>> /\ quiet

\* analysis_worker_process_events; an event need not end the worker.
WorkerEvent(messages) ==
    /\ pc = "idle"
    /\ busy
    /\ busy' \in {FALSE, messages = 0}
    /\ SendThen(messages, "turn")
    /\ UNCHANGED <<deferred, queued, ending>> /\ quiet

\* The wait or the read fails, or the signal is seen: WorkerProcess tells when
\* it need not be, so nothing here makes it certain.
WaitEnds ==
    /\ pc = "idle"
    /\ pc' = "leave"
    /\ status' = IF signal THEN "signal" ELSE "failure"
    /\ UNCHANGED <<after, todo, deferred, work, eof, shut>> /\ quiet

Process ==
    \/ Interrupted \/ Defer \/ Shutdown \/ Exit \/ EndOfInput \/ WaitInput
    \/ \E settled \in 0 .. deferred, others \in {0, 1} : Handle(settled, others)

-----------------------------------------------------------------------------
(***************************************************************************)
(* send_message and send_message_span.                                     *)
(***************************************************************************)

HandlerEnds ==
    /\ pc = "send"
    /\ todo = 0
    /\ pc' = after
    /\ UNCHANGED <<after, todo, session>> /\ quiet

\* Mutant: a message is sent whatever became of the one before.
MaySendAlways == TRUE

MaySend == ~ failed

SendsNothing ==
    /\ pc = "send"
    /\ todo > 0
    /\ ~ MaySend
    /\ todo' = todo - 1
    /\ UNCHANGED <<pc, after, session>> /\ quiet

\* elisa_lsp_output_begin
Begin(size) ==
    /\ pc = "send"
    /\ todo > 0
    /\ MaySend
    /\ ~ frame
    /\ frame' = TRUE /\ saved' = mode /\ mode' = TRUE /\ late' = FALSE
    /\ body' = size /\ part' = "header" /\ left' = HeaderSize
    /\ pc' = "write"
    /\ UNCHANGED <<after, todo, session, failed, partial, world>>

\* fcntl or the clock fails, there is a frame (EBUSY), or send_message_span is
\* given a span that is not in the packet.
BeginFails ==
    /\ pc = "send"
    /\ todo > 0
    /\ MaySend
    /\ failed' = TRUE
    /\ todo' = todo - 1
    /\ UNCHANGED <<pc, after, session, fd, writing, world>>

\* Mutant: stdout is always made blocking again.
Blocking == FALSE

ModeBefore == saved

\* elisa_lsp_output_end
End ==
    /\ pc = "end"
    /\ \/ frame' = FALSE /\ mode' = ModeBefore /\ UNCHANGED failed
       \/ failed' = TRUE /\ UNCHANGED <<frame, mode>>
    /\ pc' = "send"
    /\ todo' = todo - 1
    /\ UNCHANGED <<after, session, saved, late, writing, world>>

-----------------------------------------------------------------------------
(***************************************************************************)
(* elisa_lsp_write_all, write_retry and wait_stdout_writable.              *)
(***************************************************************************)

Undisturbed == ~ signal /\ ~ late

Gives == failed' = TRUE /\ pc' = "end"

PartDone ==
    /\ pc = "write"
    /\ left = 0
    /\ IF part = "header" THEN part' = "body" /\ left' = body /\ UNCHANGED pc
       ELSE pc' = "end" /\ UNCHANGED <<part, left>>
    /\ UNCHANGED <<after, todo, session, failed, fd, body, partial, world>>

WriteSome(n) ==
    /\ pc = "write"
    /\ Undisturbed
    /\ ~ closed
    /\ n <= left /\ pipe + n <= PipeSize
    /\ left' = left - n
    /\ partial' = IF partial + n = HeaderSize + body THEN 0 ELSE partial + n
    /\ pipe' = pipe + n
    /\ UNCHANGED <<pc, after, todo, session, failed, fd, body, part>>
    /\ UNCHANGED <<closed, signal, given>>

WouldBlock ==
    /\ pc = "write"
    /\ left > 0
    /\ Undisturbed
    /\ ~ closed
    /\ pipe = PipeSize
    /\ pc' = "wait"
    /\ UNCHANGED <<after, todo, session, failed, fd, writing, world>>

\* A signal, the deadline, a client that has closed, an I/O error.
WriteFails ==
    /\ pc = "write"
    /\ left > 0
    /\ Gives
    /\ UNCHANGED <<after, todo, session, fd, writing, world>>

Wait ==
    /\ pc = "wait"
    /\ IF Undisturbed THEN pc' = "select" /\ UNCHANGED failed ELSE Gives
    /\ UNCHANGED <<after, todo, session, fd, writing, world>>

Writable ==
    /\ pc = "select"
    /\ pipe < PipeSize \/ closed
    /\ IF signal THEN Gives ELSE pc' = "write" /\ UNCHANGED failed
    /\ UNCHANGED <<after, todo, session, fd, writing, world>>

\* Mutant: pselect has no timeout.
NeverExpires == FALSE

Expires == late

SelectExpires ==
    /\ pc = "select"
    /\ Expires
    /\ Gives
    /\ UNCHANGED <<after, todo, session, fd, writing, world>>

\* transport_finish, which restores what a failed output_end has left.
Leave ==
    /\ pc = "leave"
    /\ \/ /\ frame' = FALSE
          /\ mode' = IF frame THEN ModeBefore ELSE mode
          /\ status' \in {IF signal THEN "signal" ELSE status, "failure"}
       \/ status' = "failure" /\ UNCHANGED <<frame, mode>>
    /\ pc' = "stopped"
    /\ UNCHANGED <<after, todo, deferred, work, eof, shut, failed>>
    /\ UNCHANGED <<saved, late, writing, world>>

-----------------------------------------------------------------------------
ClientReads ==
    /\ pipe > 0
    /\ pipe' = pipe - 1
    /\ UNCHANGED <<pc, after, todo, session, failed, fd, writing, closed, signal, given>>

ClientCloses ==
    /\ ~ closed
    /\ closed' = TRUE
    /\ UNCHANGED <<pc, after, todo, session, failed, fd, writing, pipe, signal, given>>

\* record_termination_signal; it interrupts a pselect that is under way, not
\* one that is about to be called.
Signal ==
    /\ ~ signal
    /\ pc # "stopped"
    /\ signal' = TRUE
    /\ \/ pc = "select" /\ Gives
       \/ UNCHANGED <<pc, failed>>
    /\ UNCHANGED <<after, todo, session, fd, writing, pipe, closed, given>>

Tick ==
    /\ frame /\ ~ late
    /\ late' = TRUE
    /\ UNCHANGED <<pc, after, todo, session, failed, frame, saved, mode, writing, world>>

Send ==
    \/ HandlerEnds \/ SendsNothing \/ BeginFails \/ End
    \/ \E size \in 1 .. MaxBody : Begin(size)

Write ==
    \/ PartDone \/ WouldBlock \/ WriteFails \/ Wait \/ Writable \/ SelectExpires
    \/ \E n \in 1 .. left : WriteSome(n)

Server ==
    \/ Turn \/ StartNone \/ StartWorker \/ StartFails \/ Process
    \/ Send \/ Write \/ Leave
    \/ \E messages \in {0, 1} : WorkerEvent(messages)

Environment ==
    Input \/ WaitEnds \/ ClientReads \/ ClientCloses \/ Signal

Stopped == pc = "stopped" /\ UNCHANGED vars

Next == Server \/ Environment \/ Tick \/ Stopped

Spec == Init /\ [][Next]_vars

\* The server runs, a worker ends at its deadline and time passes; the client
\* need not read or send.
Fairness == WF_vars(Server) /\ WF_vars(Tick)

FairSpec == Spec /\ Fairness

-----------------------------------------------------------------------------
(***************************************************************************)
(* Properties.                                                             *)
(***************************************************************************)

\* The client can cut what it reads into frames: no frame begins within another
\* one that was given up (docs/development.md: "the server does not attempt to
\* continue with another frame").
StreamIsFramed ==
    pc = "write" /\ part = "header" /\ left = HeaderSize => partial = 0

\* A session that ends with status 0 has written every frame whole and leaves
\* stdout as it found it ("a controlled nonzero server exit").
ZeroMeansWhole ==
    pc = "stopped" /\ status = "ok" => partial = 0 /\ ~ failed /\ mode = given

\* Outside a frame stdout is in the mode the server was started with, and while
\* the output has not failed there is a frame only while one is written.
ModeIsRestored ==
    /\ ~ frame => mode = given
    /\ frame /\ ~ failed => pc \in {"write", "wait", "select", "end"}

\* A handler that waits for the client to read goes on when there is room or
\* ends the server at the deadline of the frame, whatever it had still to send.
BlockedHandlerEnds ==
    pc = "select" /\ after # "start" ~> pc \in {"write", "stopped"}

\* A signal that comes while a frame is written ends the server.
SignalEndsFrame ==
    signal /\ pc \in {"write", "wait", "select", "end"} ~> pc = "stopped"

\* docs/development.md: "A stalled client causes a controlled nonzero server
\* exit when the deadline expires."
StalledClientEndsServer ==
    pc = "select" ~> pc \in {"write", "stopped"} \/ signal \/ closed

=============================================================================
