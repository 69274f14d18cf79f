----------------------------- MODULE WorkerProcess -----------------------------
(***************************************************************************)
(* The process boundary of an analysis: the forked child, its pipe, the    *)
(* deadline, the termination signal, and the event loop that drives them   *)
(* (src/analysis_worker_posix.c, and the parts of src/main.elisa that call *)
(* it).  Documents are reduced to their analysis jobs; AnalysisScheduler   *)
(* models the documents, the order in which jobs start and the eviction    *)
(* that can take a queued one back, and reduces the child to its outcome.  *)
(*                                                                         *)
(* Parent, child, clock, signal and client interleave at every point where *)
(* the code makes a system call whose result depends on another of them.   *)
(***************************************************************************)
EXTENDS Integers

CONSTANTS
    MaxJobs,    \* bound: the snapshots accepted in a behaviour
    MaxPacket,  \* MAX_ANALYSIS_PACKET_BYTES
    PipeSize,   \* bytes the kernel holds for a pipe
    MaxFrames,  \* frames one read of TRANSPORT_CHUNK bytes can complete
    None        \* an absent job

Jobs == 1 .. MaxJobs

\* The child refuses payloads above the cap, but its header comes on top.
Sizes == 1 .. MaxPacket + 1

ASSUME WorkerAssumption ==
    /\ MaxJobs \in Nat /\ MaxPacket \in Nat
    /\ PipeSize \in Nat /\ MaxFrames \in Nat
    /\ None \notin Jobs

VARIABLES
    pc,       \* where the parent is
    active,   \* worker_active
    pid,      \* worker_pid: the job whose child it is, or None
    fd,       \* worker_read_fd: the job whose pipe it reads, or None
    eofSeen,  \* worker_eof_seen; runtime.eof_seen is always set along with it
    late,     \* worker_deadline has passed
    victim,   \* the child kill_and_reap is at work on, or None
    after,    \* where the parent goes on after kill_and_reap, or "none"
    running,  \* runtime.active: the job of LspAnalysisWorkerRuntime, or None
    packet,   \* bytes in runtime.packet
    procs,    \* the child process of each job, as the kernel sees it
    signal,   \* pending_termination_signal # 0
    serving,  \* the lifecycle has not reached ShutdownRequested
    jobs,     \* lsp_analysis_job_sequence
    verdict,  \* what became of each job
    frames,   \* complete frames in inbuf
    inputEof  \* lsp_transport_input_eof

handle  == <<active, pid, fd, eofSeen, late>>
reaping == <<victim, after>>
runtime == <<running, packet>>
client  == <<serving, jobs, frames, inputEof>>
vars == <<pc, handle, reaping, runtime, procs, signal, client, verdict>>

Ended == {"committed", "failed", "dropped"}

\* running: may write; closed: has closed the pipe and is about to exit;
\* killed: SIGKILL is on its way; gone: reaped.
Process ==
    [state : {"none", "running", "closed", "killed", "zombie", "gone"},
     size : Sizes \cup {0}, left : Sizes \cup {0}, pipe : 0 .. PipeSize,
     ok : BOOLEAN]

TypeOK ==
    /\ pc \in {"turn", "start", "frame", "check", "arm", "poll", "drain",
               "finish", "fail", "clear", "reap", "kill", "reapKilled",
               "close", "leave", "stopped"}
    /\ active \in BOOLEAN /\ eofSeen \in BOOLEAN /\ late \in BOOLEAN
    /\ signal \in BOOLEAN /\ serving \in BOOLEAN /\ inputEof \in BOOLEAN
    /\ pid \in Jobs \cup {None} /\ fd \in Jobs \cup {None}
    /\ victim \in Jobs \cup {None} /\ running \in Jobs \cup {None}
    /\ after \in {"start", "fail", "clear", "stopped", "none"}
    /\ packet \in 0 .. MaxPacket
    /\ procs \in [Jobs -> Process]
    /\ jobs \in 0 .. MaxJobs
    /\ verdict \in [Jobs -> {"none", "queued", "running"} \cup Ended]
    /\ frames \in 0 .. MaxFrames

NoProcess == [state |-> "none", size |-> 0, left |-> 0, pipe |-> 0, ok |-> FALSE]

Init ==
    /\ pc = "turn"
    /\ active = FALSE /\ pid = None /\ fd = None
    /\ eofSeen = FALSE /\ late = FALSE
    /\ victim = None /\ after = "none"
    /\ running = None /\ packet = 0
    /\ procs = [j \in Jobs |-> NoProcess]
    /\ signal = FALSE
    /\ serving = TRUE /\ jobs = 0 /\ frames = 0 /\ inputEof = FALSE
    /\ verdict = [j \in Jobs |-> "none"]

-----------------------------------------------------------------------------
(***************************************************************************)
(* The child.                                                              *)
(***************************************************************************)

Dead == {"none", "zombie", "gone"}

WriteEndOpen(j) == procs[j].state \in {"running", "killed"}

\* What becomes of a process p.
Moved(p, state) == [p EXCEPT !.state = state]
Wrote(p)        == [p EXCEPT !.left = @ - 1, !.pipe = @ + 1]
Taken(p, n)     == [p EXCEPT !.pipe = @ - n]
Exiting(p)      == [p EXCEPT !.state = "closed", !.ok = TRUE]
Crashed(p)      == [p EXCEPT !.state = "zombie", !.ok = FALSE]
Collected(p)    == [p EXCEPT !.state = "gone", !.left = 0, !.pipe = 0]

ChildWrites(j) ==
    /\ procs[j].state = "running"
    /\ procs[j].left > 0
    /\ procs[j].pipe < PipeSize
    /\ procs' = [procs EXCEPT ![j] = Wrote(@)]

\* elisa_lsp_analysis_worker_child_exit: 0 after a whole packet, else 74.
ChildCloses(j) ==
    /\ procs[j].state = "running"
    /\ \/ procs[j].left = 0 /\ procs' = [procs EXCEPT ![j] = Exiting(@)]
       \/ procs' = [procs EXCEPT ![j] = Moved(@, "closed")]

ChildExits(j) ==
    /\ procs[j].state = "closed"
    /\ procs' = [procs EXCEPT ![j] = Moved(@, "zombie")]

\* A crash, or a failed prepare_worker_child.
ChildCrashes(j) ==
    /\ procs[j].state \in {"running", "closed"}
    /\ procs' = [procs EXCEPT ![j] = Crashed(@)]

KilledChildDies(j) ==
    /\ procs[j].state = "killed"
    /\ procs' = [procs EXCEPT ![j] = Crashed(@)]

Child ==
    /\ \E j \in Jobs : \/ ChildWrites(j) \/ ChildCloses(j) \/ ChildExits(j)
                       \/ ChildCrashes(j) \/ KilledChildDies(j)
    /\ UNCHANGED <<pc, handle, reaping, runtime, signal, client, verdict>>

\* Whatever the child has left unread is lost when it is reaped.
Reaped(j) == procs' = [procs EXCEPT ![j] = Collected(@)]

-----------------------------------------------------------------------------
(***************************************************************************)
(* elisa_lsp_analysis_worker_abort and kill_and_reap.                      *)
(***************************************************************************)

\* What a call of the abort does first; without a worker it returns at once.
Abort(then) ==
    /\ UNCHANGED <<active, fd, eofSeen, late>>
    /\ IF active THEN /\ victim' = pid /\ pid' = None
                      /\ after' = then /\ pc' = "reap"
       ELSE pc' = then /\ UNCHANGED <<pid, reaping>>

\* Mutant: the child is killed without looking whether it has ended.
ReapWithoutLooking ==
    /\ pc = "reap"
    /\ IF procs[victim].state = "zombie" THEN Reaped(victim) ELSE UNCHANGED procs
    /\ pc' = "kill"
    /\ UNCHANGED <<handle, reaping, runtime, signal, client, verdict>>

\* waitpid with WNOHANG; without such a child (ECHILD) there is nothing to do.
Reap ==
    /\ pc = "reap"
    /\ IF procs[victim].state = "zombie" THEN Reaped(victim) ELSE UNCHANGED procs
    /\ pc' = IF procs[victim].state \in {"zombie", "gone"} THEN "close" ELSE "kill"
    /\ UNCHANGED <<handle, reaping, runtime, signal, client, verdict>>

Kill ==
    /\ pc = "kill"
    /\ IF procs[victim].state \in Dead THEN UNCHANGED procs
       ELSE procs' = [procs EXCEPT ![victim] = Moved(@, "killed")]
    /\ pc' = "reapKilled"
    /\ UNCHANGED <<handle, reaping, runtime, signal, client, verdict>>

\* The second waitpid blocks until the child is dead.
ReapKilled ==
    /\ pc = "reapKilled"
    /\ procs[victim].state \in {"zombie", "gone"}
    /\ Reaped(victim)
    /\ pc' = "close"
    /\ UNCHANGED <<handle, reaping, runtime, signal, client, verdict>>

\* reset_worker_state, with the read end of the pipe closed.
Reset ==
    /\ active' = FALSE /\ pid' = None /\ fd' = None
    /\ eofSeen' = FALSE /\ late' = FALSE

\* The end of an abort, or of the failed start of the victim.
CloseWorker ==
    /\ pc = "close"
    /\ Reset
    /\ victim' = None /\ after' = "none"
    /\ pc' = after
    /\ verdict' = IF after = "start" THEN [verdict EXCEPT ![victim] = "failed"]
                  ELSE verdict
    /\ UNCHANGED <<runtime, procs, signal, client>>

-----------------------------------------------------------------------------
(***************************************************************************)
(* The turn of main() and the start of a worker.                           *)
(***************************************************************************)

\* A pending signal, or the failure latch of the output, ends the session.
Turn ==
    /\ pc = "turn"
    /\ \/ pc' = "leave"
       \/ ~ signal /\ pc' = IF serving THEN "start" ELSE "frame"
    /\ UNCHANGED <<handle, reaping, runtime, procs, signal, client, verdict>>

Queued(j) == verdict[j] = "queued"

Forked(j, size) ==
    procs' = [procs EXCEPT ![j] = [state |-> "running", size |-> size,
                                   left |-> size, pipe |-> 0, ok |-> FALSE]]

StartWorker(j, size) ==
    /\ pc = "start"
    /\ running = None
    /\ ~ active
    /\ Queued(j)
    /\ Forked(j, size)
    /\ active' = TRUE /\ pid' = j /\ fd' = j
    /\ eofSeen' = FALSE /\ late' = FALSE
    /\ running' = j /\ packet' = 0
    /\ verdict' = [verdict EXCEPT ![j] = "running"]
    /\ pc' = "frame"
    /\ UNCHANGED <<reaping, signal, client>>

\* No pipe, no child, or (EBUSY) the last one is still there.
StartFails(j) ==
    /\ pc = "start"
    /\ running = None
    /\ Queued(j)
    /\ verdict' = [verdict EXCEPT ![j] = "failed"]
    /\ UNCHANGED <<pc, handle, reaping, runtime, procs, signal, client>>

\* Mutant: the child is left behind.
StartAbandoned(j, size) ==
    /\ pc = "start"
    /\ running = None
    /\ ~ active
    /\ Queued(j)
    /\ Forked(j, size)
    /\ verdict' = [verdict EXCEPT ![j] = "failed"]
    /\ UNCHANGED <<pc, handle, reaping, runtime, signal, client>>

\* The child is there, but its write end cannot be closed in the parent.
StartUndone(j, size) ==
    /\ pc = "start"
    /\ running = None
    /\ ~ active
    /\ Queued(j)
    /\ Forked(j, size)
    /\ fd' = j
    /\ victim' = j /\ after' = "start"
    /\ pc' = "reap"
    /\ UNCHANGED <<active, pid, eofSeen, late, runtime, signal, client, verdict>>

NothingToStart ==
    /\ pc = "start"
    /\ running # None \/ \A j \in Jobs : ~ Queued(j)
    /\ pc' = "frame"
    /\ UNCHANGED <<handle, reaping, runtime, procs, signal, client, verdict>>

-----------------------------------------------------------------------------
(***************************************************************************)
(* Client frames, as far as they concern jobs.                             *)
(***************************************************************************)

Frame ==
    /\ pc = "frame"
    /\ ~ signal
    /\ frames > 0
    /\ frames' = frames - 1
    /\ UNCHANGED <<runtime, procs, signal, inputEof>>

IgnoredMessage ==
    /\ Frame
    /\ pc' = "turn"
    /\ UNCHANGED <<handle, reaping, serving, jobs, verdict>>

\* Mutant: the worker of a replaced snapshot goes on.
WorkerKept(old) ==
    pc' = "turn" /\ UNCHANGED <<handle, reaping>>

\* An edit, a reopen or a close ends the worker of its own document.
WorkerEnded(old) ==
    IF old # None /\ old = running THEN Abort("clear")
    ELSE pc' = "turn" /\ UNCHANGED <<handle, reaping>>

Unsettled == {j \in Jobs : verdict[j] \in {"queued", "running"}}

\* check_and_publish: a new job, which replaces that of the document's old
\* snapshot if it has one to come.
Update(old) ==
    /\ Frame
    /\ serving
    /\ jobs < MaxJobs
    /\ jobs' = jobs + 1
    /\ verdict' = [j \in Jobs |-> IF j = jobs + 1 THEN "queued"
                                  ELSE IF j = old THEN "dropped" ELSE verdict[j]]
    /\ WorkerEnded(old)
    /\ UNCHANGED serving

\* handle_did_close
CloseDocument(old) ==
    /\ Frame
    /\ serving
    /\ verdict' = [verdict EXCEPT ![old] = "dropped"]
    /\ WorkerEnded(old)
    /\ UNCHANGED <<serving, jobs>>

Shutdown ==
    /\ Frame
    /\ serving
    /\ serving' = FALSE
    /\ verdict' = [j \in Jobs |-> IF j = running THEN "dropped" ELSE verdict[j]]
    /\ Abort("clear")
    /\ UNCHANGED jobs

\* The exit notification, or malformed framing.
Exit ==
    /\ Frame
    /\ pc' = "leave"
    /\ UNCHANGED <<handle, reaping, serving, jobs, verdict>>

\* No frame: a signal or the end of the input ends the session, else it waits.
NoFrame ==
    /\ pc = "frame"
    /\ signal \/ frames = 0
    /\ pc' = IF signal \/ inputEof THEN "leave" ELSE "check"
    /\ UNCHANGED <<handle, reaping, runtime, procs, signal, client, verdict>>

ClientFrame ==
    \/ IgnoredMessage \/ Shutdown \/ Exit
    \/ \E old \in Unsettled \cup {None} : Update(old)
    \/ \E old \in Unsettled : CloseDocument(old)

-----------------------------------------------------------------------------
(***************************************************************************)
(* elisa_lsp_analysis_worker_wait_event.                                   *)
(***************************************************************************)

quietWait == <<handle, reaping, runtime, procs, signal, verdict>>

\* The check at the entry.
CheckSignal ==
    /\ pc = "check"
    /\ pc' = IF signal THEN "leave" ELSE "arm"
    /\ UNCHANGED <<quietWait, client>>

\* The event a call reports is lost on a signal, which main looks for first.
Reports(next) == pc' = IF signal THEN "leave" ELSE next

DeadlinePassed == active /\ late

\* Between here and the poll nothing looks for a signal again.
Arm ==
    /\ pc = "arm"
    /\ IF DeadlinePassed THEN Reports("fail") ELSE pc' = "poll"
    /\ UNCHANGED <<quietWait, client>>

\* Mutant: the poll waits for the child without a slice.
HasTimeoutAtEof == active /\ eofSeen

\* poll_timeout_for: slices of 25 ms while a worker runs, else no timeout.
HasTimeout == active

Readable(j) == procs[j].pipe > 0 \/ ~ WriteEndOpen(j)

PollTimesOut ==
    /\ pc = "poll"
    /\ HasTimeout
    /\ eofSeen \/ ~ Readable(fd)
    /\ Reports(IF DeadlinePassed THEN "fail"
               ELSE IF eofSeen THEN "drain" ELSE "arm")
    /\ UNCHANGED <<quietWait, client>>

WorkerReady ==
    /\ pc = "poll"
    /\ active /\ ~ eofSeen
    /\ Readable(fd)
    /\ Reports("drain")
    /\ UNCHANGED <<quietWait, client>>

\* Input goes before the worker; one chunk is read (transport_fill).
InputReady ==
    /\ pc = "poll"
    /\ Reports("turn")
    /\ \/ frames' \in 0 .. MaxFrames /\ UNCHANGED inputEof
       \/ inputEof' = TRUE /\ UNCHANGED frames
    /\ UNCHANGED <<quietWait, serving, jobs>>

\* The poll or the read fails.
InputFails ==
    /\ pc = "poll"
    /\ pc' = "leave"
    /\ UNCHANGED <<quietWait, client>>

-----------------------------------------------------------------------------
(***************************************************************************)
(* analysis_worker_process_events, with read_available and try_finish.     *)
(***************************************************************************)

\* Mutant: the cap is tested before the bytes are counted.
OverflowsNext(n) == packet > MaxPacket

Overflows(n) == packet + n > MaxPacket

Undisturbed == ~ signal /\ ~ late

\* read_available aborts by itself on a signal, the deadline or an I/O error.
ReadFails ==
    /\ pc = "drain"
    /\ ~ eofSeen
    /\ Abort("fail")
    /\ UNCHANGED <<runtime, procs, signal, client, verdict>>

ReadBytes(n) ==
    /\ pc = "drain"
    /\ ~ eofSeen
    /\ Undisturbed
    /\ procs' = [procs EXCEPT ![fd] = Taken(@, n)]
    /\ IF Overflows(n) THEN pc' = "fail" /\ UNCHANGED packet
       ELSE packet' = packet + n /\ UNCHANGED pc
    /\ UNCHANGED <<handle, reaping, running, signal, client, verdict>>

ReadEof ==
    /\ pc = "drain"
    /\ \/ eofSeen
       \/ Undisturbed /\ procs[fd].pipe = 0 /\ ~ WriteEndOpen(fd)
    /\ eofSeen' = TRUE
    /\ pc' = "finish"
    /\ UNCHANGED <<active, pid, fd, late, reaping, runtime, procs, signal, client,
                   verdict>>

NothingToRead ==
    /\ pc = "drain"
    /\ ~ eofSeen
    /\ Undisturbed
    /\ procs[fd].pipe = 0 /\ WriteEndOpen(fd)
    /\ pc' = "turn"
    /\ UNCHANGED <<handle, reaping, runtime, procs, signal, client, verdict>>

Drain ==
    \/ ReadFails \/ ReadEof \/ NothingToRead
    \/ fd # None /\ \E n \in 1 .. procs[fd].pipe : ReadBytes(n)

\* try_finish aborts by itself on a signal or the deadline.
FinishFails ==
    /\ pc = "finish"
    /\ ~ Undisturbed
    /\ Abort("fail")
    /\ UNCHANGED <<runtime, procs, signal, client, verdict>>

StillRunning ==
    /\ pc = "finish"
    /\ Undisturbed
    /\ procs[pid].state \notin Dead
    /\ pc' = "turn"
    /\ UNCHANGED <<handle, reaping, runtime, procs, signal, client, verdict>>

\* Mutant: the exit status is not looked at.
ExitedSomehow(j) == TRUE

ExitedWell(j) == procs[j].ok

\* analysis_worker_runtime_clear
ClearRuntime == running' = None /\ packet' = 0

\* Reaped and closed.  The packet of a good exit is committed or, with an abort
\* that finds no worker, rejected; a bad exit, or a close that fails, is a failure.
Finished ==
    /\ pc = "finish"
    /\ Undisturbed
    /\ procs[pid].state \in Dead
    /\ Reaped(pid)
    /\ Reset
    /\ \/ /\ ExitedWell(pid)
          /\ \E v \in {"committed", "failed"} :
                verdict' = [verdict EXCEPT ![running] = v]
          /\ ClearRuntime
          /\ pc' = "turn"
       \/ pc' = "fail" /\ UNCHANGED <<runtime, verdict>>
    /\ UNCHANGED <<reaping, signal, client>>

\* Mutant: the abort is not followed by clearing the runtime.
FailWithoutClear ==
    /\ pc = "fail"
    /\ verdict' = [verdict EXCEPT ![running] = "failed"]
    /\ Abort("turn")
    /\ UNCHANGED <<runtime, procs, signal, client>>

\* analysis_worker_fail_current, then analysis_worker_abort_runtime, which
\* finds no worker if the failing call has aborted it.
Fail ==
    /\ pc = "fail"
    /\ verdict' = [verdict EXCEPT ![running] = "failed"]
    /\ Abort("clear")
    /\ UNCHANGED <<runtime, procs, signal, client>>

Clear ==
    /\ pc = "clear"
    /\ ClearRuntime
    /\ pc' = "turn"
    /\ UNCHANGED <<handle, reaping, procs, signal, client, verdict>>

\* transport_finish
Leave ==
    /\ pc = "leave"
    /\ Abort("stopped")
    /\ UNCHANGED <<runtime, procs, signal, client, verdict>>

-----------------------------------------------------------------------------
\* record_termination_signal; a poll that is under way is interrupted.
Signal ==
    /\ ~ signal
    /\ pc # "stopped"
    /\ signal' = TRUE
    /\ pc' = IF pc = "poll" THEN "leave" ELSE pc
    /\ UNCHANGED <<handle, reaping, runtime, procs, client, verdict>>

Tick ==
    /\ active /\ ~ late
    /\ late' = TRUE
    /\ UNCHANGED <<pc, active, pid, fd, eofSeen, reaping, runtime, procs, signal,
                   client, verdict>>

Start ==
    \/ NothingToStart
    \/ \E j \in Jobs : \/ StartFails(j)
                       \/ \E size \in Sizes : StartWorker(j, size) \/ StartUndone(j, size)

Wait == CheckSignal \/ Arm \/ PollTimesOut \/ WorkerReady

Collect == Drain \/ FinishFails \/ StillRunning \/ Finished \/ Fail \/ Clear

Aborting == Reap \/ Kill \/ ReapKilled \/ CloseWorker

Parent == Turn \/ Start \/ ClientFrame \/ NoFrame \/ Wait \/ Collect \/ Aborting \/ Leave

Stopped == pc = "stopped" /\ UNCHANGED vars

Next == Parent \/ InputReady \/ InputFails \/ Child \/ Signal \/ Tick \/ Stopped

Spec == Init /\ [][Next]_vars

\* The parent runs, time passes, and a process that was sent SIGKILL dies.  The
\* child may hang, and the client may be silent for ever.
Fairness ==
    /\ WF_vars(Parent)
    /\ WF_vars(Tick)
    /\ \A j \in Jobs : WF_vars(Child /\ KilledChildDies(j))

FairSpec == Spec /\ Fairness

-----------------------------------------------------------------------------
(***************************************************************************)
(* Properties.                                                             *)
(***************************************************************************)

Exists(j) == procs[j].state \notin {"none", "gone"}

\* A child that has not been reaped is the worker or is being reaped: none is
\* lost on any path through failure, abort, edit, shutdown or signal, and none
\* is left, and no pipe open, when the server ends.
NoStrayChild ==
    /\ \A j \in Jobs : Exists(j) => j \in {pid, victim} /\ fd = j
    /\ \A j \in Jobs : fd = j => j \in {pid, victim}
    /\ pc = "stopped" => fd = None

\* SIGKILL goes to a child of ours that has not been reaped, so its process id
\* cannot belong to another process by then (kill_and_reap).
KillsOwnChild == pc = "kill" => Exists(victim)

\* Between two calls, the event loop and the process layer agree on whether a
\* worker runs and for which job; the descriptor and the process id are there
\* exactly when they are used.
RuntimeAgrees ==
    /\ pc \in {"turn", "start", "frame", "check", "arm", "poll", "drain", "finish"}
        => /\ active <=> running # None
           /\ pid = running /\ fd = running
           /\ running # None => verdict[running] = "running"
    /\ pc \in {"drain", "finish", "fail"} => running # None
    /\ pc = "finish" => eofSeen

\* A result is committed only from a packet that was received whole, from a
\* child that exited with 0, for the job that was running.
CommitIsWhole ==
    [][\A j \in Jobs :
        verdict[j] # "committed" /\ verdict'[j] = "committed" =>
            /\ running = j
            /\ procs[j].ok
            /\ packet = procs[j].size]_vars

\* The child as AnalysisScheduler sees it: an outcome, in any case.
Outcome == INSTANCE OneShotWorker WITH
    session <- IF pc = "stopped" THEN "over" ELSE "open"

ImplementsOutcome == Outcome!Spec

\* A signal that comes while a worker runs ends the server.
SignalWhileBusy == signal /\ active ~> pc = "stopped"

\* Every signal does (analysis_worker_posix.c: "termination signals remain
\* observable while the input stream is idle").
SignalNoticed == signal ~> pc = "stopped"

=============================================================================
