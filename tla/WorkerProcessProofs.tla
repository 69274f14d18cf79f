-------------------------- MODULE WorkerProcessProofs --------------------------
(***************************************************************************)
(* Proofs about WorkerProcess: its types, the life of every child, the     *)
(* agreement of event loop and process layer, and what is committed.       *)
(***************************************************************************)
EXTENDS WorkerProcess, TLAPS

Loop == {"turn", "start", "frame", "check", "arm", "poll", "drain", "finish"}

InAbort == {"reap", "kill", "reapKilled", "close"}

\* Who owns the child and the pipe, in the loop and in an abort.
Handles ==
    /\ pc \in Loop => (active <=> running # None)
    /\ pc \notin InAbort =>
        /\ victim = None /\ after = "none"
        /\ active <=> pid # None
        /\ fd = pid
        /\ active => running = pid
    /\ pc \in InAbort =>
        /\ victim # None /\ after # "none"
        /\ pid = None /\ fd = victim
        /\ after = "start" => ~ active /\ running = None
        /\ after # "start" => active /\ running = victim
    /\ pc \in {"clear", "stopped"} => ~ active
    /\ pc \in {"drain", "finish", "fail"} => running # None
    /\ pc = "finish" => eofSeen

\* Every child that is not reaped has its owner, and an owner has its child.
Children ==
    /\ \A j \in Jobs : Exists(j) => j = pid \/ j = victim
    /\ \A j \in Jobs : pid = j => Exists(j)
    /\ \A j \in Jobs : victim = j => (Exists(j) <=> pc # "close")

\* No byte is lost between the child and the packet while the loop reads it.
Bytes ==
    /\ \A j \in Jobs : procs[j].ok => procs[j].left = 0
    /\ \A j \in Jobs : pid = j /\ pc \in Loop =>
        /\ packet + procs[j].pipe + procs[j].left = procs[j].size
        /\ eofSeen => procs[j].pipe = 0 /\ ~ WriteEndOpen(j)

\* The verdicts agree with the runtime, and jobs to come have none.
Verdicts ==
    /\ \A j \in Jobs : verdict[j] = "running" => running = j
    /\ \A j \in Jobs : running = j /\ (pc \in Loop \cup {"fail"} \/ after = "fail")
            => verdict[j] = "running"
    /\ pc = "clear" \/ after = "clear" => \A j \in Jobs : verdict[j] # "running"
    /\ \A j \in Jobs : victim = j /\ after = "start" => verdict[j] = "queued"
    /\ \A j \in Jobs : j > jobs => verdict[j] = "none"

IInv == TypeOK /\ Handles /\ Children /\ Bytes /\ Verdicts

-----------------------------------------------------------------------------
(***************************************************************************)
(* What an action does to the processes.                                   *)
(***************************************************************************)

\* The step changes process j alone, to the given values.
Replaced(j, state, size, left, pipe, ok) ==
    /\ procs' \in [Jobs -> Process]
    /\ procs'[j].state = state
    /\ procs'[j].size = size
    /\ procs'[j].left = left
    /\ procs'[j].pipe = pipe
    /\ procs'[j].ok = ok
    /\ \A i \in Jobs : i # j => procs'[i] = procs[i]

\* Replacing one process by a process, in terms of its fields.
LEMMA ReplacedBy ==
  ASSUME TypeOK, NEW j \in Jobs, NEW q \in Process, procs' = [procs EXCEPT ![j] = q]
  PROVE  Replaced(j, q.state, q.size, q.left, q.pipe, q.ok)
  BY DEF TypeOK, Replaced

\* The fields of a process after each operation of the model (Moved to Collected).
LEMMA MovedFields ==
  ASSUME NEW p \in Process, NEW state \in {"closed", "killed", "zombie"}
  PROVE  LET q == Moved(p, state)
         IN  /\ q \in Process
             /\ q.state = state /\ q.size = p.size /\ q.left = p.left
             /\ q.pipe = p.pipe /\ q.ok = p.ok
  BY DEF Process, Moved

\* A write moves one byte into the pipe.
LEMMA WroteFields ==
  ASSUME NEW p \in Process, p.left > 0, p.pipe < PipeSize
  PROVE  LET q == Wrote(p)
         IN  /\ q \in Process
             /\ q.state = p.state /\ q.size = p.size /\ q.left = p.left - 1
             /\ q.pipe = p.pipe + 1 /\ q.ok = p.ok
<1>1. p.left - 1 \in Sizes \cup {0} /\ p.pipe + 1 \in 0 .. PipeSize
  BY WorkerAssumption DEF Process, Sizes
<1>2. Wrote(p) \in Process
  BY <1>1 DEF Process, Wrote
<1>3. LET q == Wrote(p)
      IN  /\ q.state = p.state /\ q.size = p.size /\ q.left = p.left - 1
          /\ q.pipe = p.pipe + 1 /\ q.ok = p.ok
  BY DEF Process, Wrote
<1> QED  BY <1>2, <1>3

\* A read takes bytes out of the pipe.
LEMMA TakenFields ==
  ASSUME NEW p \in Process, NEW n \in 1 .. p.pipe
  PROVE  LET q == Taken(p, n)
         IN  /\ q \in Process
             /\ q.state = p.state /\ q.size = p.size /\ q.left = p.left
             /\ q.pipe = p.pipe - n /\ q.ok = p.ok
  BY WorkerAssumption DEF Process, Taken

\* A good exit is remembered.
LEMMA ExitingFields ==
  ASSUME NEW p \in Process
  PROVE  LET q == Exiting(p)
         IN  /\ q \in Process
             /\ q.state = "closed" /\ q.size = p.size /\ q.left = p.left
             /\ q.pipe = p.pipe /\ q.ok = TRUE
  BY DEF Process, Exiting

\* A crash is remembered as a bad exit.
LEMMA CrashedFields ==
  ASSUME NEW p \in Process
  PROVE  LET q == Crashed(p)
         IN  /\ q \in Process
             /\ q.state = "zombie" /\ q.size = p.size /\ q.left = p.left
             /\ q.pipe = p.pipe /\ q.ok = FALSE
  BY DEF Process, Crashed

\* Reaping discards what was left.
LEMMA CollectedFields ==
  ASSUME NEW p \in Process
  PROVE  LET q == Collected(p)
         IN  /\ q \in Process
             /\ q.state = "gone" /\ q.size = p.size /\ q.left = 0
             /\ q.pipe = 0 /\ q.ok = p.ok
<1>1. 0 \in Sizes \cup {0} /\ 0 \in 0 .. PipeSize
  BY WorkerAssumption
<1>2. Collected(p) \in Process
  BY <1>1 DEF Process, Collected
<1>3. LET q == Collected(p)
      IN  /\ q.state = "gone" /\ q.size = p.size /\ q.left = 0
          /\ q.pipe = 0 /\ q.ok = p.ok
  BY DEF Process, Collected
<1> QED  BY <1>2, <1>3

\* A reaped process keeps its size and exit status only.
LEMMA ReapedFields ==
  ASSUME TypeOK, NEW j \in Jobs, Reaped(j)
  PROVE  Replaced(j, "gone", procs[j].size, 0, 0, procs[j].ok)
<1>1. procs[j] \in Process
  BY DEF TypeOK
<1> QED  BY <1>1, ReplacedBy, CollectedFields DEF Reaped

\* A forked process has all its bytes before it.
LEMMA ForkedFields ==
  ASSUME TypeOK, NEW j \in Jobs, NEW size \in Sizes, Forked(j, size)
  PROVE  Replaced(j, "running", size, size, 0, FALSE)
<1>1. [state |-> "running", size |-> size, left |-> size, pipe |-> 0, ok |-> FALSE]
        \in Process
  BY WorkerAssumption DEF Process
<1> QED  BY <1>1, ReplacedBy DEF Forked

\* The child changes its own process only, and never revives.
LEMMA ChildFields ==
  ASSUME TypeOK, Child
  PROVE  \E j \in Jobs :
            /\ procs[j].state \in {"running", "closed", "killed"}
            /\ \/ /\ procs[j].state = "running" /\ procs[j].left > 0
                  /\ Replaced(j, "running", procs[j].size, procs[j].left - 1,
                              procs[j].pipe + 1, procs[j].ok)
               \/ /\ procs[j].state = "running" /\ procs[j].left = 0
                  /\ Replaced(j, "closed", procs[j].size, 0, procs[j].pipe, TRUE)
               \/ \E state \in {"closed", "zombie"}, ok \in {FALSE, procs[j].ok} :
                    Replaced(j, state, procs[j].size, procs[j].left, procs[j].pipe, ok)
<1>1. PICK j \in Jobs : \/ ChildWrites(j) \/ ChildCloses(j) \/ ChildExits(j)
                        \/ ChildCrashes(j) \/ KilledChildDies(j)
  BY DEF Child
<1>2. procs[j] \in Process
  BY DEF TypeOK
<1>3. CASE ChildWrites(j)
  <2>1. Replaced(j, procs[j].state, procs[j].size, procs[j].left - 1,
                 procs[j].pipe + 1, procs[j].ok)
    BY <1>2, <1>3, ReplacedBy, WroteFields DEF ChildWrites
  <2> QED  BY <1>3, <2>1 DEF ChildWrites
<1>4. CASE ChildCloses(j)
  <2>1. CASE procs[j].left = 0 /\ procs' = [procs EXCEPT ![j] = Exiting(@)]
    <3>1. Replaced(j, "closed", procs[j].size, procs[j].left, procs[j].pipe, TRUE)
      BY <1>2, <2>1, ReplacedBy, ExitingFields
    <3> QED  BY <1>4, <2>1, <3>1 DEF ChildCloses
  <2>2. CASE procs' = [procs EXCEPT ![j] = Moved(@, "closed")]
    <3>1. Replaced(j, "closed", procs[j].size, procs[j].left, procs[j].pipe, procs[j].ok)
      BY <1>2, <2>2, ReplacedBy, MovedFields
    <3> QED  BY <1>4, <3>1 DEF ChildCloses
  <2> QED  BY <1>4, <2>1, <2>2 DEF ChildCloses
<1>5. CASE ChildExits(j)
  <2>1. Replaced(j, "zombie", procs[j].size, procs[j].left, procs[j].pipe, procs[j].ok)
    BY <1>2, <1>5, ReplacedBy, MovedFields DEF ChildExits
  <2> QED  BY <1>5, <2>1 DEF ChildExits
<1>6. CASE ChildCrashes(j)
  BY <1>2, <1>6, ReplacedBy, CrashedFields DEF ChildCrashes
<1>7. CASE KilledChildDies(j)
  BY <1>2, <1>7, ReplacedBy, CrashedFields DEF KilledChildDies
<1> QED  BY <1>1, <1>3, <1>4, <1>5, <1>6, <1>7

-----------------------------------------------------------------------------
(***************************************************************************)
(* The parent.                                                             *)
(***************************************************************************)

\* A call of the abort either hands the child over to kill_and_reap or, when
\* there is none, goes on at once.
LEMMA AbortHandles ==
  ASSUME TypeOK, Handles, pc \notin InAbort, running' = running,
         NEW then \in {"fail", "clear", "stopped"}, Abort(then),
         then = "fail" => running # None
  PROVE  /\ Handles'
         /\ pc' \in {"reap", "fail", "clear", "stopped"}
         /\ (pid' = pid /\ victim' = victim) \/ (pid' = None /\ victim' = pid)
         /\ pid' \in Jobs \cup {None} /\ victim' \in Jobs \cup {None}
         /\ after' \in {"start", "fail", "clear", "stopped", "none"}
         /\ after' = "fail" \/ pc' = "fail" => then = "fail"
         /\ after' = "clear" \/ pc' = "clear" => then = "clear"
         /\ after' # "start"
         /\ UNCHANGED <<active, fd, eofSeen, late>>
<1>1. CASE active
  BY <1>1 DEF TypeOK, Handles, Abort, InAbort, Loop, reaping
<1>2. CASE ~ active
  BY <1>2 DEF TypeOK, Handles, Abort, InAbort, Loop, reaping
<1> QED  BY <1>1, <1>2

\* Turn keeps the invariant.
LEMMA TurnIInv ==
  ASSUME IInv, Turn
  PROVE  IInv'
<1>1. TypeOK'
  BY WorkerAssumption
  DEF IInv, TypeOK, Jobs, Ended, Turn, handle, reaping, runtime, client
<1>2. Handles'
  BY DEF IInv, TypeOK, Handles, InAbort, Loop, Turn, handle, reaping, runtime, client
<1>3. Children'
  BY DEF IInv, TypeOK, Handles, Children, Exists, InAbort, Loop, Turn, handle,
         reaping, runtime, client, Process, Sizes
<1>4. Bytes'
  BY WorkerAssumption
  DEF IInv, TypeOK, Handles, Bytes, WriteEndOpen, InAbort, Loop, Turn, handle,
      reaping, runtime, client, Process, Sizes
<1>5. Verdicts'
  BY WorkerAssumption
  DEF IInv, TypeOK, Handles, Verdicts, InAbort, Loop, Ended, Jobs, Turn, handle,
      reaping, runtime, client
<1> QED  BY <1>1, <1>2, <1>3, <1>4, <1>5 DEF IInv

\* StartWorker keeps the invariant.
LEMMA StartWorkerIInv ==
  ASSUME IInv, NEW j \in Jobs, NEW size \in Sizes, StartWorker(j, size)
  PROVE  IInv'
<1>1. Replaced(j, "running", size, size, 0, FALSE)
  BY ForkedFields DEF IInv, StartWorker
<1>2. TypeOK'
  <2>1. verdict' \in [Jobs -> {"none", "queued", "running"} \cup Ended]
    BY WorkerAssumption DEF IInv, TypeOK, StartWorker, Ended
  <2>2. procs' \in [Jobs -> Process]
    BY <1>1 DEF Replaced
  <2>3. packet' \in 0 .. MaxPacket /\ pid' \in Jobs /\ fd' \in Jobs /\ running' \in Jobs
    BY WorkerAssumption DEF StartWorker
  <2> QED
    BY <2>1, <2>2, <2>3 DEF IInv, TypeOK, StartWorker, reaping, client
<1>3. Handles'
  BY <1>1, WorkerAssumption
  DEF IInv, TypeOK, Handles, InAbort, Loop, Replaced, StartWorker, Queued, handle,
      reaping, runtime, client, Jobs
<1>4. Children'
  BY <1>1
  DEF IInv, TypeOK, Handles, Children, Exists, InAbort, Loop, Replaced,
      StartWorker, Queued, handle, reaping, runtime, client, Process, Sizes
<1>5. Bytes'
  BY <1>1, WorkerAssumption
  DEF IInv, TypeOK, Handles, Bytes, WriteEndOpen, InAbort, Loop, Replaced,
      StartWorker, Queued, handle, reaping, runtime, client, Process, Sizes
<1>6. Verdicts'
  BY <1>1, WorkerAssumption
  DEF IInv, TypeOK, Handles, Verdicts, InAbort, Loop, Ended, Jobs, Replaced,
      StartWorker, Queued, handle, reaping, runtime, client
<1> QED  BY <1>2, <1>3, <1>4, <1>5, <1>6 DEF IInv

\* StartFails keeps the invariant.
LEMMA StartFailsIInv ==
  ASSUME IInv, NEW j \in Jobs, StartFails(j)
  PROVE  IInv'
<1>1. TypeOK'
  BY WorkerAssumption
  DEF IInv, TypeOK, Jobs, Ended, StartFails, Queued, handle, reaping, runtime,
      client
<1>2. Handles'
  BY WorkerAssumption
  DEF IInv, TypeOK, Handles, InAbort, Loop, StartFails, Queued, handle, reaping,
      runtime, client, Jobs
<1>3. Children'
  BY DEF IInv, TypeOK, Handles, Children, Exists, InAbort, Loop, StartFails,
         Queued, handle, reaping, runtime, client, Process, Sizes
<1>4. Bytes'
  BY WorkerAssumption
  DEF IInv, TypeOK, Handles, Bytes, WriteEndOpen, InAbort, Loop, StartFails,
      Queued, handle, reaping, runtime, client, Process, Sizes
<1>5. Verdicts'
  BY WorkerAssumption
  DEF IInv, TypeOK, Handles, Verdicts, InAbort, Loop, Ended, Jobs, StartFails,
      Queued, handle, reaping, runtime, client
<1> QED  BY <1>1, <1>2, <1>3, <1>4, <1>5 DEF IInv

\* StartUndone keeps the invariant.
LEMMA StartUndoneIInv ==
  ASSUME IInv, NEW j \in Jobs, NEW size \in Sizes, StartUndone(j, size)
  PROVE  IInv'
<1>1. Replaced(j, "running", size, size, 0, FALSE)
  BY ForkedFields DEF IInv, StartUndone
<1>2. TypeOK'
  BY <1>1, WorkerAssumption
  DEF IInv, TypeOK, Jobs, Ended, Replaced, StartUndone, Queued, handle, reaping,
      runtime, client
<1>3. Handles'
  BY <1>1, WorkerAssumption
  DEF IInv, TypeOK, Handles, InAbort, Loop, Replaced, StartUndone, Queued, handle,
      reaping, runtime, client, Jobs
<1>4. Children'
  BY <1>1
  DEF IInv, TypeOK, Handles, Children, Exists, InAbort, Loop, Replaced,
      StartUndone, Queued, handle, reaping, runtime, client, Process, Sizes
<1>5. Bytes'
  BY <1>1, WorkerAssumption
  DEF IInv, TypeOK, Handles, Bytes, WriteEndOpen, InAbort, Loop, Replaced,
      StartUndone, Queued, handle, reaping, runtime, client, Process, Sizes
<1>6. Verdicts'
  BY <1>1, WorkerAssumption
  DEF IInv, TypeOK, Handles, Verdicts, InAbort, Loop, Ended, Jobs, Replaced,
      StartUndone, Queued, handle, reaping, runtime, client
<1> QED  BY <1>2, <1>3, <1>4, <1>5, <1>6 DEF IInv

\* NothingToStart keeps the invariant.
LEMMA NothingToStartIInv ==
  ASSUME IInv, NothingToStart
  PROVE  IInv'
<1>1. TypeOK'
  BY WorkerAssumption
  DEF IInv, TypeOK, Jobs, Ended, NothingToStart, handle, reaping, runtime, client
<1>2. Handles'
  BY DEF IInv, TypeOK, Handles, InAbort, Loop, NothingToStart, handle, reaping,
         runtime, client
<1>3. Children'
  BY DEF IInv, TypeOK, Handles, Children, Exists, InAbort, Loop, NothingToStart,
         handle, reaping, runtime, client, Process, Sizes
<1>4. Bytes'
  BY WorkerAssumption
  DEF IInv, TypeOK, Handles, Bytes, WriteEndOpen, InAbort, Loop, NothingToStart,
      handle, reaping, runtime, client, Process, Sizes
<1>5. Verdicts'
  BY WorkerAssumption
  DEF IInv, TypeOK, Handles, Verdicts, InAbort, Loop, Ended, Jobs, NothingToStart,
      handle, reaping, runtime, client
<1> QED  BY <1>1, <1>2, <1>3, <1>4, <1>5 DEF IInv

\* IgnoredMessage keeps the invariant.
LEMMA IgnoredMessageIInv ==
  ASSUME IInv, IgnoredMessage
  PROVE  IInv'
<1>1. TypeOK'
  BY WorkerAssumption
  DEF IInv, TypeOK, Jobs, Ended, IgnoredMessage, Frame, handle, reaping, runtime,
      client
<1>2. Handles'
  BY DEF IInv, TypeOK, Handles, InAbort, Loop, IgnoredMessage, Frame, handle,
         reaping, runtime, client
<1>3. Children'
  BY DEF IInv, TypeOK, Handles, Children, Exists, InAbort, Loop, IgnoredMessage,
         Frame, handle, reaping, runtime, client, Process, Sizes
<1>4. Bytes'
  BY WorkerAssumption
  DEF IInv, TypeOK, Handles, Bytes, WriteEndOpen, InAbort, Loop, IgnoredMessage,
      Frame, handle, reaping, runtime, client, Process, Sizes
<1>5. Verdicts'
  BY WorkerAssumption
  DEF IInv, TypeOK, Handles, Verdicts, InAbort, Loop, Ended, Jobs, IgnoredMessage,
      Frame, handle, reaping, runtime, client
<1> QED  BY <1>1, <1>2, <1>3, <1>4, <1>5 DEF IInv

\* Shutdown keeps the invariant.
LEMMA ShutdownIInv ==
  ASSUME IInv, Shutdown
  PROVE  IInv'
<1>1. Abort("clear") /\ running' = running /\ pc \notin InAbort
      /\ ("clear" = "fail" => running # None)
  BY DEF IInv, TypeOK, Handles, Shutdown, Frame, InAbort, Loop, runtime
<1>2. /\ Handles'
      /\ pc' \in {"reap", "fail", "clear", "stopped"}
      /\ (pid' = pid /\ victim' = victim) \/ (pid' = None /\ victim' = pid)
      /\ pid' \in Jobs \cup {None} /\ victim' \in Jobs \cup {None}
      /\ after' \in {"start", "fail", "clear", "stopped", "none"}
      /\ after' = "fail" \/ pc' = "fail" => "clear" = "fail"
      /\ after' = "clear" \/ pc' = "clear" => "clear" = "clear"
      /\ after' # "start"
      /\ UNCHANGED <<active, fd, eofSeen, late>>
  BY <1>1, AbortHandles DEF IInv
<1>3. TypeOK'
  <2>1. verdict' \in [Jobs -> {"none", "queued", "running"} \cup Ended]
    BY DEF IInv, TypeOK, Shutdown, Ended
  <2>2. frames' \in 0 .. MaxFrames
    BY WorkerAssumption DEF IInv, TypeOK, Shutdown, Frame
  <2> QED
    BY <1>1, <1>2, <2>1, <2>2 DEF IInv, TypeOK, Shutdown, Frame, runtime
<1>4. Handles'
  BY <1>2
<1>5. Children'
  BY <1>1, <1>2
  DEF IInv, TypeOK, Handles, Children, Exists, InAbort, Loop, Shutdown, Frame,
      handle, reaping, runtime, client, Process, Sizes
<1>6. Bytes'
  BY <1>1, <1>2, WorkerAssumption
  DEF IInv, TypeOK, Handles, Bytes, WriteEndOpen, InAbort, Loop, Shutdown, Frame,
      handle, reaping, runtime, client, Process, Sizes
<1>7. Verdicts'
  BY <1>1, <1>2, WorkerAssumption
  DEF IInv, TypeOK, Handles, Verdicts, InAbort, Loop, Ended, Jobs, Shutdown,
      Frame, handle, reaping, runtime, client
<1> QED  BY <1>3, <1>4, <1>5, <1>6, <1>7 DEF IInv

\* Exit keeps the invariant.
LEMMA ExitIInv ==
  ASSUME IInv, Exit
  PROVE  IInv'
<1>1. TypeOK'
  BY WorkerAssumption
  DEF IInv, TypeOK, Jobs, Ended, Exit, Frame, handle, reaping, runtime, client
<1>2. Handles'
  BY DEF IInv, TypeOK, Handles, InAbort, Loop, Exit, Frame, handle, reaping,
         runtime, client
<1>3. Children'
  BY DEF IInv, TypeOK, Handles, Children, Exists, InAbort, Loop, Exit, Frame,
         handle, reaping, runtime, client, Process, Sizes
<1>4. Bytes'
  BY WorkerAssumption
  DEF IInv, TypeOK, Handles, Bytes, WriteEndOpen, InAbort, Loop, Exit, Frame,
      handle, reaping, runtime, client, Process, Sizes
<1>5. Verdicts'
  BY WorkerAssumption
  DEF IInv, TypeOK, Handles, Verdicts, InAbort, Loop, Ended, Jobs, Exit, Frame,
      handle, reaping, runtime, client
<1> QED  BY <1>1, <1>2, <1>3, <1>4, <1>5 DEF IInv

\* NoFrame keeps the invariant.
LEMMA NoFrameIInv ==
  ASSUME IInv, NoFrame
  PROVE  IInv'
<1>1. TypeOK'
  BY WorkerAssumption
  DEF IInv, TypeOK, Jobs, Ended, NoFrame, handle, reaping, runtime, client
<1>2. Handles'
  BY DEF IInv, TypeOK, Handles, InAbort, Loop, NoFrame, handle, reaping, runtime, client
<1>3. Children'
  BY DEF IInv, TypeOK, Handles, Children, Exists, InAbort, Loop, NoFrame, handle,
         reaping, runtime, client, Process, Sizes
<1>4. Bytes'
  BY WorkerAssumption
  DEF IInv, TypeOK, Handles, Bytes, WriteEndOpen, InAbort, Loop, NoFrame, handle,
      reaping, runtime, client, Process, Sizes
<1>5. Verdicts'
  BY WorkerAssumption
  DEF IInv, TypeOK, Handles, Verdicts, InAbort, Loop, Ended, Jobs, NoFrame,
      handle, reaping, runtime, client
<1> QED  BY <1>1, <1>2, <1>3, <1>4, <1>5 DEF IInv

\* The steps of wait_event and the read of the input keep the invariant.
LEMMA WaitIInv ==
  ASSUME IInv, Wait \/ InputReady \/ InputFails
  PROVE  IInv'
<1>1. TypeOK'
  <2>1. pc' \in {"leave", "arm", "poll", "fail", "drain", "turn"}
    BY DEF Wait, CheckSignal, Arm, PollTimesOut, WorkerReady, InputReady, InputFails,
           Reports
  <2>2. frames' \in 0 .. MaxFrames /\ inputEof' \in BOOLEAN /\ UNCHANGED <<serving, jobs>>
    BY DEF IInv, TypeOK, Wait, CheckSignal, Arm, PollTimesOut, WorkerReady, InputReady,
           InputFails, client
  <2>3. UNCHANGED <<quietWait>>
    BY DEF Wait, CheckSignal, Arm, PollTimesOut, WorkerReady, InputReady, InputFails
  <2> QED
    BY <2>1, <2>2, <2>3 DEF IInv, TypeOK, quietWait, handle, reaping, runtime
<1>2. Handles'
  BY DEF IInv, TypeOK, Handles, InAbort, Loop, Wait, CheckSignal, Arm,
         PollTimesOut, WorkerReady, InputReady, InputFails, Reports, quietWait,
         DeadlinePassed, HasTimeout, handle, reaping, runtime, client
<1>3. Children'
  BY DEF IInv, TypeOK, Handles, Children, Exists, InAbort, Loop, Wait,
         CheckSignal, Arm, PollTimesOut, WorkerReady, InputReady, InputFails,
         Reports, quietWait, DeadlinePassed, HasTimeout, handle, reaping, runtime,
         client, Process, Sizes
<1>4. Bytes'
  BY WorkerAssumption
  DEF IInv, TypeOK, Handles, Bytes, WriteEndOpen, InAbort, Loop, Wait,
      CheckSignal, Arm, PollTimesOut, WorkerReady, InputReady, InputFails,
      Reports, quietWait, DeadlinePassed, HasTimeout, handle, reaping, runtime,
      client, Process, Sizes
<1>5. Verdicts'
  BY WorkerAssumption
  DEF IInv, TypeOK, Handles, Verdicts, InAbort, Loop, Ended, Jobs, Wait,
      CheckSignal, Arm, PollTimesOut, WorkerReady, InputReady, InputFails,
      Reports, quietWait, DeadlinePassed, HasTimeout, handle, reaping, runtime,
      client
<1> QED  BY <1>1, <1>2, <1>3, <1>4, <1>5 DEF IInv

\* ReadFails keeps the invariant.
LEMMA ReadFailsIInv ==
  ASSUME IInv, ReadFails
  PROVE  IInv'
<1>1. Abort("fail") /\ running' = running /\ pc \notin InAbort
      /\ ("fail" = "fail" => running # None)
  BY DEF IInv, TypeOK, Handles, ReadFails, InAbort, Loop, runtime
<1>2. /\ Handles'
      /\ pc' \in {"reap", "fail", "clear", "stopped"}
      /\ (pid' = pid /\ victim' = victim) \/ (pid' = None /\ victim' = pid)
      /\ pid' \in Jobs \cup {None} /\ victim' \in Jobs \cup {None}
      /\ after' \in {"start", "fail", "clear", "stopped", "none"}
      /\ after' = "fail" \/ pc' = "fail" => "fail" = "fail"
      /\ after' = "clear" \/ pc' = "clear" => "fail" = "clear"
      /\ after' # "start"
      /\ UNCHANGED <<active, fd, eofSeen, late>>
  BY <1>1, AbortHandles DEF IInv
<1>3. TypeOK'
  BY <1>1, <1>2, WorkerAssumption
  DEF IInv, TypeOK, ReadFails, handle, reaping, runtime, client
<1>4. Handles'
  BY <1>2
<1>5. Children'
  BY <1>1, <1>2
  DEF IInv, TypeOK, Handles, Children, Exists, InAbort, Loop, ReadFails, handle,
      reaping, runtime, client, Process, Sizes
<1>6. Bytes'
  BY <1>1, <1>2, WorkerAssumption
  DEF IInv, TypeOK, Handles, Bytes, WriteEndOpen, InAbort, Loop, ReadFails,
      handle, reaping, runtime, client, Process, Sizes
<1>7. Verdicts'
  BY <1>1, <1>2, WorkerAssumption
  DEF IInv, TypeOK, Handles, Verdicts, InAbort, Loop, Ended, Jobs, ReadFails,
      handle, reaping, runtime, client
<1> QED  BY <1>3, <1>4, <1>5, <1>6, <1>7 DEF IInv

\* ReadBytes keeps the invariant.
LEMMA ReadBytesIInv ==
  ASSUME IInv, fd # None, NEW n \in 1 .. procs[fd].pipe, ReadBytes(n)
  PROVE  IInv'
<1>1. Replaced(fd, procs[fd].state, procs[fd].size, procs[fd].left,
               procs[fd].pipe - n, procs[fd].ok)
  BY TakenFields, ReplacedBy DEF IInv, TypeOK, ReadBytes
<1>2. TypeOK'
  BY <1>1, WorkerAssumption
  DEF IInv, TypeOK, Jobs, Ended, Replaced, ReadBytes, Overflows, Undisturbed,
      handle, reaping, runtime, client
<1>3. Handles'
  BY <1>1
  DEF IInv, TypeOK, Handles, InAbort, Loop, Replaced, ReadBytes, Overflows,
      Undisturbed, handle, reaping, runtime, client
<1>4. Children'
  BY <1>1
  DEF IInv, TypeOK, Handles, Children, Exists, InAbort, Loop, Replaced, ReadBytes,
      Overflows, Undisturbed, handle, reaping, runtime, client, Process, Sizes
<1>5. Bytes'
  BY <1>1, WorkerAssumption
  DEF IInv, TypeOK, Handles, Bytes, WriteEndOpen, InAbort, Loop, Replaced,
      ReadBytes, Overflows, Undisturbed, handle, reaping, runtime, client,
      Process, Sizes
<1>6. Verdicts'
  BY <1>1, WorkerAssumption
  DEF IInv, TypeOK, Handles, Verdicts, InAbort, Loop, Ended, Jobs, Replaced,
      ReadBytes, Overflows, Undisturbed, handle, reaping, runtime, client
<1> QED  BY <1>2, <1>3, <1>4, <1>5, <1>6 DEF IInv

\* ReadEof keeps the invariant.
LEMMA ReadEofIInv ==
  ASSUME IInv, ReadEof
  PROVE  IInv'
<1>1. TypeOK'
  BY WorkerAssumption
  DEF IInv, TypeOK, Jobs, Ended, ReadEof, Undisturbed, handle, reaping, runtime,
      client
<1>2. Handles'
  BY DEF IInv, TypeOK, Handles, InAbort, Loop, ReadEof, Undisturbed, handle,
         reaping, runtime, client
<1>3. Children'
  BY DEF IInv, TypeOK, Handles, Children, Exists, InAbort, Loop, ReadEof,
         Undisturbed, handle, reaping, runtime, client, Process, Sizes
<1>4. Bytes'
  BY WorkerAssumption
  DEF IInv, TypeOK, Handles, Bytes, WriteEndOpen, InAbort, Loop, ReadEof,
      Undisturbed, handle, reaping, runtime, client, Process, Sizes
<1>5. Verdicts'
  BY WorkerAssumption
  DEF IInv, TypeOK, Handles, Verdicts, InAbort, Loop, Ended, Jobs, ReadEof,
      Undisturbed, handle, reaping, runtime, client
<1> QED  BY <1>1, <1>2, <1>3, <1>4, <1>5 DEF IInv

\* NothingToRead keeps the invariant.
LEMMA NothingToReadIInv ==
  ASSUME IInv, NothingToRead
  PROVE  IInv'
<1>1. TypeOK'
  BY WorkerAssumption
  DEF IInv, TypeOK, Jobs, Ended, NothingToRead, handle, reaping, runtime, client
<1>2. Handles'
  BY DEF IInv, TypeOK, Handles, InAbort, Loop, NothingToRead, handle, reaping,
         runtime, client
<1>3. Children'
  BY DEF IInv, TypeOK, Handles, Children, Exists, InAbort, Loop, NothingToRead,
         handle, reaping, runtime, client, Process, Sizes
<1>4. Bytes'
  BY WorkerAssumption
  DEF IInv, TypeOK, Handles, Bytes, WriteEndOpen, InAbort, Loop, NothingToRead,
      handle, reaping, runtime, client, Process, Sizes
<1>5. Verdicts'
  BY WorkerAssumption
  DEF IInv, TypeOK, Handles, Verdicts, InAbort, Loop, Ended, Jobs, NothingToRead,
      handle, reaping, runtime, client
<1> QED  BY <1>1, <1>2, <1>3, <1>4, <1>5 DEF IInv

\* FinishFails keeps the invariant.
LEMMA FinishFailsIInv ==
  ASSUME IInv, FinishFails
  PROVE  IInv'
<1>1. Abort("fail") /\ running' = running /\ pc \notin InAbort
      /\ ("fail" = "fail" => running # None)
  BY DEF IInv, TypeOK, Handles, FinishFails, InAbort, Loop, runtime
<1>2. /\ Handles'
      /\ pc' \in {"reap", "fail", "clear", "stopped"}
      /\ (pid' = pid /\ victim' = victim) \/ (pid' = None /\ victim' = pid)
      /\ pid' \in Jobs \cup {None} /\ victim' \in Jobs \cup {None}
      /\ after' \in {"start", "fail", "clear", "stopped", "none"}
      /\ after' = "fail" \/ pc' = "fail" => "fail" = "fail"
      /\ after' = "clear" \/ pc' = "clear" => "fail" = "clear"
      /\ after' # "start"
      /\ UNCHANGED <<active, fd, eofSeen, late>>
  BY <1>1, AbortHandles DEF IInv
<1>3. TypeOK'
  BY <1>1, <1>2, WorkerAssumption
  DEF IInv, TypeOK, FinishFails, handle, reaping, runtime, client
<1>4. Handles'
  BY <1>2
<1>5. Children'
  BY <1>1, <1>2
  DEF IInv, TypeOK, Handles, Children, Exists, InAbort, Loop, FinishFails, handle,
      reaping, runtime, client, Process, Sizes
<1>6. Bytes'
  BY <1>1, <1>2, WorkerAssumption
  DEF IInv, TypeOK, Handles, Bytes, WriteEndOpen, InAbort, Loop, FinishFails,
      handle, reaping, runtime, client, Process, Sizes
<1>7. Verdicts'
  BY <1>1, <1>2, WorkerAssumption
  DEF IInv, TypeOK, Handles, Verdicts, InAbort, Loop, Ended, Jobs, FinishFails,
      handle, reaping, runtime, client
<1> QED  BY <1>3, <1>4, <1>5, <1>6, <1>7 DEF IInv

\* StillRunning keeps the invariant.
LEMMA StillRunningIInv ==
  ASSUME IInv, StillRunning
  PROVE  IInv'
<1>1. TypeOK'
  BY WorkerAssumption
  DEF IInv, TypeOK, Jobs, Ended, StillRunning, handle, reaping, runtime, client
<1>2. Handles'
  BY DEF IInv, TypeOK, Handles, InAbort, Loop, StillRunning, handle, reaping,
         runtime, client
<1>3. Children'
  BY DEF IInv, TypeOK, Handles, Children, Exists, InAbort, Loop, StillRunning,
         handle, reaping, runtime, client, Process, Sizes
<1>4. Bytes'
  BY WorkerAssumption
  DEF IInv, TypeOK, Handles, Bytes, WriteEndOpen, InAbort, Loop, StillRunning,
      handle, reaping, runtime, client, Process, Sizes
<1>5. Verdicts'
  BY WorkerAssumption
  DEF IInv, TypeOK, Handles, Verdicts, InAbort, Loop, Ended, Jobs, StillRunning,
      handle, reaping, runtime, client
<1> QED  BY <1>1, <1>2, <1>3, <1>4, <1>5 DEF IInv

\* Finished keeps the invariant.
LEMMA FinishedIInv ==
  ASSUME IInv, Finished
  PROVE  IInv'
<1>1. pid \in Jobs /\ Replaced(pid, "gone", procs[pid].size, 0, 0, procs[pid].ok)
  BY ReapedFields DEF IInv, TypeOK, Handles, Loop, InAbort, Finished
<1>2. TypeOK'
  <2>1. verdict' \in [Jobs -> {"none", "queued", "running"} \cup Ended]
    BY DEF IInv, TypeOK, Finished, Ended, runtime
  <2>2. running' \in Jobs \cup {None} /\ packet' \in 0 .. MaxPacket
        /\ pc' \in {"turn", "fail"}
    BY WorkerAssumption DEF IInv, TypeOK, Finished, ClearRuntime, runtime
  <2> QED
    BY <1>1, <2>1, <2>2 DEF IInv, TypeOK, Finished, Reset, Replaced, reaping, client
<1>3. Handles'
  BY <1>1
  DEF IInv, TypeOK, Handles, InAbort, Loop, Replaced, Finished, Reset,
      ClearRuntime, handle, reaping, runtime, client
<1>4. Children'
  BY <1>1
  DEF IInv, TypeOK, Handles, Children, Exists, InAbort, Loop, Replaced, Finished,
      Reset, ClearRuntime, handle, reaping, runtime, client, Process, Sizes
<1>5. Bytes'
  BY <1>1, WorkerAssumption
  DEF IInv, TypeOK, Handles, Bytes, WriteEndOpen, InAbort, Loop, Replaced,
      Finished, Reset, ClearRuntime, handle, reaping, runtime, client, Process,
      Sizes
<1>6. Verdicts'
  <2>1. /\ pc = "finish" /\ UNCHANGED <<victim, after, jobs>> /\ running \in Jobs
        /\ verdict \in [Jobs -> {"none", "queued", "running"} \cup Ended]
        /\ \A j \in Jobs : j > jobs => verdict[j] = "none"
        /\ \A j \in Jobs : verdict[j] = "running" => running = j
        /\ verdict[running] = "running" /\ after = "none" /\ victim = None
    BY WorkerAssumption
    DEF IInv, TypeOK, Handles, Verdicts, InAbort, Loop, Finished, reaping, client
  <2>2. CASE \E v \in {"committed", "failed"} :
                /\ verdict' = [verdict EXCEPT ![running] = v]
                /\ running' = None /\ pc' = "turn"
    BY <2>1, <2>2, WorkerAssumption DEF Verdicts, Loop
  <2>3. CASE pc' = "fail" /\ UNCHANGED <<running, verdict>>
    BY <2>1, <2>3, WorkerAssumption DEF Verdicts, Loop
  <2> QED
    BY <2>2, <2>3 DEF Finished, ClearRuntime, runtime
<1> QED  BY <1>2, <1>3, <1>4, <1>5, <1>6 DEF IInv

\* Fail keeps the invariant.
LEMMA FailIInv ==
  ASSUME IInv, Fail
  PROVE  IInv'
<1>1. Abort("clear") /\ running' = running /\ pc \notin InAbort
      /\ ("clear" = "fail" => running # None)
  BY DEF IInv, TypeOK, Handles, Fail, InAbort, Loop, runtime
<1>2. /\ Handles'
      /\ pc' \in {"reap", "fail", "clear", "stopped"}
      /\ (pid' = pid /\ victim' = victim) \/ (pid' = None /\ victim' = pid)
      /\ pid' \in Jobs \cup {None} /\ victim' \in Jobs \cup {None}
      /\ after' \in {"start", "fail", "clear", "stopped", "none"}
      /\ after' = "fail" \/ pc' = "fail" => "clear" = "fail"
      /\ after' = "clear" \/ pc' = "clear" => "clear" = "clear"
      /\ after' # "start"
      /\ UNCHANGED <<active, fd, eofSeen, late>>
  BY <1>1, AbortHandles DEF IInv
<1>3. TypeOK'
  <2>1. verdict' \in [Jobs -> {"none", "queued", "running"} \cup Ended]
    BY DEF IInv, TypeOK, Fail, Ended
  <2> QED
    BY <1>1, <1>2, <2>1 DEF IInv, TypeOK, Fail, runtime, client
<1>4. Handles'
  BY <1>2
<1>5. Children'
  BY <1>1, <1>2
  DEF IInv, TypeOK, Handles, Children, Exists, InAbort, Loop, Fail, handle,
      reaping, runtime, client, Process, Sizes
<1>6. Bytes'
  BY <1>1, <1>2, WorkerAssumption
  DEF IInv, TypeOK, Handles, Bytes, WriteEndOpen, InAbort, Loop, Fail, handle,
      reaping, runtime, client, Process, Sizes
<1>7. Verdicts'
  BY <1>1, <1>2, WorkerAssumption
  DEF IInv, TypeOK, Handles, Verdicts, InAbort, Loop, Ended, Jobs, Fail, handle,
      reaping, runtime, client
<1> QED  BY <1>3, <1>4, <1>5, <1>6, <1>7 DEF IInv

\* Clear keeps the invariant.
LEMMA ClearIInv ==
  ASSUME IInv, Clear
  PROVE  IInv'
<1>1. TypeOK'
  BY WorkerAssumption
  DEF IInv, TypeOK, Jobs, Ended, Clear, ClearRuntime, handle, reaping, runtime,
      client
<1>2. Handles'
  BY DEF IInv, TypeOK, Handles, InAbort, Loop, Clear, ClearRuntime, handle,
         reaping, runtime, client
<1>3. Children'
  BY DEF IInv, TypeOK, Handles, Children, Exists, InAbort, Loop, Clear,
         ClearRuntime, handle, reaping, runtime, client, Process, Sizes
<1>4. Bytes'
  BY WorkerAssumption
  DEF IInv, TypeOK, Handles, Bytes, WriteEndOpen, InAbort, Loop, Clear,
      ClearRuntime, handle, reaping, runtime, client, Process, Sizes
<1>5. Verdicts'
  BY WorkerAssumption
  DEF IInv, TypeOK, Handles, Verdicts, InAbort, Loop, Ended, Jobs, Clear,
      ClearRuntime, handle, reaping, runtime, client
<1> QED  BY <1>1, <1>2, <1>3, <1>4, <1>5 DEF IInv

\* ReapKilled keeps the invariant.
LEMMA ReapKilledIInv ==
  ASSUME IInv, ReapKilled
  PROVE  IInv'
<1>1. victim \in Jobs /\ Replaced(victim, "gone", procs[victim].size, 0, 0, procs[victim].ok)
  BY ReapedFields DEF IInv, TypeOK, Handles, InAbort, ReapKilled
<1>2. TypeOK'
  BY <1>1, WorkerAssumption
  DEF IInv, TypeOK, Jobs, Ended, Replaced, ReapKilled, handle, reaping, runtime,
      client
<1>3. Handles'
  BY <1>1
  DEF IInv, TypeOK, Handles, InAbort, Loop, Replaced, ReapKilled, handle, reaping,
      runtime, client
<1>4. Children'
  BY <1>1
  DEF IInv, TypeOK, Handles, Children, Exists, InAbort, Loop, Replaced,
      ReapKilled, handle, reaping, runtime, client, Process, Sizes
<1>5. Bytes'
  BY <1>1, WorkerAssumption
  DEF IInv, TypeOK, Handles, Bytes, WriteEndOpen, InAbort, Loop, Replaced,
      ReapKilled, handle, reaping, runtime, client, Process, Sizes
<1>6. Verdicts'
  BY <1>1, WorkerAssumption
  DEF IInv, TypeOK, Handles, Verdicts, InAbort, Loop, Ended, Jobs, Replaced,
      ReapKilled, handle, reaping, runtime, client
<1> QED  BY <1>2, <1>3, <1>4, <1>5, <1>6 DEF IInv

\* CloseWorker keeps the invariant.
LEMMA CloseWorkerIInv ==
  ASSUME IInv, CloseWorker
  PROVE  IInv'
<1>1. TypeOK'
  <2>1. verdict' \in [Jobs -> {"none", "queued", "running"} \cup Ended]
    BY DEF IInv, TypeOK, CloseWorker, Ended
  <2>2. pc' \in {"start", "fail", "clear", "stopped"}
    BY DEF IInv, TypeOK, Handles, InAbort, CloseWorker
  <2> QED
    BY <2>1, <2>2 DEF IInv, TypeOK, CloseWorker, Reset, runtime, client
<1>2. Handles'
  BY DEF IInv, TypeOK, Handles, InAbort, Loop, CloseWorker, Reset, handle,
         reaping, runtime, client
<1>3. Children'
  BY DEF IInv, TypeOK, Handles, Children, Exists, InAbort, Loop, CloseWorker,
         Reset, handle, reaping, runtime, client, Process, Sizes
<1>4. Bytes'
  BY WorkerAssumption
  DEF IInv, TypeOK, Handles, Bytes, WriteEndOpen, InAbort, Loop, CloseWorker,
      Reset, handle, reaping, runtime, client, Process, Sizes
<1>5. Verdicts'
  BY WorkerAssumption
  DEF IInv, TypeOK, Handles, Verdicts, InAbort, Loop, Ended, Jobs, CloseWorker,
      Reset, handle, reaping, runtime, client
<1> QED  BY <1>1, <1>2, <1>3, <1>4, <1>5 DEF IInv

\* Leave keeps the invariant.
LEMMA LeaveIInv ==
  ASSUME IInv, Leave
  PROVE  IInv'
<1>1. Abort("stopped") /\ running' = running /\ pc \notin InAbort
      /\ ("stopped" = "fail" => running # None)
  BY DEF IInv, TypeOK, Handles, Leave, InAbort, Loop, runtime
<1>2. /\ Handles'
      /\ pc' \in {"reap", "fail", "clear", "stopped"}
      /\ (pid' = pid /\ victim' = victim) \/ (pid' = None /\ victim' = pid)
      /\ pid' \in Jobs \cup {None} /\ victim' \in Jobs \cup {None}
      /\ after' \in {"start", "fail", "clear", "stopped", "none"}
      /\ after' = "fail" \/ pc' = "fail" => "stopped" = "fail"
      /\ after' = "clear" \/ pc' = "clear" => "stopped" = "clear"
      /\ after' # "start"
      /\ UNCHANGED <<active, fd, eofSeen, late>>
  BY <1>1, AbortHandles DEF IInv
<1>3. TypeOK'
  BY <1>1, <1>2, WorkerAssumption
  DEF IInv, TypeOK, Leave, handle, reaping, runtime, client
<1>4. Handles'
  BY <1>2
<1>5. Children'
  BY <1>1, <1>2
  DEF IInv, TypeOK, Handles, Children, Exists, InAbort, Loop, Leave, handle,
      reaping, runtime, client, Process, Sizes
<1>6. Bytes'
  BY <1>1, <1>2, WorkerAssumption
  DEF IInv, TypeOK, Handles, Bytes, WriteEndOpen, InAbort, Loop, Leave, handle,
      reaping, runtime, client, Process, Sizes
<1>7. Verdicts'
  BY <1>1, <1>2, WorkerAssumption
  DEF IInv, TypeOK, Handles, Verdicts, InAbort, Loop, Ended, Jobs, Leave, handle,
      reaping, runtime, client
<1> QED  BY <1>3, <1>4, <1>5, <1>6, <1>7 DEF IInv

\* Signal keeps the invariant.
LEMMA SignalIInv ==
  ASSUME IInv, Signal
  PROVE  IInv'
<1>1. TypeOK'
  BY WorkerAssumption
  DEF IInv, TypeOK, Jobs, Ended, Signal, handle, reaping, runtime, client
<1>2. Handles'
  BY DEF IInv, TypeOK, Handles, InAbort, Loop, Signal, handle, reaping, runtime, client
<1>3. Children'
  BY DEF IInv, TypeOK, Handles, Children, Exists, InAbort, Loop, Signal, handle,
         reaping, runtime, client, Process, Sizes
<1>4. Bytes'
  BY WorkerAssumption
  DEF IInv, TypeOK, Handles, Bytes, WriteEndOpen, InAbort, Loop, Signal, handle,
      reaping, runtime, client, Process, Sizes
<1>5. Verdicts'
  BY WorkerAssumption
  DEF IInv, TypeOK, Handles, Verdicts, InAbort, Loop, Ended, Jobs, Signal, handle,
      reaping, runtime, client
<1> QED  BY <1>1, <1>2, <1>3, <1>4, <1>5 DEF IInv

\* Tick keeps the invariant.
LEMMA TickIInv ==
  ASSUME IInv, Tick
  PROVE  IInv'
<1>1. TypeOK'
  BY WorkerAssumption
  DEF IInv, TypeOK, Jobs, Ended, Tick, handle, reaping, runtime, client
<1>2. Handles'
  BY DEF IInv, TypeOK, Handles, InAbort, Loop, Tick, handle, reaping, runtime, client
<1>3. Children'
  BY DEF IInv, TypeOK, Handles, Children, Exists, InAbort, Loop, Tick, handle,
         reaping, runtime, client, Process, Sizes
<1>4. Bytes'
  BY WorkerAssumption
  DEF IInv, TypeOK, Handles, Bytes, WriteEndOpen, InAbort, Loop, Tick, handle,
      reaping, runtime, client, Process, Sizes
<1>5. Verdicts'
  BY WorkerAssumption
  DEF IInv, TypeOK, Handles, Verdicts, InAbort, Loop, Ended, Jobs, Tick, handle,
      reaping, runtime, client
<1> QED  BY <1>1, <1>2, <1>3, <1>4, <1>5 DEF IInv

\* Reap keeps the invariant.
LEMMA ReapIInv ==
  ASSUME IInv, Reap
  PROVE  IInv'
<1>1. /\ victim \in Jobs /\ Exists(victim) /\ fd = victim /\ pid = None
      /\ pc = "reap" /\ UNCHANGED <<handle, reaping, runtime, signal, client, verdict>>
  BY DEF IInv, TypeOK, Handles, Children, InAbort, Reap
<1>2. CASE procs[victim].state = "zombie"
  <2>1. Replaced(victim, "gone", procs[victim].size, 0, 0, procs[victim].ok)
    BY <1>1, <1>2, ReapedFields DEF IInv, Reap
  <2>2. pc' = "close"
    BY <1>2 DEF Reap
  <2>3. TypeOK'
    BY <1>1, <2>1, <2>2 DEF IInv, TypeOK, Replaced, handle, reaping, runtime, client
  <2>4. Handles'
    BY <1>1, <2>2 DEF IInv, Handles, Loop, InAbort, handle, reaping, runtime
  <2>5. Children'
    BY <1>1, <2>1, <2>2, WorkerAssumption
    DEF IInv, Children, Exists, Replaced, handle, reaping
  <2>6. Bytes'
    BY <1>1, <2>1, <2>2 DEF IInv, TypeOK, Bytes, Loop, Replaced, handle, runtime
  <2>7. Verdicts'
    BY <1>1, <2>2 DEF IInv, Verdicts, Loop, reaping, runtime, client
  <2> QED  BY <2>3, <2>4, <2>5, <2>6, <2>7 DEF IInv
<1>3. CASE procs[victim].state # "zombie"
  <2>1. pc' = "kill" /\ procs' = procs
    BY <1>1, <1>3 DEF Reap, Exists
  <2>2. TypeOK'
    BY <1>1, <2>1 DEF IInv, TypeOK, handle, reaping, runtime, client
  <2>3. Handles'
    BY <1>1, <2>1 DEF IInv, Handles, Loop, InAbort, handle, reaping, runtime
  <2>4. Children'
    BY <1>1, <2>1 DEF IInv, Children, Exists, handle, reaping
  <2>5. Bytes'
    BY <1>1, <2>1 DEF IInv, Bytes, Loop, handle, runtime
  <2>6. Verdicts'
    BY <1>1, <2>1 DEF IInv, Verdicts, Loop, reaping, runtime, client
  <2> QED  BY <2>2, <2>3, <2>4, <2>5, <2>6 DEF IInv
<1> QED  BY <1>2, <1>3

\* Kill keeps the invariant.
LEMMA KillIInv ==
  ASSUME IInv, Kill
  PROVE  IInv'
<1>1. /\ victim \in Jobs /\ Exists(victim) /\ fd = victim /\ pid = None
      /\ pc = "kill" /\ pc' = "reapKilled"
      /\ UNCHANGED <<handle, reaping, runtime, signal, client, verdict>>
  BY DEF IInv, TypeOK, Handles, Children, InAbort, Kill
<1>2. \/ procs' = procs
      \/ Replaced(victim, "killed", procs[victim].size, procs[victim].left,
                  procs[victim].pipe, procs[victim].ok)
  BY <1>1, ReplacedBy, MovedFields DEF IInv, TypeOK, Kill
<1>3. TypeOK'
  BY <1>1, <1>2 DEF IInv, TypeOK, Replaced, handle, reaping, runtime, client
<1>4. Handles'
  BY <1>1 DEF IInv, Handles, Loop, InAbort, handle, reaping, runtime
<1>5. Children'
  BY <1>1, <1>2 DEF IInv, Children, Exists, Replaced, handle, reaping
<1>6. Bytes'
  BY <1>1, <1>2 DEF IInv, TypeOK, Bytes, Loop, Replaced, handle, runtime
<1>7. Verdicts'
  BY <1>1 DEF IInv, Verdicts, Loop, reaping, runtime, client
<1> QED  BY <1>3, <1>4, <1>5, <1>6, <1>7 DEF IInv

\* Child keeps the invariant.
LEMMA ChildIInv ==
  ASSUME IInv, Child
  PROVE  IInv'
<1>1. UNCHANGED <<pc, handle, reaping, runtime, signal, client, verdict>>
  BY DEF Child
<1>2. PICK j \in Jobs :
            /\ procs[j].state \in {"running", "closed", "killed"}
            /\ \/ /\ procs[j].state = "running" /\ procs[j].left > 0
                  /\ Replaced(j, "running", procs[j].size, procs[j].left - 1,
                              procs[j].pipe + 1, procs[j].ok)
               \/ /\ procs[j].state = "running" /\ procs[j].left = 0
                  /\ Replaced(j, "closed", procs[j].size, 0, procs[j].pipe, TRUE)
               \/ \E state \in {"closed", "zombie"}, ok \in {FALSE, procs[j].ok} :
                    Replaced(j, state, procs[j].size, procs[j].left, procs[j].pipe, ok)
  BY ChildFields DEF IInv
<1>3. TypeOK'
  <2>1. procs' \in [Jobs -> Process]
    BY <1>2 DEF Replaced
  <2> QED
    BY <1>1, <2>1 DEF IInv, TypeOK, handle, reaping, runtime, client
<1>4. Handles'
  BY <1>1 DEF IInv, Handles, Loop, InAbort, handle, reaping, runtime
<1>5. Children'
  BY <1>1, <1>2 DEF IInv, Children, Exists, Replaced, handle, reaping
<1>6. Bytes'
  <2> USE DEF IInv, TypeOK, Bytes, Replaced, handle, runtime, WriteEndOpen
  <2>1. CASE /\ procs[j].state = "running" /\ procs[j].left > 0
             /\ Replaced(j, "running", procs[j].size, procs[j].left - 1,
                         procs[j].pipe + 1, procs[j].ok)
    <3>1. procs[j].left \in Int /\ procs[j].pipe \in Int /\ procs[j].size \in Int
      BY WorkerAssumption DEF Process, Sizes
    <3>2. procs'[j].left = procs[j].left - 1 /\ procs'[j].pipe = procs[j].pipe + 1
          /\ procs'[j].size = procs[j].size /\ procs'[j].ok = procs[j].ok
          /\ procs'[j].state = "running"
      BY <2>1
    <3> QED
      BY <1>1, <2>1, <3>1, <3>2
  <2>2. CASE /\ procs[j].state = "running" /\ procs[j].left = 0
             /\ Replaced(j, "closed", procs[j].size, 0, procs[j].pipe, TRUE)
    BY <1>1, <2>2
  <2>3. ASSUME NEW state \in {"closed", "zombie"}, NEW ok \in {FALSE, procs[j].ok},
               Replaced(j, state, procs[j].size, procs[j].left, procs[j].pipe, ok)
        PROVE  Bytes'
    BY <1>1, <2>3
  <2> QED  BY <1>2, <2>1, <2>2, <2>3
<1>7. Verdicts'
  BY <1>1 DEF IInv, Verdicts, Loop, reaping, runtime, client
<1> QED  BY <1>3, <1>4, <1>5, <1>6, <1>7 DEF IInv

\* Update keeps the invariant.
LEMMA UpdateIInv ==
  ASSUME IInv, NEW old \in Unsettled \cup {None}, Update(old)
  PROVE  IInv'
<1>1. pc = "frame" /\ UNCHANGED <<runtime, procs, signal, inputEof, serving>>
  BY DEF Update, Frame
<1>2. /\ verdict' \in [Jobs -> {"none", "queued", "running"} \cup Ended]
      /\ jobs' \in 0 .. MaxJobs /\ frames' \in 0 .. MaxFrames
  BY WorkerAssumption DEF IInv, TypeOK, Update, Frame, Ended
<1>3. /\ \A j \in Jobs : verdict'[j] = "running" => verdict[j] = "running" /\ j # old
      /\ \A j \in Jobs : j # old /\ verdict[j] = "running" => verdict'[j] = "running"
      /\ \A j \in Jobs : j > jobs' => verdict'[j] = "none"
  BY WorkerAssumption DEF IInv, TypeOK, Verdicts, Update, Unsettled, Jobs
<1>4. CASE old # None /\ old = running
  <2>1. Abort("clear")
    BY <1>4 DEF Update, WorkerEnded
  <2>2. /\ Handles'
        /\ pc' \in {"reap", "fail", "clear", "stopped"}
        /\ (pid' = pid /\ victim' = victim) \/ (pid' = None /\ victim' = pid)
        /\ pid' \in Jobs \cup {None} /\ victim' \in Jobs \cup {None}
        /\ after' \in {"start", "fail", "clear", "stopped", "none"}
        /\ ~ (after' = "fail" \/ pc' = "fail")
        /\ after' # "start"
        /\ UNCHANGED <<active, fd, eofSeen, late>>
    BY <1>1, <2>1, AbortHandles DEF IInv, InAbort, runtime
  <2>3. TypeOK'
    BY <1>1, <1>2, <2>2 DEF IInv, TypeOK, runtime
  <2>4. Children'
    BY <1>1, <2>2, WorkerAssumption DEF IInv, TypeOK, Handles, Children, Exists, InAbort
  <2>5. Bytes'
    BY <1>1, <2>2 DEF IInv, Bytes, Loop
  <2>6. Verdicts'
    BY <1>1, <1>3, <1>4, <2>2 DEF IInv, Verdicts, Loop, runtime
  <2> QED  BY <2>2, <2>3, <2>4, <2>5, <2>6 DEF IInv
<1>5. CASE ~ (old # None /\ old = running)
  <2>1. pc' = "turn" /\ UNCHANGED <<handle, reaping>>
    BY <1>5 DEF Update, WorkerEnded
  <2>2. TypeOK'
    BY <1>1, <1>2, <2>1 DEF IInv, TypeOK, handle, reaping, runtime
  <2>3. Handles'
    BY <1>1, <2>1 DEF IInv, Handles, Loop, InAbort, handle, reaping, runtime
  <2>4. Children'
    BY <1>1, <2>1 DEF IInv, Handles, Children, Exists, InAbort, handle, reaping
  <2>5. Bytes'
    BY <1>1, <2>1 DEF IInv, Bytes, Loop, WriteEndOpen, handle, runtime
  <2>6. Verdicts'
    BY <1>1, <1>3, <1>5, <2>1, WorkerAssumption
    DEF IInv, Handles, Verdicts, Loop, InAbort, reaping, runtime
  <2> QED  BY <2>2, <2>3, <2>4, <2>5, <2>6 DEF IInv
<1> QED  BY <1>4, <1>5

\* CloseDocument keeps the invariant.
LEMMA CloseDocumentIInv ==
  ASSUME IInv, NEW old \in Unsettled, CloseDocument(old)
  PROVE  IInv'
<1>1. pc = "frame" /\ UNCHANGED <<runtime, procs, signal, inputEof, serving>>
  BY DEF CloseDocument, Frame
<1>2. /\ verdict' \in [Jobs -> {"none", "queued", "running"} \cup Ended]
      /\ jobs' \in 0 .. MaxJobs /\ frames' \in 0 .. MaxFrames
  BY WorkerAssumption DEF IInv, TypeOK, CloseDocument, Frame, Ended, Unsettled
<1>3. /\ \A j \in Jobs : verdict'[j] = "running" => verdict[j] = "running" /\ j # old
      /\ \A j \in Jobs : j # old /\ verdict[j] = "running" => verdict'[j] = "running"
      /\ \A j \in Jobs : j > jobs' => verdict'[j] = "none"
  BY WorkerAssumption DEF IInv, TypeOK, Verdicts, CloseDocument, Unsettled, Jobs
<1>4. CASE old # None /\ old = running
  <2>1. Abort("clear")
    BY <1>4 DEF CloseDocument, WorkerEnded
  <2>2. /\ Handles'
        /\ pc' \in {"reap", "fail", "clear", "stopped"}
        /\ (pid' = pid /\ victim' = victim) \/ (pid' = None /\ victim' = pid)
        /\ pid' \in Jobs \cup {None} /\ victim' \in Jobs \cup {None}
        /\ after' \in {"start", "fail", "clear", "stopped", "none"}
        /\ ~ (after' = "fail" \/ pc' = "fail")
        /\ after' # "start"
        /\ UNCHANGED <<active, fd, eofSeen, late>>
    BY <1>1, <2>1, AbortHandles DEF IInv, InAbort, runtime
  <2>3. TypeOK'
    BY <1>1, <1>2, <2>2 DEF IInv, TypeOK, runtime
  <2>4. Children'
    BY <1>1, <2>2, WorkerAssumption DEF IInv, TypeOK, Handles, Children, Exists, InAbort
  <2>5. Bytes'
    BY <1>1, <2>2 DEF IInv, Bytes, Loop
  <2>6. Verdicts'
    BY <1>1, <1>3, <1>4, <2>2 DEF IInv, Verdicts, Loop, runtime
  <2> QED  BY <2>2, <2>3, <2>4, <2>5, <2>6 DEF IInv
<1>5. CASE ~ (old # None /\ old = running)
  <2>1. pc' = "turn" /\ UNCHANGED <<handle, reaping>>
    BY <1>5 DEF CloseDocument, WorkerEnded
  <2>2. TypeOK'
    BY <1>1, <1>2, <2>1 DEF IInv, TypeOK, handle, reaping, runtime
  <2>3. Handles'
    BY <1>1, <2>1 DEF IInv, Handles, Loop, InAbort, handle, reaping, runtime
  <2>4. Children'
    BY <1>1, <2>1 DEF IInv, Handles, Children, Exists, InAbort, handle, reaping
  <2>5. Bytes'
    BY <1>1, <2>1 DEF IInv, Bytes, Loop, WriteEndOpen, handle, runtime
  <2>6. Verdicts'
    BY <1>1, <1>3, <1>5, <2>1, WorkerAssumption
    DEF IInv, Handles, Verdicts, Loop, InAbort, reaping, runtime
  <2> QED  BY <2>2, <2>3, <2>4, <2>5, <2>6 DEF IInv
<1> QED  BY <1>4, <1>5

-----------------------------------------------------------------------------
(***************************************************************************)
(* The theorems.                                                           *)
(***************************************************************************)

\* The invariant holds at the start.
LEMMA InitIInv == Init => IInv
<1> SUFFICES ASSUME Init PROVE IInv
  OBVIOUS
<1>1. NoProcess \in Process
  BY WorkerAssumption DEF NoProcess, Process, Sizes
<1>2. procs \in [Jobs -> Process]
      /\ \A j \in Jobs : procs[j].state = "none" /\ procs[j].ok = FALSE
  BY <1>1 DEF Init, NoProcess
<1>3. verdict \in [Jobs -> {"none"}]
  BY DEF Init
<1>4. TypeOK
  <2>1. 0 \in 0 .. MaxPacket /\ 0 \in 0 .. MaxJobs /\ 0 \in 0 .. MaxFrames
    BY WorkerAssumption
  <2>2. verdict \in [Jobs -> {"none", "queued", "running"} \cup Ended]
    BY <1>3 DEF Ended
  <2> QED  BY <1>2, <2>1, <2>2 DEF Init, TypeOK
<1>5. Handles
  BY WorkerAssumption DEF Init, Handles, Loop, InAbort
<1>6. Children
  BY <1>2, WorkerAssumption DEF Init, Children, Exists
<1>7. Bytes
  BY <1>2, WorkerAssumption DEF Init, Bytes
<1>8. Verdicts
  BY <1>3, WorkerAssumption DEF Init, Verdicts
<1> QED  BY <1>4, <1>5, <1>6, <1>7, <1>8 DEF IInv

\* Every step keeps the invariant.
LEMMA NextIInv ==
  ASSUME IInv, [Next]_vars
  PROVE  IInv'
<1>1. CASE Start
  BY <1>1, NothingToStartIInv, StartFailsIInv, StartWorkerIInv, StartUndoneIInv
  DEF Start
<1>2. CASE ClientFrame
  BY <1>2, IgnoredMessageIInv, ShutdownIInv, ExitIInv, UpdateIInv, CloseDocumentIInv
  DEF ClientFrame
<1>3. CASE Collect
  BY <1>3, ReadFailsIInv, ReadEofIInv, NothingToReadIInv, ReadBytesIInv, FinishFailsIInv,
     StillRunningIInv, FinishedIInv, FailIInv, ClearIInv
  DEF Collect, Drain
<1>4. CASE Aborting
  BY <1>4, ReapIInv, KillIInv, ReapKilledIInv, CloseWorkerIInv DEF Aborting
<1>5. CASE Turn \/ NoFrame \/ Leave
  BY <1>5, TurnIInv, NoFrameIInv, LeaveIInv
<1>6. CASE Wait \/ InputReady \/ InputFails
  BY <1>6, WaitIInv
<1>7. CASE Child \/ Signal \/ Tick
  BY <1>7, ChildIInv, SignalIInv, TickIInv
<1>8. CASE UNCHANGED vars
  BY <1>8
  DEF vars, IInv, TypeOK, Handles, Children, Bytes, Verdicts, Exists,
      WriteEndOpen,
     handle, reaping, runtime, client
<1> QED
  BY <1>1, <1>2, <1>3, <1>4, <1>5, <1>6, <1>7, <1>8 DEF Next, Parent, Stopped

\* The inductive invariant of the process layer.
THEOREM InvariantHolds == Spec => []IInv
<1>1. Init => IInv
  BY InitIInv
<1>2. IInv /\ [Next]_vars => IInv'
  BY NextIInv
<1> QED  BY <1>1, <1>2, PTL DEF Spec

\* The variables of the process layer have their types.
THEOREM TypeCorrect == Spec => []TypeOK
<1>1. IInv => TypeOK
  BY DEF IInv
<1> QED  BY <1>1, InvariantHolds, PTL

\* No child and no pipe is ever lost, whichever path ends a job, and none is left
\* when the server has ended.
THEOREM NoChildIsLost == Spec => []NoStrayChild
<1>1. IInv => NoStrayChild
  BY WorkerAssumption DEF IInv, TypeOK, Handles, Children, NoStrayChild, Exists, InAbort
<1> QED  BY <1>1, InvariantHolds, PTL

\* The server never sends SIGKILL to a process id it has already reaped.
THEOREM SignalsOwnChild == Spec => []KillsOwnChild
<1>1. IInv => KillsOwnChild
  BY DEF IInv, TypeOK, Handles, Children, KillsOwnChild, InAbort
<1> QED  BY <1>1, InvariantHolds, PTL

\* Event loop and process layer agree on the running worker between two calls.
THEOREM LoopAndProcessAgree == Spec => []RuntimeAgrees
<1>1. IInv => RuntimeAgrees
  BY WorkerAssumption DEF IInv, TypeOK, Handles, Verdicts, RuntimeAgrees, Loop, InAbort
<1> QED  BY <1>1, InvariantHolds, PTL

\* The verdicts a step other than Finished gives are not "committed".
LEMMA OnlyFinishedCommits ==
  ASSUME IInv, [Next]_vars, ~ Finished,
         NEW j \in Jobs, verdict[j] # "committed"
  PROVE  verdict'[j] # "committed"
<1> USE DEF IInv, TypeOK
<1>1. CASE Start
  BY <1>1 DEF Start, NothingToStart, StartFails, StartWorker, StartUndone
<1>2. CASE ClientFrame
  BY <1>2 DEF ClientFrame, IgnoredMessage, Shutdown, Exit, Update, CloseDocument
<1>3. CASE Collect
  BY <1>3 DEF Collect, Drain, ReadFails, ReadEof, NothingToRead, ReadBytes, FinishFails,
     StillRunning, Fail, Clear
<1>4. CASE Aborting
  BY <1>4 DEF Aborting, Reap, Kill, ReapKilled, CloseWorker
<1>5. CASE \/ Turn \/ NoFrame \/ Leave \/ Wait \/ InputReady \/ InputFails
           \/ Child \/ Signal \/ Tick \/ UNCHANGED vars
  BY <1>5 DEF Turn, NoFrame, Leave, Wait, CheckSignal, Arm, PollTimesOut, WorkerReady,
     InputReady, InputFails, quietWait, Child, Signal, Tick, vars
<1> QED
  BY <1>1, <1>2, <1>3, <1>4, <1>5 DEF Next, Parent, Stopped

\* What is committed is a whole packet of a child that exited with 0, for the
\* job that runs.
THEOREM OnlyWholePackets == Spec => CommitIsWhole
<1> DEFINE Whole == \A j \in Jobs :
        verdict[j] # "committed" /\ verdict'[j] = "committed" =>
            /\ running = j
            /\ procs[j].ok
            /\ packet = procs[j].size
<1>1. IInv /\ [Next]_vars => [Whole]_vars
  <2>1. SUFFICES ASSUME IInv, [Next]_vars PROVE Whole
    OBVIOUS
  <2>2. SUFFICES ASSUME NEW j \in Jobs, verdict[j] # "committed", verdict'[j] = "committed"
                 PROVE  running = j /\ procs[j].ok /\ packet = procs[j].size
    OBVIOUS
  <2>3. Finished
    BY <2>1, <2>2, OnlyFinishedCommits
  <2>4. running = j /\ ExitedWell(pid)
    BY <2>1, <2>2, <2>3 DEF Finished, IInv, TypeOK
  <2>5. pid = j /\ eofSeen /\ pc \in Loop
    BY <2>1, <2>3, <2>4, WorkerAssumption
    DEF Finished, IInv, TypeOK, Handles, Loop, InAbort
  <2>6. procs[j].ok /\ procs[j].left = 0 /\ procs[j].pipe = 0
    BY <2>1, <2>4, <2>5 DEF IInv, Bytes, ExitedWell
  <2>7. packet + procs[j].pipe + procs[j].left = procs[j].size
    BY <2>1, <2>5 DEF IInv, Bytes
  <2> QED
    BY <2>1, <2>4, <2>6, <2>7 DEF IInv, TypeOK
<1> QED
  BY <1>1, InvariantHolds, PTL DEF Spec, CommitIsWhole

\* Steps that give no verdict are steps or stutters of OneShotWorker.
LEMMA SilentStep ==
  ASSUME verdict' = verdict, pc # "stopped" \/ pc' = pc
  PROVE  [Outcome!Next]_(Outcome!vars)
  BY DEF Outcome!Next, Outcome!End, Outcome!vars

\* Every step of WorkerProcess is a step of OneShotWorker, or a stutter.
LEMMA OutcomeStep ==
  ASSUME IInv, [Next]_vars
  PROVE  [Outcome!Next]_(Outcome!vars)
<1> USE DEF Jobs, Outcome!Jobs
<1>1. CASE Start
  <2>1. CASE NothingToStart
    BY <2>1, SilentStep DEF NothingToStart
  <2>2. ASSUME NEW j \in Jobs, StartFails(j)
        PROVE  Outcome!Fail(j) /\ pc # "stopped" /\ pc' # "stopped"
    BY <2>2 DEF StartFails, Queued, Outcome!Fail
  <2>3. ASSUME NEW j \in Jobs, NEW size \in Sizes, StartWorker(j, size)
        PROVE  Outcome!Start(j) /\ pc # "stopped" /\ pc' # "stopped"
    BY <2>3, WorkerAssumption DEF StartWorker, Queued, IInv, Verdicts,
       Outcome!Start, Outcome!Idle
  <2>4. ASSUME NEW j \in Jobs, NEW size \in Sizes, StartUndone(j, size)
        PROVE  [Outcome!Next]_(Outcome!vars)
    BY <2>4, SilentStep DEF StartUndone
  <2> QED
    BY <1>1, <2>1, <2>2, <2>3, <2>4 DEF Start, Outcome!Next
<1>2. CASE ClientFrame
  <2>1. CASE IgnoredMessage \/ Exit
    BY <2>1, SilentStep DEF IgnoredMessage, Exit, Frame
  <2>2. ASSUME NEW old \in Unsettled, CloseDocument(old)
        PROVE  Outcome!Drop(old) /\ old \in Jobs /\ pc # "stopped" /\ pc' # "stopped"
    BY <2>2 DEF CloseDocument, Frame, WorkerEnded, Abort, Unsettled, Outcome!Drop
  <2>3. ASSUME NEW old \in Unsettled \cup {None}, Update(old)
        PROVE  /\ jobs + 1 \in Jobs /\ Outcome!Accept(jobs + 1)
               /\ pc # "stopped" /\ pc' # "stopped"
    <3>1. jobs + 1 \in Jobs /\ verdict[jobs + 1] = "none"
      BY <2>3, WorkerAssumption DEF Update, IInv, TypeOK, Verdicts
    <3>2. pc # "stopped" /\ pc' # "stopped"
      BY <2>3 DEF Update, Frame, WorkerEnded, Abort
    <3>3. CASE old \in Unsettled
      <4>1. verdict' = [verdict EXCEPT ![jobs + 1] = "queued", ![old] = "dropped"]
        BY <2>3, <3>1, <3>3 DEF Update, IInv, TypeOK, Unsettled
      <4> QED  BY <3>1, <3>2, <3>3, <4>1 DEF Unsettled, Outcome!Accept
    <3>4. CASE old = None
      <4>1. verdict' = [verdict EXCEPT ![jobs + 1] = "queued"]
        BY <2>3, <3>1, <3>4, WorkerAssumption DEF Update, IInv, TypeOK
      <4> QED  BY <3>1, <3>2, <4>1 DEF Outcome!Accept
    <3> QED  BY <3>3, <3>4
  <2>4. CASE Shutdown
    <3>1. pc # "stopped" /\ pc' # "stopped"
      BY <2>4 DEF Shutdown, Frame, Abort
    <3>2. CASE running = None
      <4>1. verdict' = verdict
        BY <2>4, <3>2, WorkerAssumption DEF Shutdown, IInv, TypeOK
      <4> QED  BY <3>1, <4>1, SilentStep
    <3>3. CASE running # None
      <4>1. running \in Jobs /\ verdict[running] = "running"
        BY <2>4, <3>3 DEF Shutdown, Frame, IInv, TypeOK, Verdicts, Loop
      <4>2. verdict' = [verdict EXCEPT ![running] = "dropped"]
        BY <2>4, <4>1 DEF Shutdown, IInv, TypeOK
      <4>3. Outcome!Drop(running)
        BY <4>1, <4>2 DEF Outcome!Drop
      <4> QED  BY <3>1, <4>1, <4>3 DEF Outcome!Next
    <3> QED  BY <3>2, <3>3
  <2> QED
    <3>1. CASE \E old \in Unsettled : CloseDocument(old)
      BY <3>1, <2>2 DEF Outcome!Next
    <3>2. CASE \E old \in Unsettled \cup {None} : Update(old)
      BY <3>2, <2>3 DEF Outcome!Next
    <3> QED  BY <1>2, <2>1, <2>4, <3>1, <3>2 DEF ClientFrame
<1>3. CASE Finished \/ Fail
  <2>1. running \in Jobs /\ verdict[running] = "running"
    BY <1>3 DEF Finished, Fail, IInv, TypeOK, Handles, Verdicts, Loop
  <2>2. pc # "stopped" /\ pc' # "stopped"
    BY <1>3 DEF Finished, Fail, Abort
  <2>3. \/ verdict' = verdict
        \/ Outcome!Commit(running)
        \/ Outcome!Fail(running)
    BY <1>3, <2>1 DEF Finished, Fail, runtime, Outcome!Commit, Outcome!Fail
  <2> QED  BY <2>1, <2>2, <2>3, SilentStep DEF Outcome!Next
<1>4. CASE CloseWorker
  <2>1. CASE after = "start"
    <3>1. /\ victim \in Jobs /\ verdict[victim] = "queued"
          /\ pc # "stopped" /\ pc' # "stopped"
      BY <1>4, <2>1 DEF CloseWorker, IInv, TypeOK, Handles, Verdicts, InAbort
    <3>2. Outcome!Fail(victim)
      BY <1>4, <2>1, <3>1 DEF CloseWorker, Outcome!Fail
    <3> QED  BY <3>1, <3>2 DEF Outcome!Next
  <2>2. CASE after # "start"
    BY <1>4, <2>2, SilentStep DEF CloseWorker
  <2> QED  BY <2>1, <2>2
<1>5. CASE \/ ReadFails \/ ReadEof \/ NothingToRead \/ FinishFails \/ StillRunning \/ Clear
           \/ (\E n \in 1 .. procs[fd].pipe : ReadBytes(n))
           \/ Reap \/ Kill \/ ReapKilled \/ Leave \/ Turn \/ NoFrame
  BY <1>5, SilentStep
  DEF ReadFails, ReadEof, NothingToRead, FinishFails, StillRunning, Clear, ReadBytes, Reap,
      Kill, ReapKilled, Leave, Turn, NoFrame
<1>6. CASE Wait \/ InputReady \/ InputFails
  BY <1>6, SilentStep
  DEF Wait, CheckSignal, Arm, PollTimesOut, WorkerReady, InputReady, InputFails, quietWait
<1>7. CASE Child \/ Signal \/ Tick \/ UNCHANGED vars
  BY <1>7, SilentStep DEF Child, Signal, Tick, vars
<1> QED
  BY <1>1, <1>2, <1>3, <1>4, <1>5, <1>6, <1>7
  DEF Next, Parent, Collect, Drain, Aborting, Stopped

\* For every job the process layer behaves as OneShotWorker: one job at a time,
\* one final verdict each.
THEOREM ImplementsOneShotWorker == Spec => Outcome!Safety
<1>1. Init => Outcome!Init
  BY DEF Init, Outcome!Init, Jobs, Outcome!Jobs
<1>2. IInv /\ [Next]_vars => [Outcome!Next]_(Outcome!vars)
  BY OutcomeStep
<1> QED
  BY <1>1, <1>2, InvariantHolds, PTL DEF Spec, Outcome!Safety

=============================================================================
