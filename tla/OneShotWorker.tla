----------------------------- MODULE OneShotWorker -----------------------------
(***************************************************************************)
(* What the analysis worker promises to the scheduler, with no process, no *)
(* pipe and no clock: one job at a time, one verdict for each job, and an  *)
(* end to every job that was started, unless the session ends first.       *)
(* WorkerProcess implements this specification.                            *)
(***************************************************************************)
EXTENDS Integers

CONSTANT MaxJobs

Jobs == 1 .. MaxJobs

VARIABLES verdict, session

vars == <<verdict, session>>

Init ==
    /\ verdict = [j \in Jobs |-> "none"]
    /\ session = "open"

Idle == \A j \in Jobs : verdict[j] # "running"

Start(j) ==
    /\ Idle
    /\ verdict[j] = "queued"
    /\ verdict' = [verdict EXCEPT ![j] = "running"]

\* A job that could not be started fails without running.
Fail(j) ==
    /\ verdict[j] \in {"queued", "running"}
    /\ verdict' = [verdict EXCEPT ![j] = "failed"]

Commit(j) ==
    /\ verdict[j] = "running"
    /\ verdict' = [verdict EXCEPT ![j] = "committed"]

\* A snapshot that is closed, or replaced at the same time, has no use for its job.
Drop(j) ==
    /\ verdict[j] \in {"queued", "running"}
    /\ verdict' = [verdict EXCEPT ![j] = "dropped"]

Accept(new) ==
    /\ verdict[new] = "none"
    /\ \/ verdict' = [verdict EXCEPT ![new] = "queued"]
       \/ \E old \in Jobs :
            /\ verdict[old] \in {"queued", "running"}
            /\ verdict' = [verdict EXCEPT ![new] = "queued", ![old] = "dropped"]

End == session' = "over" /\ UNCHANGED verdict

Next ==
    /\ session = "open"
    /\ \/ /\ UNCHANGED session
          /\ \E j \in Jobs : Start(j) \/ Fail(j) \/ Commit(j) \/ Drop(j) \/ Accept(j)
       \/ End

\* The running job ends, whatever the child does.
Finish == Next /\ ~ Idle /\ (Idle \/ session = "over")'

Safety == Init /\ [][Next]_vars

Spec == Safety /\ WF_vars(Finish)

=============================================================================
