---------------------------- MODULE SnapshotService ----------------------------
(***************************************************************************)
(* What the analysis scheduler promises to a client, with no worker, no    *)
(* queue and no cache: every file has the snapshot the client sent last    *)
(* and a verdict on it, findings are shown at the moment a snapshot gets   *)
(* its verdict, and a request that had to wait is answered after the       *)
(* verdict on its file, or refused by a cancellation, a close or the end   *)
(* of the session.  AnalysisScheduler implements this specification as     *)
(* long as its cache budget is never exceeded.                             *)
(***************************************************************************)
CONSTANTS Spellings, Canonical, Versions, Texts, Ids, None

Uris == {Canonical[sp] : sp \in Spellings}

VARIABLES
    accepted,  \* the snapshot accepted for each URI, or None
    verdict,   \* "Pending", "Ready" or "Failed"; "none" for a closed URI
    shown,     \* what the client shows under each spelling
    waits,     \* for each id, the URI its request waits for, or None
    session,   \* "open", "shutdown" or "over"
    served     \* the URI an analysis provider answers about in this step, or None

vars == <<accepted, verdict, shown, waits, session, served>>

Init ==
    /\ accepted = [u \in Uris |-> None]
    /\ verdict = [u \in Uris |-> "none"]
    /\ shown = [sp \in Spellings |-> None]
    /\ waits = [id \in Ids |-> None]
    /\ session = "open"
    /\ served = None

\* An open, a reopen or an edit: the new snapshot has no verdict yet.
Take(sp, v, t) ==
    /\ session = "open"
    /\ accepted' = [accepted EXCEPT
            ![Canonical[sp]] = [spelling |-> sp, version |-> v, text |-> t]]
    /\ verdict' = [verdict EXCEPT ![Canonical[sp]] = "Pending"]
    /\ served' = None
    /\ UNCHANGED <<shown, waits, session>>

\* Closing empties the list shown under the spelling and refuses what waits.
Close(sp) ==
    LET u == Canonical[sp]
    IN  /\ session = "open"
        /\ accepted[u] # None
        /\ accepted' = [accepted EXCEPT ![u] = None]
        /\ verdict' = [verdict EXCEPT ![u] = "none"]
        /\ shown' = [shown EXCEPT
                ![sp] = [version |-> accepted[u].version, text |-> None]]
        /\ waits' = [id \in Ids |-> IF waits[id] = u THEN None ELSE waits[id]]
        /\ served' = None
        /\ UNCHANGED session

\* The verdict and what the client shows change together, for that snapshot.
Settle(u, outcome) ==
    /\ session = "open"
    /\ verdict[u] = "Pending"
    /\ verdict' = [verdict EXCEPT ![u] = outcome]
    /\ shown' = [shown EXCEPT
            ![accepted[u].spelling] =
                [version |-> accepted[u].version,
                 text |-> IF outcome = "Ready" THEN accepted[u].text ELSE None]]
    /\ served' = None
    /\ UNCHANGED <<accepted, waits, session>>

Wait(id, u) ==
    /\ session = "open"
    /\ waits[id] = None
    /\ verdict[u] = "Pending"
    /\ waits' = [waits EXCEPT ![id] = u]
    /\ served' = None
    /\ UNCHANGED <<accepted, verdict, shown, session>>

\* A provider answers about a file only after the verdict on it, whether the
\* request had to wait or not.
Answer(id) ==
    /\ session = "open"
    /\ waits[id] # None
    /\ verdict[waits[id]] # "Pending"
    /\ waits' = [waits EXCEPT ![id] = None]
    /\ served' = waits[id]
    /\ UNCHANGED <<accepted, verdict, shown, session>>

AnswerAtOnce(u) ==
    /\ session = "open"
    /\ verdict[u] \in {"Ready", "Failed"}
    /\ served' = u
    /\ UNCHANGED <<accepted, verdict, shown, waits, session>>

Refuse(id) ==
    /\ session = "open"
    /\ waits[id] # None
    /\ waits' = [waits EXCEPT ![id] = None]
    /\ served' = None
    /\ UNCHANGED <<accepted, verdict, shown, session>>

\* Shutdown and exit refuse whatever waits; an abrupt end leaves it unanswered.
End ==
    /\ session # "over"
    /\ session' \in {"shutdown", "over"}
    /\ waits' \in {[id \in Ids |-> None], waits}
    /\ session' = "shutdown" => waits' = [id \in Ids |-> None]
    /\ served' = None
    /\ UNCHANGED <<accepted, verdict, shown>>

\* Steps the client does not see.
Rest ==
    /\ served' = None
    /\ UNCHANGED <<accepted, verdict, shown, waits, session>>

Next ==
    \/ \E sp \in Spellings, v \in Versions, t \in Texts : Take(sp, v, t)
    \/ \E sp \in Spellings : Close(sp)
    \/ \E u \in Uris, outcome \in {"Ready", "Failed"} : Settle(u, outcome)
    \/ \E id \in Ids, u \in Uris : Wait(id, u)
    \/ \E id \in Ids : Answer(id) \/ Refuse(id)
    \/ \E u \in Uris : AnswerAtOnce(u)
    \/ Rest
    \/ End

Spec == Init /\ [][Next]_vars

=============================================================================
