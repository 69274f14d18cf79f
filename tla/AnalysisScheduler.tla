--------------------------- MODULE AnalysisScheduler ---------------------------
(***************************************************************************)
(* The single-threaded event loop of the language server together with its *)
(* one-shot analysis worker: document snapshots, the queue of requests     *)
(* that wait for an analysis, the derived-cache budget and the diagnostics *)
(* the client has been shown (src/main.elisa, src/documents.elisa).        *)
(*                                                                         *)
(* The client is the environment: whenever the loop asks for a frame, any  *)
(* legal message may be there, or none.  The forked child is reduced to    *)
(* its outcome; WorkerProcess models the process itself.  The four derived *)
(* blobs of a snapshot (tokens, symbols, hover, signatures) are one blob,  *)
(* because every operation of the code treats them alike.                  *)
(***************************************************************************)
EXTENDS Integers, FiniteSets, FiniteSetsExt

CONSTANTS
    Spellings,       \* document URIs as the client spells them
    Canonical,       \* the canonical URI of each spelling
    Texts,           \* document contents
    Size,            \* bytes of source, and of derived data, of each content
    Ids,             \* request identifiers
    Methods,         \* the request methods the client uses
    None,            \* an absent text, spelling, report or worker
    MaxDocs,         \* lsp_max_open_documents
    SourceLimit,     \* lsp_max_open_source_bytes
    CacheLimit,      \* lsp_max_derived_cache_bytes
    MaxPending,      \* MAX_PENDING_ANALYSIS_REQUESTS
    AccessWrap,      \* where lsp_cache_access_clock restarts
    MaxOutstanding,  \* requests in flight under one id; 1 is a correct client
    MaxVersion,      \* bound: the client's document versions are 1..MaxVersion
    MaxJobs          \* bound: number of snapshots accepted in a behaviour

Uris     == {Canonical[sp] : sp \in Spellings}
Slots    == 1 .. MaxDocs
Versions == 1 .. MaxVersion

AllMethods == {"hover", "completion", "semanticTokens", "foldingRange"}

ASSUME SchedulerAssumption ==
    /\ None \notin Spellings \cup Texts \cup Uris
    /\ Canonical \in [Spellings -> Uris]
    /\ Size \in [Texts -> Nat]
    /\ Methods \subseteq AllMethods
    /\ {MaxDocs, CacheLimit, AccessWrap, MaxOutstanding} \subseteq Nat \ {0}
    /\ {SourceLimit, MaxPending, MaxVersion, MaxJobs} \subseteq Nat

VARIABLES
    docs,       \* the document table: documents[slot]
    queue,      \* deferred requests, each with its index in the array
    worker,     \* the running analysis job (LspAnalysisWorkerRuntime), or None
    lifecycle,  \* "Running" or "ShutdownRequested"
    jobs,       \* lsp_analysis_job_sequence
    clock,      \* lsp_cache_access_clock
    pc,         \* where the loop of main() is
    owed,       \* for each id, the requests sent and not yet answered
    shown,      \* the diagnostics the client shows under each spelling
    served      \* the URI an analysis provider answered about in this step, or None

serverVars == <<docs, queue, worker, lifecycle, jobs, clock>>
vars == <<docs, queue, worker, lifecycle, jobs, clock, pc, owed, shown, served>>

Report == [spelling : Spellings, version : Versions, text : Texts]

Document ==
    [open : BOOLEAN, uri : Uris \cup {None}, spelling : Spellings \cup {None},
     version : Int, generation : Int, job : Nat,
     state : {"Pending", "Ready", "Failed"}, queued : BOOLEAN,
     text : Texts \cup {None}, cache : Texts \cup {None},
     capacity : Nat, access : Nat, diag : Report \cup {None}]

Request ==
    [id : Ids, index : Nat, method : Methods, spelling : Spellings, slot : Slots,
     job : Nat, generation : Int, version : Int, ready : BOOLEAN]

Worker ==
    [slot : Slots, job : Nat, generation : Int, version : Versions,
     spelling : Spellings, text : Texts]

\* What a client shows: nothing yet, an emptied list, or findings about a text.
Shown == [version : Versions, text : Texts \cup {None}]

\* None is unlike anything it stands for the absence of.
ASSUME NoneAssumption == None \notin Report \cup Worker \cup Shown

TypeOK ==
    /\ docs \in [Slots -> Document]
    /\ queue \subseteq Request
    /\ IsFiniteSet(queue)
    /\ worker \in Worker \cup {None}
    /\ lifecycle \in {"Running", "ShutdownRequested"}
    /\ jobs \in 0 .. MaxJobs
    /\ clock \in 0 .. AccessWrap
    /\ pc \in {"start", "frame", "wait", "stopped"}
    /\ owed \in [Ids -> Int]
    /\ shown \in [Spellings -> Shown \cup {None}]
    /\ served \in Uris \cup {None}

-----------------------------------------------------------------------------
(***************************************************************************)
(* Document snapshots.                                                     *)
(***************************************************************************)

\* A free slot of the table.  Generation -1 is a slot not appended yet, so
\* that taking any free slot advances the generation, as document_slot does.
FreeDocument(g) ==
    [open |-> FALSE, uri |-> None, spelling |-> None, version |-> -1,
     generation |-> g, job |-> 0, state |-> "Pending", queued |-> FALSE,
     text |-> None, cache |-> None, capacity |-> 0, access |-> 0, diag |-> None]

\* Mutant: the new snapshot is not queued for analysis.
SnapshotNotQueued(d, g, sp, v, t, j) ==
    [d EXCEPT !.open = TRUE, !.uri = Canonical[sp], !.spelling = sp,
              !.version = v, !.generation = g, !.job = j, !.state = "Pending",
              !.text = t, !.cache = None]

\* document_begin_snapshot and document_assign_analysis_job: the lengths of
\* the derived blobs drop to zero, their capacity and access stamp stay.
SnapshotAccepted(d, g, sp, v, t, j) ==
    [d EXCEPT !.open = TRUE, !.uri = Canonical[sp], !.spelling = sp,
              !.version = v, !.generation = g, !.job = j, !.state = "Pending",
              !.queued = TRUE, !.text = t, !.cache = None]

\* Mutants: the verdict is forgotten, or the failed job stays queued.
FailedWithoutVerdict(d) ==
    [d EXCEPT !.queued = FALSE, !.cache = None, !.diag = None]

FailedButQueued(d) ==
    [d EXCEPT !.state = "Failed", !.queued = TRUE, !.cache = None, !.diag = None]

AnalysisFailed(d) ==
    [d EXCEPT !.state = "Failed", !.queued = FALSE, !.cache = None, !.diag = None]

\* A blob is stored in place when it fits, else appended with as much spare room.
Reserved(d, n) ==
    IF d.capacity >= n /\ d.capacity > 0 THEN d.capacity
    ELSE IF n = 0 THEN 1 ELSE 2 * n

AnalysisReady(d, w) ==
    [d EXCEPT !.state = "Ready", !.queued = FALSE, !.cache = w.text,
              !.capacity = Reserved(d, Size[w.text])]

DerivedCacheCleared(d) ==
    [d EXCEPT !.cache = None, !.capacity = 0, !.access = 0,
              !.state = "Pending", !.queued = FALSE]

Has(s, u) == docs[s].open /\ docs[s].uri = u

\* Mutant: the table is not searched for the URI.
IsAnyFreeSlot(s, u) ==
    /\ ~ docs[s].open
    /\ \A r \in Slots : r < s => docs[r].open

\* document_slot: the slot that has the URI, else the first free one.
IsSlotFor(s, u) ==
    \/ Has(s, u)
    \/ /\ \A r \in Slots : ~ Has(r, u)
       /\ ~ docs[s].open
       /\ \A r \in Slots : r < s => docs[r].open

\* document_source_admission_fits and document_open_metadata_admission_fits.
Admitted(s, t) ==
    LET others == {r \in Slots \ {s} : docs[r].open}
    IN  /\ Cardinality(others) < MaxDocs
        /\ MapThenSumSet(LAMBDA r : Size[docs[r].text], others) + Size[t]
             <= SourceLimit

IsCurrent(d, w) ==
    /\ d.open
    /\ d.job = w.job
    /\ d.generation = w.generation
    /\ d.version = w.version

-----------------------------------------------------------------------------
(***************************************************************************)
(* The derived-cache budget.                                               *)
(***************************************************************************)

Evictable(ds) == {s \in Slots : ds[s].open /\ ds[s].capacity > 0}

Retained(ds, S) == MapThenSumSet(LAMBDA s : ds[s].capacity, S)

LessRecent(ds, r, s) ==
    \/ ds[r].access < ds[s].access
    \/ ds[r].access = ds[s].access /\ r < s

\* Mutant: a document itself is not counted among what is left.
VictimsOneTooFew(ds) ==
    {s \in Evictable(ds) :
        Retained(ds, {r \in Evictable(ds) : LessRecent(ds, s, r)}) > CacheLimit}

\* Least recently used documents go first, until the rest fits the budget:
\* a document goes when what is left without the less recent ones is too much.
Victims(ds) ==
    {s \in Evictable(ds) :
        Retained(ds, {r \in Evictable(ds) : ~ LessRecent(ds, r, s)}) > CacheLimit}

EnforceBudget(ds) ==
    [s \in Slots |-> IF s \in Victims(ds) THEN DerivedCacheCleared(ds[s]) ELSE ds[s]]

\* storage_reclaim rebuilds the byte store without the spare room of any blob.
\* Whether it runs depends on the store's dead bytes, which are not modelled.
Compacted(ds) ==
    [s \in Slots |->
        [ds[s] EXCEPT !.capacity = IF ds[s].cache = None THEN 0
                                   ELSE Size[ds[s].cache]]]

Reclaimed(ds) == {ds, Compacted(ds)}

\* Mutant: the clock does not restart.
TickForever == clock + 1

\* document_touch_cache: the clock restarts, forgetting all stamps, at its end.
Tick == IF clock >= AccessWrap THEN 1 ELSE clock + 1

Touched(ds, s) ==
    [r \in Slots |->
        [ds[r] EXCEPT !.access = IF r = s THEN Tick
                                 ELSE IF clock >= AccessWrap THEN 0 ELSE @]]

-----------------------------------------------------------------------------
(***************************************************************************)
(* Deferred requests.                                                      *)
(***************************************************************************)

WaitsForAnalysis(m) == m \in {"hover", "completion", "semanticTokens"}

Priority(m) == IF m \in {"hover", "completion"} THEN 0 ELSE 1

\* The array closes up when entries leave it.
Reindexed(q) ==
    {[r EXCEPT !.index = Cardinality({x \in q : x.index <= r.index})] : r \in q}

\* Mutants: an edit leaves the waiting requests alone, or leaves them ready.
NotRebound(q, s, d) == q

ReboundStillReady(q, s, d) ==
    {IF r.slot = s
     THEN [r EXCEPT !.job = d.job, !.generation = d.generation,
                    !.version = d.version]
     ELSE r : r \in q}

Rebound(q, s, d) ==
    {IF r.slot = s
     THEN [r EXCEPT !.job = d.job, !.generation = d.generation,
                    !.version = d.version, !.ready = FALSE]
     ELSE r : r \in q}

IsFor(r, s, j, g, v) ==
    r.slot = s /\ r.job = j /\ r.generation = g /\ r.version = v

\* Mutant: only the first request of the queue is released.
MarkedFirstReady(q, s, j, g, v) ==
    {IF IsFor(r, s, j, g, v) /\ r.index = 1 THEN [r EXCEPT !.ready = TRUE]
     ELSE r : r \in q}

MarkedReady(q, s, j, g, v) ==
    {IF IsFor(r, s, j, g, v) THEN [r EXCEPT !.ready = TRUE] ELSE r : r \in q}

\* Mutant: one response, whatever the number of requests.
AnsweredOnce(o, R) ==
    [id \in Ids |-> IF \E r \in R : r.id = id
                       /\ \A x \in R : r.index <= x.index
                    THEN o[id] - 1 ELSE o[id]]

\* One response for every request of R.
Answered(o, R) ==
    [id \in Ids |-> o[id] - Cardinality({r \in R : r.id = id})]

Scheduled(s) == docs[s].queued \/ (worker # None /\ worker.slot = s)

\* Mutant: the running analysis is not taken into account.
DefersWhileQueued(sp, m, s) ==
    /\ WaitsForAnalysis(m)
    /\ Has(s, Canonical[sp])
    /\ docs[s].state = "Pending"
    /\ docs[s].queued

\* pending_analysis_request_enqueue applies: the answer must wait.
Defers(sp, m, s) ==
    /\ WaitsForAnalysis(m)
    /\ Has(s, Canonical[sp])
    /\ docs[s].state = "Pending"
    /\ Scheduled(s)

NewRequest(id, sp, m, s, q) ==
    [id |-> id, index |-> Cardinality(q) + 1, method |-> m, spelling |-> sp,
     slot |-> s, job |-> docs[s].job, generation |-> docs[s].generation,
     version |-> docs[s].version, ready |-> FALSE]

\* Mutant: the limit is checked one request too late.
QueueIsOverfull(q) == Cardinality(q) > MaxPending

QueueIsFull(q) == Cardinality(q) >= MaxPending

\* The end of process_next_message for a request: q is the queue and o the
\* answers owed as it gets there.
Dispatch(id, sp, m, q, o) ==
    \/ \E s \in Slots :
        /\ Defers(sp, m, s)
        /\ \/ \E r \in q :                        \* both get one InvalidRequest
                /\ r.id = id
                /\ queue' = Reindexed(q \ {r})
                /\ owed' = [o EXCEPT ![id] = @ - 1]
           \/ /\ \A r \in q : r.id # id
              /\ QueueIsFull(q)                   \* ServerBusy
              /\ queue' = q
              /\ owed' = [o EXCEPT ![id] = @ - 1]
           \/ /\ \A r \in q : r.id # id
              /\ ~ QueueIsFull(q)
              /\ queue' = q \cup {NewRequest(id, sp, m, s, q)}
              /\ owed' = o
        /\ served' = None
        /\ UNCHANGED <<docs, clock>>
    \/ /\ \A s \in Slots : ~ Defers(sp, m, s)     \* a result, or InternalError
       /\ served' = IF WaitsForAnalysis(m) /\ \E s \in Slots : Has(s, Canonical[sp])
                    THEN Canonical[sp] ELSE None
       /\ queue' = q
       /\ owed' = [o EXCEPT ![id] = @ - 1]
       /\ \/ \E s \in Slots :
              /\ Has(s, Canonical[sp])
              /\ docs[s].state = "Ready"
              /\ docs' = Touched(docs, s)
              /\ clock' = Tick
          \/ /\ \A s \in Slots : ~ (Has(s, Canonical[sp]) /\ docs[s].state = "Ready")
             /\ UNCHANGED <<docs, clock>>

-----------------------------------------------------------------------------
(***************************************************************************)
(* Starting the worker: the first thing each turn of the loop does.        *)
(***************************************************************************)

SlotPriority(s) ==
    Min({2} \cup {Priority(r.method) :
            r \in {x \in queue : /\ ~ x.ready
                                 /\ IsFor(x, s, docs[s].job, docs[s].generation,
                                          docs[s].version)}})

Waiting == {s \in Slots : docs[s].open /\ docs[s].queued}

IsNext(s) ==
    /\ s \in Waiting
    /\ \A r \in Waiting :
        \/ SlotPriority(s) < SlotPriority(r)
        \/ SlotPriority(s) = SlotPriority(r) /\ docs[s].job <= docs[r].job

MayStart == pc = "start" /\ lifecycle = "Running" /\ worker = None

WorkerFor(s) ==
    [slot |-> s, job |-> docs[s].job, generation |-> docs[s].generation,
     version |-> docs[s].version, spelling |-> docs[s].spelling,
     text |-> docs[s].text]

EmptyList(v) == [version |-> v, text |-> None]

StartWorker(s) ==
    /\ MayStart
    /\ IsNext(s)
    /\ worker' = WorkerFor(s)
    /\ docs' = [docs EXCEPT ![s].queued = FALSE]
    /\ pc' = "frame"
    /\ served' = None
    /\ UNCHANGED <<queue, lifecycle, jobs, clock, owed, shown>>

\* The pipe or the fork failed: the job fails and the loop takes the next one.
StartFails(s) ==
    /\ MayStart
    /\ IsNext(s)
    /\ docs' = [docs EXCEPT ![s] = AnalysisFailed(@)]
    /\ shown' = [shown EXCEPT ![docs[s].spelling] = EmptyList(docs[s].version)]
    /\ queue' = MarkedReady(queue, s, docs[s].job, docs[s].generation, docs[s].version)
    /\ served' = None
    /\ UNCHANGED <<worker, lifecycle, jobs, clock, pc, owed>>

NothingToStart ==
    /\ pc = "start"
    /\ \/ lifecycle # "Running"
       \/ worker # None
       \/ Waiting = {}
    /\ pc' = "frame"
    /\ served' = None
    /\ UNCHANGED <<serverVars, owed, shown>>

-----------------------------------------------------------------------------
(***************************************************************************)
(* Messages of the client.                                                 *)
(***************************************************************************)

Receives == pc = "frame" /\ lifecycle = "Running" /\ pc' = "start"

\* Mutant: an edit or a close lets the running analysis go on.
NotAborted(s) == worker

AbortedFor(s) == IF worker # None /\ worker.slot = s THEN None ELSE worker

\* The end of check_and_publish, and what the didOpen/didChange arm does next.
Accept(s, g, sp, v, t) ==
    LET new == SnapshotAccepted(docs[s], g, sp, v, t, jobs + 1)
    IN  /\ jobs < MaxJobs
        /\ Admitted(s, t)
        /\ worker' = AbortedFor(s)
        /\ jobs' = jobs + 1
        /\ docs' \in Reclaimed(EnforceBudget([docs EXCEPT ![s] = new]))
        /\ queue' = Rebound(queue, s, new)
        /\ served' = None
        /\ UNCHANGED <<lifecycle, clock, owed, shown>>

\* A duplicate open starts a new lifetime in the same slot.
DidOpen(sp, v, t) ==
    /\ Receives
    /\ \E s \in Slots :
        /\ IsSlotFor(s, Canonical[sp])
        /\ Accept(s, docs[s].generation + 1, sp, v, t)

DidChange(sp, v, t) ==
    /\ Receives
    /\ \E s \in Slots :
        /\ Has(s, Canonical[sp])
        /\ v > docs[s].version
        /\ Accept(s, docs[s].generation, sp, v, t)

DidClose(sp) ==
    /\ Receives
    /\ \E s \in Slots :
        LET cancelled == {r \in queue : r.slot = s}
        IN  /\ Has(s, Canonical[sp])
            /\ worker' = AbortedFor(s)
            /\ queue' = Reindexed(queue \ cancelled)
            /\ owed' = Answered(owed, cancelled)
            /\ docs' \in Reclaimed([docs EXCEPT
                            ![s] = FreeDocument(docs[s].generation + 1)])
            /\ shown' = [shown EXCEPT ![sp] = EmptyList(docs[s].version)]
    /\ served' = None
    /\ UNCHANGED <<lifecycle, jobs, clock>>

Ask(id, sp, m) ==
    /\ Receives
    /\ owed[id] < MaxOutstanding
    /\ Dispatch(id, sp, m, queue, [owed EXCEPT ![id] = @ + 1])
    /\ UNCHANGED <<worker, lifecycle, jobs, shown>>

Cancel(id) ==
    /\ Receives
    /\ \E r \in queue :
        /\ r.id = id
        /\ queue' = Reindexed(queue \ {r})
        /\ owed' = [owed EXCEPT ![id] = @ - 1]
    /\ served' = None
    /\ UNCHANGED <<docs, worker, lifecycle, jobs, clock, shown>>

\* Mutant: the worker outlives the shutdown request.
ShutdownKeepsWorker ==
    /\ Receives
    /\ owed' = Answered(owed, queue)
    /\ queue' = {}
    /\ lifecycle' = "ShutdownRequested"
    /\ served' = None
    /\ UNCHANGED <<docs, worker, jobs, clock, shown>>

Shutdown ==
    /\ Receives
    /\ owed' = Answered(owed, queue)
    /\ queue' = {}
    /\ worker' = None
    /\ lifecycle' = "ShutdownRequested"
    /\ served' = None
    /\ UNCHANGED <<docs, jobs, clock, shown>>

Exit ==
    /\ pc = "frame"
    /\ owed' = Answered(owed, queue)
    /\ queue' = {}
    /\ worker' = None
    /\ pc' = "stopped"
    /\ served' = None
    /\ UNCHANGED <<docs, lifecycle, jobs, clock, shown>>

\* A stale, malformed or inadmissible update still passes the housekeeping
\* that follows every update.
IgnoredUpdate ==
    /\ Receives
    /\ docs' \in Reclaimed(EnforceBudget(docs))
    /\ served' = None
    /\ UNCHANGED <<queue, worker, lifecycle, jobs, clock, owed, shown>>

\* A message that leaves no trace: a cancellation of nothing, a request that
\* is answered on the spot without a document, anything after shutdown.
IgnoredMessage ==
    /\ pc = "frame"
    /\ pc' = "start"
    /\ served' = None
    /\ UNCHANGED <<serverVars, owed, shown>>

-----------------------------------------------------------------------------
(***************************************************************************)
(* No complete frame is buffered: replay a ready request, else wait.       *)
(***************************************************************************)

Ready == {r \in queue : r.ready}

FirstReady(r) == r \in Ready /\ \A x \in Ready : r.index <= x.index

Replay ==
    /\ pc = "frame"
    /\ \E r \in queue :
        /\ FirstReady(r)
        /\ Dispatch(r.id, r.spelling, r.method, Reindexed(queue \ {r}), owed)
    /\ pc' = "start"
    /\ UNCHANGED <<worker, lifecycle, jobs, shown>>

BlockOnInput ==
    /\ pc = "frame"
    /\ Ready = {}
    /\ pc' = "wait"
    /\ served' = None
    /\ UNCHANGED <<serverVars, owed, shown>>

\* Bytes arrive from the client, or a part of the packet from the worker.
Wake ==
    /\ pc = "wait"
    /\ pc' = "start"
    /\ served' = None
    /\ UNCHANGED <<serverVars, owed, shown>>

-----------------------------------------------------------------------------
(***************************************************************************)
(* Outcomes of the worker, handled while no input is pending.              *)
(***************************************************************************)

\* Mutant: the end of the worker releases nobody.
WorkerEndsSilently ==
    /\ pc = "wait"
    /\ worker # None
    /\ worker' = None
    /\ pc' = "start"
    /\ served' = None
    /\ UNCHANGED <<queue, lifecycle, jobs, owed>>

WorkerEnds ==
    /\ pc = "wait"
    /\ worker # None
    /\ queue' = MarkedReady(queue, worker.slot, worker.job, worker.generation,
                            worker.version)
    /\ worker' = None
    /\ pc' = "start"
    /\ served' = None
    /\ UNCHANGED <<lifecycle, jobs, owed>>

\* mark_analysis_worker_failed
FailJob ==
    /\ docs' = [docs EXCEPT ![worker.slot] = AnalysisFailed(@)]
    /\ shown' = [shown EXCEPT ![docs[worker.slot].spelling] = EmptyList(worker.version)]
    /\ UNCHANGED clock

\* The deadline passed, the child died or overran the packet limit, or the
\* front end's tables were refused: the job fails if it is still current.
WorkerFails ==
    /\ WorkerEnds
    /\ \/ IsCurrent(docs[worker.slot], worker) /\ FailJob
       \/ ~ IsCurrent(docs[worker.slot], worker) /\ UNCHANGED <<docs, clock, shown>>

\* A packet whose framing or identity is wrong fails the slot unconditionally.
PacketRejected ==
    /\ WorkerEnds
    /\ \/ docs[worker.slot].open /\ FailJob
       \/ ~ docs[worker.slot].open /\ UNCHANGED <<docs, clock, shown>>

\* Mutant: the last published report is recognised by its version alone.
SameVersionPublished(d, report) ==
    d.diag # None /\ d.diag.version = report.version

AlreadyPublished(d, report) == d.diag = report

ReportOf(w) == [spelling |-> w.spelling, version |-> w.version, text |-> w.text]

Publish(report) ==
    shown' = [shown EXCEPT ![report.spelling] =
                [version |-> report.version, text |-> report.text]]

\* analysis_worker_commit_packet on a well-formed packet.
WorkerDone ==
    LET s == worker.slot
        d == docs[s]
        report == ReportOf(worker)
        stored == [docs EXCEPT ![s] = AnalysisReady(d, worker)]
        kept == EnforceBudget(Touched(stored, s))
    IN  /\ WorkerEnds
        /\ \/ /\ IsCurrent(d, worker)
              /\ d.text = worker.text
              /\ docs' = [kept EXCEPT ![s].diag = report]
              /\ clock' = Tick
              /\ IF AlreadyPublished(d, report) THEN UNCHANGED shown
                 ELSE Publish(report)
           \/ /\ ~ (IsCurrent(d, worker) /\ d.text = worker.text)
              /\ UNCHANGED <<docs, clock, shown>>

\* A signal, a failed read or write, the end of the input, a framing error:
\* transport_finish ends the session from wherever the loop is.
Terminate ==
    /\ pc # "stopped"
    /\ worker' = None
    /\ pc' = "stopped"
    /\ served' = None
    /\ UNCHANGED <<docs, queue, lifecycle, jobs, clock, owed, shown>>

Stopped == pc = "stopped" /\ UNCHANGED vars

-----------------------------------------------------------------------------
Init ==
    /\ docs = [s \in Slots |-> FreeDocument(-1)]
    /\ queue = {}
    /\ worker = None
    /\ lifecycle = "Running"
    /\ jobs = 0
    /\ clock = 0
    /\ pc = "start"
    /\ owed = [id \in Ids |-> 0]
    /\ shown = [sp \in Spellings |-> None]
    /\ served = None

StartTurn ==
    \/ \E s \in Slots : StartWorker(s) \/ StartFails(s)
    \/ NothingToStart

ClientMessage ==
    \/ \E sp \in Spellings, v \in Versions, t \in Texts :
        DidOpen(sp, v, t) \/ DidChange(sp, v, t)
    \/ \E sp \in Spellings : DidClose(sp)
    \/ \E id \in Ids, sp \in Spellings, m \in Methods : Ask(id, sp, m)
    \/ \E id \in Ids : Cancel(id)
    \/ Shutdown
    \/ Exit
    \/ IgnoredUpdate
    \/ IgnoredMessage

NoFrame == Replay \/ BlockOnInput

WorkerOutcome == WorkerDone \/ WorkerFails \/ PacketRejected

Next ==
    \/ StartTurn
    \/ ClientMessage
    \/ NoFrame
    \/ Wake
    \/ WorkerOutcome
    \/ Terminate
    \/ Stopped

Spec == Init /\ [][Next]_vars

\* The loop itself never stalls.  A chunk of input holds finitely many frames,
\* and the next is read only when none is left and no request is ready.  A
\* worker that runs is over at the latest at its deadline, which the wait
\* reports before it looks at the input (WorkerProcess: ImplementsOutcome).
Fairness ==
    /\ WF_vars(StartTurn)
    /\ SF_vars(NoFrame)
    /\ SF_vars(WorkerOutcome)

FairSpec == Spec /\ Fairness

-----------------------------------------------------------------------------
(***************************************************************************)
(* Properties.                                                             *)
(***************************************************************************)

Live == lifecycle = "Running" /\ pc # "stopped"

\* A URI never has two slots, and an open slot is fully described; a free slot
\* has no analysis to run.  (document_slot, chain_remove, document_close)
OneSlotPerUri ==
    /\ \A s \in Slots : docs[s].open =>
            /\ docs[s].spelling \in Spellings
            /\ docs[s].uri = Canonical[docs[s].spelling]
            /\ docs[s].version \in Versions
            /\ docs[s].text \in Texts
    /\ \A s \in Slots : docs[s].queued => docs[s].open
    /\ \A s, r \in Slots : docs[s].open /\ docs[r].open /\ s # r
            => docs[s].uri # docs[r].uri

\* The worker analyses exactly the snapshot its document holds now: an edit, a
\* reopen or a close of that document has ended every earlier job, so no result
\* of an obsolete source can be committed.
WorkerIsCurrent ==
    worker # None =>
        LET d == docs[worker.slot]
        IN  /\ IsCurrent(d, worker)
            /\ d.text = worker.text
            /\ d.spelling = worker.spelling
            /\ d.state = "Pending"
            /\ ~ d.queued

\* A deferred request stays bound to the current snapshot of the document it
\* names, through edits, reopens and reuse of the slot by another document.
WaitersAreBound ==
    \A r \in queue :
        /\ Has(r.slot, Canonical[r.spelling])
        /\ IsFor(r, r.slot, docs[r.slot].job, docs[r.slot].generation,
                 docs[r.slot].version)
        /\ WaitsForAnalysis(r.method)

\* A request marked ready is answered when it is replayed: its document has no
\* analysis to come, so the replay cannot send it back to the queue.
ReadyMeansSettled ==
    \A r \in queue : r.ready => ~ Scheduled(r.slot)

\* The converse, when nothing is evicted: a request still waits only while the
\* analysis that will release it is queued or running.
NoOrphanedWaiter ==
    Live => \A r \in queue : ~ r.ready => Scheduled(r.slot)

\* When nothing is evicted, a document without a verdict has one coming.
PendingIsScheduled ==
    Live => \A s \in Slots :
                docs[s].open /\ docs[s].state = "Pending" => Scheduled(s)

\* An analysis provider answers about an open document only once that document
\* has its verdict: no early, incomplete answer (method_waits_for_analysis_snapshot).
ServedAfterVerdict ==
    \A s \in Slots :
        docs[s].open /\ docs[s].uri = served => docs[s].state # "Pending"

\* Ready data was derived from the accepted text, and under the spelling the
\* document was last sent with the client shows the findings of that text and
\* version; after a failed analysis it shows an emptied list.
ShownMatchesVerdict ==
    \A s \in Slots : docs[s].open =>
        /\ docs[s].state = "Ready" =>
            /\ docs[s].cache = docs[s].text
            /\ shown[docs[s].spelling] =
                 [version |-> docs[s].version, text |-> docs[s].text]
        /\ docs[s].state = "Failed" =>
            shown[docs[s].spelling] = EmptyList(docs[s].version)

\* Capacity held for derived data never exceeds the configured budget.
CacheBudget == Retained(docs, Evictable(docs)) <= CacheLimit

\* The client has nothing on display for a file that is not open: a close clears
\* the diagnostics of the file (docs/workspace-and-configuration.md).
ClosedShowsNothing ==
    \A sp \in Spellings :
        (\A s \in Slots : ~ Has(s, Canonical[sp]))
            => shown[sp] = None \/ shown[sp].text = None

Deferred(id) == Cardinality({r \in queue : r.id = id})

\* Each request gets one response: what is owed under an id is what waits under
\* it, whatever mix of replay, cancel, close, edit and shutdown released it.
AnsweredExactlyOnce ==
    pc # "stopped" => \A id \in Ids : owed[id] = Deferred(id)

\* The queue is the array the code keeps: distinct ids, indexes 1, 2, 3...,
\* within its limit.
QueueIsArray ==
    /\ Cardinality(queue) <= MaxPending
    /\ {r.index : r \in queue} = 1 .. Cardinality(queue)
    /\ \A q, r \in queue : q.id = r.id => q = r

\* A failed analysis keeps its verdict until the document is edited, reopened
\* or closed (docs/development.md, analysis timeout).
FailedUntilEdit ==
    [][\A s \in Slots :
        docs[s].state = "Failed" /\ docs'[s].job = docs[s].job
            => docs'[s].state = "Failed"]_vars

\* No diagnostics are published and no worker runs once shutdown is accepted.
QuietAfterShutdown ==
    [][lifecycle = "ShutdownRequested"
        => UNCHANGED <<docs, shown, owed>> /\ worker' = None]_vars

\* Every request is answered or the session ends (main.elisa, P01).
EveryRequestCompletes ==
    \A id \in Ids : owed[id] > 0 ~> (owed[id] = 0 \/ pc = "stopped")

\* Every accepted snapshot gets a verdict unless it is replaced or the session
\* ends.
EverySnapshotSettles ==
    \A s \in Slots :
        docs[s].open /\ docs[s].state = "Pending"
            ~> \/ ~ docs[s].open
               \/ docs[s].state # "Pending"
               \/ lifecycle # "Running"
               \/ pc = "stopped"

\* What the table and the queue say of a file and of a request.
SlotsOf(ds, u) == {s \in Slots : ds[s].open /\ ds[s].uri = u}

AcceptedOf(ds, u) ==
    IF SlotsOf(ds, u) = {} THEN None
    ELSE LET d == ds[CHOOSE s \in SlotsOf(ds, u) : TRUE]
         IN  [spelling |-> d.spelling, version |-> d.version, text |-> d.text]

VerdictOf(ds, u) ==
    IF SlotsOf(ds, u) = {} THEN "none"
    ELSE ds[CHOOSE s \in SlotsOf(ds, u) : TRUE].state

WaitsFor(q, id) ==
    IF \E r \in q : r.id = id
    THEN Canonical[(CHOOSE r \in q : r.id = id).spelling] ELSE None

\* What the client sees implements SnapshotService, as long as nothing is evicted.
Service == INSTANCE SnapshotService WITH
    accepted <- [u \in Uris |-> AcceptedOf(docs, u)],
    verdict <- [u \in Uris |-> VerdictOf(docs, u)],
    waits <- [id \in Ids |-> WaitsFor(queue, id)],
    session <- IF pc = "stopped" THEN "over"
               ELSE IF lifecycle = "Running" THEN "open" ELSE "shutdown"

ImplementsService == Service!Spec

=============================================================================
