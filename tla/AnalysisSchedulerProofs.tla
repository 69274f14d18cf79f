------------------------ MODULE AnalysisSchedulerProofs ------------------------
(***************************************************************************)
(* Proofs about AnalysisScheduler, for any number of files, requests, job  *)
(* numbers and any limits.  The invariant that carries them all relates    *)
(* the document table, the worker, the queue and what the client shows;    *)
(* none of its parts is inductive alone.  The lemmas that come first say   *)
(* what the operators of the model preserve: snapshots of a document,      *)
(* housekeeping of the document table, the rewriting of the queue.         *)
(***************************************************************************)
EXTENDS AnalysisScheduler, TLAPS, FiniteSetTheorems

\* Two states of one snapshot.
SameIdentity(d, e) ==
    /\ e.open = d.open
    /\ e.uri = d.uri
    /\ e.spelling = d.spelling
    /\ e.version = d.version
    /\ e.generation = d.generation
    /\ e.job = d.job
    /\ e.text = d.text

\* Housekeeping (eviction, compaction, access stamps) may drop derived data,
\* which sends a document back to "Pending"; it touches nothing else.
KeptDocument(d, e) ==
    /\ SameIdentity(d, e)
    /\ e.diag = d.diag
    /\ e.queued => d.queued
    /\ \/ e.state = d.state /\ e.cache = d.cache
       \/ e.state = "Pending"

Kept(ds, es) ==
    /\ es \in [Slots -> Document]
    /\ \A s \in Slots : KeptDocument(ds[s], es[s])

\* The size of a content is a number of bytes.
LEMMA SizeType == \A t \in Texts : Size[t] \in Nat
  BY SchedulerAssumption

\* The access clock stays a stamp.
LEMMA TickType == clock \in 0 .. AccessWrap => Tick \in 0 .. AccessWrap
  BY SchedulerAssumption DEF Tick

\* A freed slot is a document without snapshot, verdict or analysis to run.
LEMMA FreeDocumentType ==
  ASSUME NEW g \in Int
  PROVE  /\ FreeDocument(g) \in Document
         /\ ~ FreeDocument(g).open
         /\ ~ FreeDocument(g).queued
         /\ FreeDocument(g).diag = None
  BY DEF FreeDocument, Document

\* An accepted snapshot carries the identity it was accepted under.
LEMMA SnapshotAcceptedType ==
  ASSUME NEW d \in Document, NEW g \in Int, NEW sp \in Spellings,
         NEW v \in Versions, NEW t \in Texts, NEW j \in Nat
  PROVE  LET e == SnapshotAccepted(d, g, sp, v, t, j)
         IN  /\ e \in Document
             /\ e.open
             /\ e.uri = Canonical[sp]
             /\ e.spelling = sp
             /\ e.version = v
             /\ e.generation = g
             /\ e.job = j
             /\ e.state = "Pending"
             /\ e.text = t
             /\ e.diag = d.diag
  <1>1. Canonical[sp] \in Uris /\ v \in Int
    BY SchedulerAssumption DEF Versions
  <1>2. QED
    BY <1>1 DEF SnapshotAccepted, Document

\* A failed document keeps its identity and has no report.
LEMMA AnalysisFailedType ==
  ASSUME NEW d \in Document
  PROVE  LET e == AnalysisFailed(d)
         IN  /\ e \in Document
             /\ SameIdentity(d, e)
             /\ e.state = "Failed"
             /\ ~ e.queued
             /\ e.diag = None
  BY DEF AnalysisFailed, Document, SameIdentity

\* Room is reserved in whole bytes.
LEMMA ReservedType ==
  ASSUME NEW d \in Document, NEW n \in Nat
  PROVE  Reserved(d, n) \in Nat
  BY DEF Reserved, Document

\* A committed packet fills the cache and keeps the identity of the document.
LEMMA AnalysisReadyType ==
  ASSUME NEW d \in Document, NEW w \in Worker
  PROVE  LET e == AnalysisReady(d, w)
         IN  /\ e \in Document
             /\ SameIdentity(d, e)
             /\ e.state = "Ready"
             /\ ~ e.queued
             /\ e.cache = w.text
             /\ e.diag = d.diag
  <1>1. w.text \in Texts
    BY DEF Worker
  <1>2. Reserved(d, Size[w.text]) \in Nat
    BY <1>1, SizeType, ReservedType
  <1>3. QED
    BY <1>1, <1>2 DEF AnalysisReady, Document, SameIdentity

\* A document leaves the queue of analyses unchanged.
LEMMA DequeuedType ==
  ASSUME NEW d \in Document
  PROVE  LET e == [d EXCEPT !.queued = FALSE]
         IN  /\ e \in Document
             /\ KeptDocument(d, e)
             /\ ~ e.queued
             /\ e.state = d.state
             /\ e.cache = d.cache
  BY DEF Document, SameIdentity, KeptDocument

\* The report of a document is replaced without a trace on the rest.
LEMMA ReportedType ==
  ASSUME NEW d \in Document, NEW report \in Report
  PROVE  LET e == [d EXCEPT !.diag = report]
         IN  /\ e \in Document
             /\ SameIdentity(d, e)
             /\ e.queued = d.queued
             /\ e.state = d.state
             /\ e.cache = d.cache
             /\ e.diag = report
  BY DEF Document, SameIdentity

-----------------------------------------------------------------------------
\* Housekeeping composes.
LEMMA KeptTransitive ==
  ASSUME NEW ds \in [Slots -> Document], NEW es, NEW fs,
         Kept(ds, es), Kept(es, fs)
  PROVE  Kept(ds, fs)
  BY DEF Kept, KeptDocument, SameIdentity

\* Doing nothing is housekeeping.
LEMMA KeptReflexive ==
  ASSUME NEW ds \in [Slots -> Document]
  PROVE  Kept(ds, ds)
  BY DEF Kept, KeptDocument, SameIdentity

\* A document whose derived data is dropped keeps its identity and its source.
LEMMA DerivedCacheClearedType ==
  ASSUME NEW d \in Document
  PROVE  LET e == DerivedCacheCleared(d)
         IN  /\ e \in Document
             /\ KeptDocument(d, e)
             /\ ~ e.queued
             /\ e.state = "Pending"
  BY DEF DerivedCacheCleared, Document, SameIdentity, KeptDocument

\* Eviction is housekeeping, whoever the victims are.
LEMMA EnforceBudgetKeeps ==
  ASSUME NEW ds \in [Slots -> Document]
  PROVE  Kept(ds, EnforceBudget(ds))
  BY DerivedCacheClearedType DEF Kept, KeptDocument, SameIdentity, EnforceBudget

\* Compaction of the byte store is housekeeping.
LEMMA CompactedKeeps ==
  ASSUME NEW ds \in [Slots -> Document]
  PROVE  Kept(ds, Compacted(ds))
  <1>1. ASSUME NEW s \in Slots
        PROVE  (IF ds[s].cache = None THEN 0 ELSE Size[ds[s].cache]) \in Nat
    BY SizeType DEF Document
  <1>2. QED
    BY <1>1 DEF Kept, KeptDocument, SameIdentity, Compacted, Document

\* So is whatever storage_reclaim decides.
LEMMA ReclaimedKeeps ==
  ASSUME NEW ds \in [Slots -> Document], NEW es \in Reclaimed(ds)
  PROVE  Kept(ds, es)
  BY CompactedKeeps, KeptReflexive DEF Reclaimed

\* Stamping a document is housekeeping that leaves every verdict alone.
LEMMA TouchedKeeps ==
  ASSUME NEW ds \in [Slots -> Document], NEW s \in Slots, clock \in 0 .. AccessWrap
  PROVE  /\ Kept(ds, Touched(ds, s))
         /\ \A r \in Slots : /\ Touched(ds, s)[r].state = ds[r].state
                             /\ Touched(ds, s)[r].cache = ds[r].cache
  <1>1. Tick \in Nat
    BY TickType, SchedulerAssumption
  <1>2. \A r \in Slots :
            (IF r = s THEN Tick
             ELSE IF clock >= AccessWrap THEN 0 ELSE ds[r].access) \in Nat
    BY <1>1 DEF Document
  <1>3. QED
    BY <1>2 DEF Kept, KeptDocument, SameIdentity, Touched, Document

-----------------------------------------------------------------------------
\* Requests that differ at most in their position and in being ready.
SameBinding(q, r) ==
    /\ q.id = r.id
    /\ q.method = r.method
    /\ q.spelling = r.spelling
    /\ q.slot = r.slot
    /\ q.job = r.job
    /\ q.generation = r.generation
    /\ q.version = r.version

\* The image of a finite set is finite; stated for the function on requests
\* that each rewriting of the queue applies.
LEMMA FiniteImage ==
  ASSUME NEW q, IsFiniteSet(q), NEW f, f = [r \in q |-> f[r]]
  PROVE  IsFiniteSet({f[r] : r \in q})
  <1>1. f \in Surjection(q, {f[r] : r \in q})
    BY DEF Surjection
  <1>2. QED
    BY <1>1, FS_Surjection

\* Closing up the array keeps every request that is left.
LEMMA ReindexedType ==
  ASSUME NEW q \in SUBSET Request, IsFiniteSet(q)
  PROVE  /\ Reindexed(q) \in SUBSET Request
         /\ IsFiniteSet(Reindexed(q))
         /\ \A x \in Reindexed(q) :
                \E r \in q : SameBinding(x, r) /\ x.ready = r.ready
  <1> DEFINE n(r) == Cardinality({x \in q : x.index <= r.index})
             f == [r \in q |-> [r EXCEPT !.index = n(r)]]
  <1>1. ASSUME NEW r \in q
        PROVE  n(r) \in Nat
    BY FS_Subset, FS_CardinalityType, {x \in q : x.index <= r.index} \in SUBSET q
  <1>2. Reindexed(q) = {f[r] : r \in q}
    BY DEF Reindexed
  <1>3. ASSUME NEW r \in q
        PROVE  f[r] \in Request /\ SameBinding(f[r], r) /\ f[r].ready = r.ready
    <2> HIDE DEF n
    <2> QED
      BY <1>1 DEF Request, SameBinding
  <1>4. f = [r \in q |-> f[r]]
    OBVIOUS
  <1> HIDE DEF f
  <1>5. IsFiniteSet({f[r] : r \in q})
    BY <1>4, FiniteImage
  <1>6. QED
    BY <1>2, <1>3, <1>5

\* An edit binds the requests of its slot to the new snapshot and leaves the
\* others alone.
LEMMA ReboundType ==
  ASSUME NEW q \in SUBSET Request, IsFiniteSet(q), NEW s \in Slots,
         NEW d \in Document
  PROVE  /\ Rebound(q, s, d) \in SUBSET Request
         /\ IsFiniteSet(Rebound(q, s, d))
         /\ \A x \in Rebound(q, s, d) :
                \/ x \in q /\ x.slot # s
                \/ \E r \in q :
                    /\ r.slot = s
                    /\ x.slot = s
                    /\ x.method = r.method
                    /\ x.spelling = r.spelling
                    /\ x.job = d.job
                    /\ x.generation = d.generation
                    /\ x.version = d.version
                    /\ ~ x.ready
  <1> DEFINE f == [r \in q |->
                    IF r.slot = s
                    THEN [r EXCEPT !.job = d.job, !.generation = d.generation,
                                   !.version = d.version, !.ready = FALSE]
                    ELSE r]
  <1>1. Rebound(q, s, d) = {f[r] : r \in q}
    BY DEF Rebound
  <1>2. ASSUME NEW r \in q
        PROVE  /\ f[r] \in Request
               /\ r.slot # s => f[r] = r
               /\ r.slot = s => /\ f[r].slot = s
                                /\ f[r].method = r.method
                                /\ f[r].spelling = r.spelling
                                /\ f[r].job = d.job
                                /\ f[r].generation = d.generation
                                /\ f[r].version = d.version
                                /\ ~ f[r].ready
    BY DEF Request, Document
  <1>3. f = [r \in q |-> f[r]]
    OBVIOUS
  <1> HIDE DEF f
  <1>4. IsFiniteSet({f[r] : r \in q})
    BY <1>3, FiniteImage
  <1>5. QED
    BY <1>1, <1>2, <1>4

\* Releasing waiters changes no request but in being ready.
LEMMA MarkedReadyType ==
  ASSUME NEW q \in SUBSET Request, IsFiniteSet(q),
         NEW s, NEW j, NEW g, NEW v
  PROVE  LET p == MarkedReady(q, s, j, g, v)
         IN  /\ p \in SUBSET Request
             /\ IsFiniteSet(p)
             /\ \A x \in p : \E r \in q :
                    /\ SameBinding(x, r)
                    /\ x.ready => r.ready \/ r.slot = s
  <1> DEFINE f == [r \in q |-> IF IsFor(r, s, j, g, v)
                               THEN [r EXCEPT !.ready = TRUE] ELSE r]
  <1>1. MarkedReady(q, s, j, g, v) = {f[r] : r \in q}
    BY DEF MarkedReady
  <1>2. ASSUME NEW r \in q
        PROVE  /\ f[r] \in Request
               /\ SameBinding(f[r], r)
               /\ f[r].ready => r.ready \/ r.slot = s
    BY DEF Request, SameBinding, IsFor
  <1>3. f = [r \in q |-> f[r]]
    OBVIOUS
  <1> HIDE DEF f
  <1>4. IsFiniteSet({f[r] : r \in q})
    BY <1>3, FiniteImage
  <1>5. QED
    BY <1>1, <1>2, <1>4

\* The number of answers owed under an id stays an integer.
LEMMA AnsweredType ==
  ASSUME NEW o \in [Ids -> Int], NEW R, IsFiniteSet(R)
  PROVE  Answered(o, R) \in [Ids -> Int]
  <1>1. ASSUME NEW id \in Ids
        PROVE  Cardinality({r \in R : r.id = id}) \in Nat
    BY FS_Subset, FS_CardinalityType, {r \in R : r.id = id} \in SUBSET R
  <1>2. QED
    BY <1>1 DEF Answered

-----------------------------------------------------------------------------
(***************************************************************************)
(* The invariant.                                                          *)
(***************************************************************************)

\* The report last published for a document is what the client still shows
\* under the spelling it was published for.  AlreadyPublished relies on it.
DiagIsShown ==
    \A s \in Slots : docs[s].diag # None =>
        /\ docs[s].open
        /\ Canonical[docs[s].diag.spelling] = docs[s].uri
        /\ shown[docs[s].diag.spelling] =
             [version |-> docs[s].diag.version, text |-> docs[s].diag.text]

\* Only a document without a verdict is queued for analysis.
QueuedIsPending == \A s \in Slots : docs[s].queued => docs[s].state = "Pending"

\* Nothing waits and nothing runs once shutdown is accepted.
AfterShutdown ==
    lifecycle = "ShutdownRequested" => queue = {} /\ worker = None

\* The inductive invariant.
IInv ==
    /\ TypeOK
    /\ OneSlotPerUri
    /\ WorkerIsCurrent
    /\ WaitersAreBound
    /\ ReadyMeansSettled
    /\ ShownMatchesVerdict
    /\ DiagIsShown
    /\ QueuedIsPending
    /\ AfterShutdown

-----------------------------------------------------------------------------
(***************************************************************************)
(* What single parts of a step preserve.                                   *)
(***************************************************************************)

\* No spelling of one open document is another document's, in its snapshot or
\* in the report last published for it: they name different files.
LEMMA SpellingsDiffer ==
  ASSUME OneSlotPerUri, DiagIsShown, NEW s \in Slots, NEW r \in Slots, s # r,
         NEW sp \in Spellings, docs[s].open, docs[s].uri = Canonical[sp]
  PROVE  /\ docs[r].open => docs[r].spelling # sp
         /\ docs[r].diag # None => docs[r].diag.spelling # sp
  <1>1. docs[r].open => docs[r].uri # Canonical[sp]
    BY DEF OneSlotPerUri
  <1>2. docs[r].open => docs[r].uri = Canonical[docs[r].spelling]
    BY DEF OneSlotPerUri
  <1>3. docs[r].diag # None =>
            docs[r].open /\ Canonical[docs[r].diag.spelling] = docs[r].uri
    BY DEF DiagIsShown
  <1>4. QED
    BY <1>1, <1>2, <1>3

\* An open document is described by legal values.
LEMMA OpenIsDescribed ==
  ASSUME TypeOK, OneSlotPerUri, NEW s \in Slots, docs[s].open
  PROVE  /\ docs[s] \in Document
         /\ docs[s].spelling \in Spellings
         /\ docs[s].uri = Canonical[docs[s].spelling]
         /\ docs[s].version \in Versions
         /\ docs[s].text \in Texts
  BY DEF TypeOK, OneSlotPerUri

\* Verdicts change and snapshots do not.
IdentitiesKept == \A s \in Slots : SameIdentity(docs[s], docs'[s])

\* The table stays well formed while no snapshot changes.
LEMMA OneSlotKept ==
  ASSUME OneSlotPerUri, IdentitiesKept,
         \A s \in Slots : docs'[s].queued => docs[s].queued
  PROVE  OneSlotPerUri'
  BY DEF OneSlotPerUri, IdentitiesKept, SameIdentity

\* Requests stay bound while no snapshot changes.
LEMMA WaitersKept ==
  ASSUME TypeOK, WaitersAreBound, IdentitiesKept,
         \A x \in queue' : \E r \in queue : SameBinding(x, r)
  PROVE  WaitersAreBound'
  <1> SUFFICES ASSUME NEW x \in queue'
               PROVE  (/\ Has(x.slot, Canonical[x.spelling])
                       /\ IsFor(x, x.slot, docs[x.slot].job,
                                docs[x.slot].generation, docs[x.slot].version)
                       /\ WaitsForAnalysis(x.method))'
    BY DEF WaitersAreBound
  <1>1. PICK r \in queue : SameBinding(x, r)
    OBVIOUS
  <1>2. r.slot \in Slots
    BY DEF TypeOK, Request
  <1>3. QED
    BY <1>1, <1>2 DEF WaitersAreBound, IdentitiesKept, SameIdentity, SameBinding,
                      Has, IsFor, WaitsForAnalysis

\* Released requests stay settled while no analysis is scheduled anew.
LEMMA SettledKept ==
  ASSUME ReadyMeansSettled,
         \A s \in Slots : Scheduled(s)' => Scheduled(s),
         queue' \in SUBSET Request,
         \A x \in queue' : x.ready =>
            \/ \E r \in queue : r.ready /\ r.slot = x.slot
            \/ ~ Scheduled(x.slot)'
  PROVE  ReadyMeansSettled'
  <1> SUFFICES ASSUME NEW x \in queue', x.ready
               PROVE  ~ Scheduled(x.slot)'
    BY DEF ReadyMeansSettled
  <1>1. x.slot \in Slots
    BY DEF Request
  <1>2. QED
    BY <1>1 DEF ReadyMeansSettled

\* Housekeeping of the table alone disturbs no part about documents.
LEMMA HousekeepingStep ==
  ASSUME IInv, Kept(docs, docs'), UNCHANGED shown, worker' \in {worker, None}
  PROVE  /\ IdentitiesKept
         /\ OneSlotPerUri'
         /\ WorkerIsCurrent'
         /\ ShownMatchesVerdict'
         /\ DiagIsShown'
         /\ QueuedIsPending'
         /\ \A s \in Slots : Scheduled(s)' => Scheduled(s)
  <1> USE DEF IInv
  <1>1. \A s \in Slots : KeptDocument(docs[s], docs'[s])
    BY DEF Kept
  <1>2. IdentitiesKept
    BY <1>1 DEF IdentitiesKept, KeptDocument
  <1>3. OneSlotPerUri'
    BY <1>1, <1>2, OneSlotKept DEF KeptDocument
  <1>4. WorkerIsCurrent'
    <2> SUFFICES ASSUME worker' # None
                 PROVE  WorkerIsCurrent'
      BY DEF WorkerIsCurrent
    <2>1. worker' = worker /\ worker \in Worker /\ worker.slot \in Slots
      BY DEF TypeOK, Worker
    <2>2. KeptDocument(docs[worker.slot], docs'[worker.slot])
      BY <1>1, <2>1
    <2>3. QED
      BY <2>1, <2>2 DEF WorkerIsCurrent, KeptDocument, SameIdentity, IsCurrent
  <1>5. ShownMatchesVerdict'
    BY <1>1 DEF ShownMatchesVerdict, KeptDocument, SameIdentity, EmptyList
  <1>6. DiagIsShown'
    BY <1>1 DEF DiagIsShown, KeptDocument, SameIdentity
  <1>7. QueuedIsPending'
    BY <1>1 DEF QueuedIsPending, KeptDocument
  <1>8. \A s \in Slots : Scheduled(s)' => Scheduled(s)
    BY <1>1 DEF Scheduled, KeptDocument
  <1>9. QED
    BY <1>2, <1>3, <1>4, <1>5, <1>6, <1>7, <1>8

-----------------------------------------------------------------------------
(***************************************************************************)
(* The invariant holds initially, and one lemma per action.                *)
(***************************************************************************)

\* The loop starts with empty tables.
LEMMA InitIInv == Init => IInv
  <1> SUFFICES ASSUME Init PROVE IInv
    OBVIOUS
  <1>1. FreeDocument(-1) \in Document /\ ~ FreeDocument(-1).open
        /\ ~ FreeDocument(-1).queued /\ FreeDocument(-1).diag = None
    BY FreeDocumentType, -1 \in Int
  <1>2. TypeOK
    BY <1>1, FS_EmptySet, SchedulerAssumption DEF Init, TypeOK
  <1>3. \A s \in Slots : ~ docs[s].open /\ ~ docs[s].queued /\ docs[s].diag = None
    BY <1>1 DEF Init
  <1>4. QED
    BY <1>2, <1>3 DEF Init, IInv, OneSlotPerUri, WorkerIsCurrent, WaitersAreBound,
                      ReadyMeansSettled, ShownMatchesVerdict, DiagIsShown,
                      QueuedIsPending, AfterShutdown

\* A step that only moves the loop preserves the invariant.
LEMMA LoopStep ==
  ASSUME IInv, UNCHANGED <<serverVars, owed, shown>>,
         pc' \in {"start", "frame", "wait", "stopped"}, served' \in Uris \cup {None}
  PROVE  IInv'
  BY DEF IInv, serverVars, TypeOK, OneSlotPerUri, WorkerIsCurrent, WaitersAreBound,
         ReadyMeansSettled, ShownMatchesVerdict, DiagIsShown, QueuedIsPending,
         AfterShutdown, Has, IsFor, IsCurrent, Scheduled

\* The job that starts is the current job of its document.
LEMMA StartWorkerStep ==
  ASSUME IInv, NEW s \in Slots, StartWorker(s)
  PROVE  IInv'
  <1> USE DEF IInv
  <1>1. docs[s].open /\ docs[s].queued /\ worker = None
    BY DEF StartWorker, MayStart, IsNext, Waiting
  <1>2. /\ docs' = [docs EXCEPT ![s] = [docs[s] EXCEPT !.queued = FALSE]]
        /\ UNCHANGED <<queue, shown>>
    BY DEF StartWorker
  <1>3. /\ docs' \in [Slots -> Document]
        /\ \A r \in Slots : KeptDocument(docs[r], docs'[r])
        /\ ~ docs'[s].queued
        /\ docs'[s].state = docs[s].state
    BY <1>2, DequeuedType DEF TypeOK, KeptDocument, SameIdentity
  <1>4. WorkerFor(s) \in Worker /\ worker' = WorkerFor(s)
    BY <1>1, OpenIsDescribed DEF WorkerFor, Worker, Document, StartWorker
  <1>5. TypeOK'
    BY <1>2, <1>3, <1>4, SchedulerAssumption DEF TypeOK, StartWorker
  <1>6. WorkerIsCurrent'
    BY <1>1, <1>3, <1>4 DEF WorkerIsCurrent, IsCurrent, WorkerFor, KeptDocument,
                            SameIdentity, QueuedIsPending
  <1>7. IdentitiesKept
    BY <1>3 DEF IdentitiesKept, KeptDocument
  <1>8. OneSlotPerUri'
    BY <1>3, <1>7, OneSlotKept DEF KeptDocument
  <1>9. WaitersAreBound'
    BY <1>2, <1>7, WaitersKept DEF SameBinding
  <1>10. \A r \in Slots : Scheduled(r)' => Scheduled(r)
    BY <1>1, <1>3, <1>4 DEF Scheduled, KeptDocument, WorkerFor
  <1>11. ReadyMeansSettled'
    BY <1>2, <1>10, SettledKept DEF TypeOK
  <1>12. ShownMatchesVerdict' /\ DiagIsShown' /\ QueuedIsPending'
    BY <1>2, <1>3 DEF ShownMatchesVerdict, DiagIsShown, QueuedIsPending,
                      KeptDocument, SameIdentity, EmptyList
  <1>13. AfterShutdown'
    BY DEF AfterShutdown, StartWorker, MayStart
  <1>14. QED
    BY <1>5, <1>6, <1>8, <1>9, <1>11, <1>12, <1>13

\* A job that fails, whether it ran or could not start, empties the list the
\* client shows for its document and releases those who wait for it.
LEMMA FailStep ==
  ASSUME IInv, NEW s \in Slots, docs[s].open,
         docs' = [docs EXCEPT ![s] = AnalysisFailed(@)],
         shown' = [shown EXCEPT ![docs[s].spelling] = EmptyList(docs[s].version)],
         NEW j, NEW g, NEW v, queue' = MarkedReady(queue, s, j, g, v),
         worker' = None, UNCHANGED <<lifecycle, jobs, clock, owed>>,
         pc' \in {"start", "frame", "wait", "stopped"}, served' = None
  PROVE  IInv'
  <1> USE DEF IInv
  <1>1. /\ docs' \in [Slots -> Document]
        /\ \A r \in Slots : r # s => docs'[r] = docs[r]
        /\ SameIdentity(docs[s], docs'[s])
        /\ docs'[s].state = "Failed"
        /\ ~ docs'[s].queued
        /\ docs'[s].diag = None
    BY AnalysisFailedType DEF TypeOK
  <1>2. IdentitiesKept
    BY <1>1 DEF IdentitiesKept, SameIdentity
  <1>3. /\ queue' \in SUBSET Request
        /\ IsFiniteSet(queue')
        /\ \A x \in queue' : \E r \in queue :
                /\ SameBinding(x, r)
                /\ x.ready => r.ready \/ r.slot = s
    BY MarkedReadyType DEF TypeOK
  <1>4. docs[s].spelling \in Spellings /\ EmptyList(docs[s].version) \in Shown
    BY OpenIsDescribed DEF EmptyList, Shown
  <1>5. TypeOK'
    BY <1>1, <1>3, <1>4 DEF TypeOK
  <1>6. OneSlotPerUri'
    BY <1>1, <1>2, OneSlotKept
  <1>7. WorkerIsCurrent' /\ AfterShutdown'
    BY <1>3 DEF WorkerIsCurrent, AfterShutdown
  <1>8. WaitersAreBound'
    BY <1>2, <1>3, WaitersKept
  <1>9. /\ \A r \in Slots : Scheduled(r)' => Scheduled(r)
        /\ ~ Scheduled(s)'
    BY <1>1 DEF Scheduled
  <1>10. ReadyMeansSettled'
    BY <1>3, <1>9, SettledKept DEF SameBinding
  <1>11. \A r \in Slots : r # s /\ docs[r].open
            => shown'[docs[r].spelling] = shown[docs[r].spelling]
    BY <1>4, SpellingsDiffer, OpenIsDescribed DEF TypeOK
  <1>12. shown'[docs[s].spelling] = EmptyList(docs[s].version)
    BY <1>4 DEF TypeOK
  <1>13. ShownMatchesVerdict'
    BY <1>1, <1>11, <1>12 DEF ShownMatchesVerdict, SameIdentity, EmptyList
  <1>14. ASSUME NEW r \in Slots, r # s, docs[r].diag # None
         PROVE  shown'[docs[r].diag.spelling] = shown[docs[r].diag.spelling]
    <2>1. docs[r].diag.spelling \in Spellings
      BY <1>14 DEF TypeOK, Document, Report
    <2>2. docs[r].diag.spelling # docs[s].spelling
      BY <1>4, <1>14, SpellingsDiffer, OpenIsDescribed
    <2>3. QED
      BY <1>4, <2>1, <2>2 DEF TypeOK
  <1>15. DiagIsShown' /\ QueuedIsPending'
    BY <1>1, <1>14 DEF DiagIsShown, QueuedIsPending
  <1>16. QED
    BY <1>5, <1>6, <1>7, <1>8, <1>10, <1>13, <1>15

\* An analysis that could not start fails.
LEMMA StartFailsStep ==
  ASSUME IInv, NEW s \in Slots, StartFails(s)
  PROVE  IInv'
  <1>1. docs[s].open /\ worker = None
    BY DEF StartFails, MayStart, IsNext, Waiting
  <1>2. pc' \in {"start", "frame", "wait", "stopped"}
    BY DEF StartFails, IInv, TypeOK
  <1>3. QED
    BY <1>1, <1>2, FailStep DEF StartFails

\* What holds of the worker when it ends: its document is open and holds the
\* very snapshot the worker was given.
LEMMA WorkerFacts ==
  ASSUME IInv, worker # None
  PROVE  /\ worker \in Worker
         /\ worker.slot \in Slots
         /\ docs[worker.slot] \in Document
         /\ docs[worker.slot].open
         /\ docs[worker.slot].version = worker.version
         /\ docs[worker.slot].spelling = worker.spelling
         /\ docs[worker.slot].text = worker.text
         /\ IsCurrent(docs[worker.slot], worker)
         /\ docs[worker.slot].state = "Pending"
         /\ ~ docs[worker.slot].queued
  BY DEF IInv, TypeOK, WorkerIsCurrent, IsCurrent, Worker

\* The branches for a worker that is no longer current are never taken.
LEMMA WorkerFailsStep ==
  ASSUME IInv, WorkerFails \/ PacketRejected
  PROVE  IInv'
  <1>1. worker # None /\ WorkerEnds
    BY DEF WorkerFails, PacketRejected, WorkerEnds
  <1>2. FailJob
    BY <1>1, WorkerFacts DEF WorkerFails, PacketRejected
  <1>3. pc' \in {"start", "frame", "wait", "stopped"}
    BY <1>1 DEF WorkerEnds
  <1>4. QED
    BY <1>1, <1>2, <1>3, WorkerFacts, FailStep DEF WorkerEnds, FailJob

\* The committed packet is about the text the client sent last, and what the
\* client shows is that report, whether it is published now or was before.
LEMMA WorkerDoneStep ==
  ASSUME IInv, WorkerDone
  PROVE  IInv'
  <1> USE DEF IInv
  <1> DEFINE s == worker.slot
             report == ReportOf(worker)
             stored == [docs EXCEPT ![s] = AnalysisReady(docs[s], worker)]
             kept == EnforceBudget(Touched(stored, s))
  <1>1. worker # None /\ WorkerEnds
    BY DEF WorkerDone, WorkerEnds
  <1>2. /\ docs' = [kept EXCEPT ![s].diag = report]
        /\ clock' = Tick
        /\ IF docs[s].diag = report THEN UNCHANGED shown ELSE Publish(report)
    BY <1>1, WorkerFacts DEF WorkerDone, AlreadyPublished
  <1>3. /\ stored \in [Slots -> Document]
        /\ \A r \in Slots : r # s => stored[r] = docs[r]
        /\ SameIdentity(docs[s], stored[s])
        /\ ~ stored[s].queued
        /\ stored[s].cache = worker.text
    BY <1>1, WorkerFacts, AnalysisReadyType DEF TypeOK
  <1>4. Kept(stored, kept)
    <2> HIDE DEF stored
    <2>1. Kept(stored, Touched(stored, s))
      BY <1>1, <1>3, WorkerFacts, TouchedKeeps DEF TypeOK
    <2>2. Kept(Touched(stored, s), kept)
      BY <2>1, EnforceBudgetKeeps DEF Kept
    <2>3. QED
      BY <1>3, <2>1, <2>2, KeptTransitive
  <1>5. report \in Report /\ report # None /\ report.spelling \in Spellings
    BY <1>1, WorkerFacts, NoneAssumption DEF ReportOf, Report, Worker
  <1> HIDE DEF stored, kept
  <1>6. /\ docs' \in [Slots -> Document]
        /\ \A r \in Slots : r # s => KeptDocument(docs[r], docs'[r])
    BY <1>1, <1>2, <1>3, <1>4, <1>5, WorkerFacts, ReportedType DEF Kept
  <1>7. /\ SameIdentity(docs[s], docs'[s])
        /\ ~ docs'[s].queued
        /\ docs'[s].diag = report
        /\ \/ docs'[s].cache = docs'[s].text
           \/ docs'[s].state = "Pending"
        /\ docs'[s].state # "Failed"
    <2>1. kept[s] \in Document /\ KeptDocument(stored[s], kept[s])
      BY <1>1, <1>4, WorkerFacts DEF Kept
    <2>2. docs'[s] = [kept[s] EXCEPT !.diag = report]
      BY <1>1, <1>2, <1>4, WorkerFacts DEF Kept
    <2>3. /\ SameIdentity(kept[s], docs'[s])
          /\ docs'[s].queued = kept[s].queued
          /\ docs'[s].state = kept[s].state
          /\ docs'[s].cache = kept[s].cache
          /\ docs'[s].diag = report
      BY <1>5, <2>1, <2>2, ReportedType
    <2>4. docs[s].text = worker.text
      BY <1>1, WorkerFacts
    <2>5. stored[s].state = "Ready"
      BY <1>1, WorkerFacts, AnalysisReadyType DEF TypeOK, stored
    <2>6. QED
      BY <1>3, <2>1, <2>3, <2>4, <2>5 DEF KeptDocument, SameIdentity
  <1>8. /\ shown' \in [Spellings -> Shown \cup {None}]
        /\ \A sp \in Spellings : sp # report.spelling => shown'[sp] = shown[sp]
        /\ shown'[report.spelling] = [version |-> report.version, text |-> report.text]
    <2>1. [version |-> report.version, text |-> report.text] \in Shown
      BY <1>5 DEF Report, Shown
    <2>2. CASE docs[s].diag = report
      <3>1. shown[report.spelling]
                = [version |-> report.version, text |-> report.text]
        BY <1>1, <1>5, <2>2, WorkerFacts DEF DiagIsShown
      <3>2. QED
        BY <1>2, <2>2, <3>1 DEF TypeOK
    <2>3. CASE docs[s].diag # report
      BY <1>2, <1>5, <2>1, <2>3 DEF TypeOK, Publish
    <2>4. QED
      BY <2>2, <2>3
  <1>9. /\ report.spelling = docs[s].spelling
        /\ report.version = docs[s].version
        /\ report.text = docs[s].text
        /\ docs[s].open
        /\ docs[s].uri = Canonical[docs[s].spelling]
    BY <1>1, WorkerFacts, OpenIsDescribed DEF ReportOf
  <1>10. IdentitiesKept
    BY <1>6, <1>7 DEF IdentitiesKept, KeptDocument
  <1>11. \A r \in Slots : docs'[r].queued => docs[r].queued
    BY <1>6, <1>7 DEF KeptDocument
  <1>12. /\ queue' \in SUBSET Request
         /\ IsFiniteSet(queue')
         /\ \A x \in queue' : \E r \in queue :
                /\ SameBinding(x, r)
                /\ x.ready => r.ready \/ r.slot = s
    BY <1>1, MarkedReadyType DEF TypeOK, WorkerEnds
  <1>13. TypeOK'
    BY <1>1, <1>2, <1>6, <1>8, <1>12, TickType DEF TypeOK, WorkerEnds
  <1>14. OneSlotPerUri' /\ WaitersAreBound'
    BY <1>10, <1>11, <1>12, OneSlotKept, WaitersKept
  <1>15. WorkerIsCurrent' /\ AfterShutdown'
    BY <1>1, <1>12 DEF WorkerEnds, WorkerIsCurrent, AfterShutdown
  <1>16. ReadyMeansSettled'
    <2>1. /\ \A r \in Slots : Scheduled(r)' => Scheduled(r)
          /\ \A r \in Slots : r = s => ~ (Scheduled(r)')
      BY <1>1, <1>7, <1>11, WorkerFacts DEF Scheduled, WorkerEnds
    <2>2. QED
      BY <1>1, <1>12, <2>1, WorkerFacts, SettledKept DEF SameBinding
  <1>17. ASSUME NEW r \in Slots, r # s
         PROVE  /\ docs[r].open =>
                    shown'[docs[r].spelling] = shown[docs[r].spelling]
                /\ docs[r].diag # None =>
                    /\ docs[r].diag \in Report
                    /\ shown'[docs[r].diag.spelling] = shown[docs[r].diag.spelling]
    <2>1. /\ docs[r].open => docs[r].spelling # report.spelling
          /\ docs[r].diag # None => docs[r].diag.spelling # report.spelling
      BY <1>1, <1>5, <1>9, <1>17, WorkerFacts, SpellingsDiffer
    <2>2. docs[r].diag # None => docs[r].diag \in Report
      BY DEF TypeOK, Document
    <2>3. /\ docs[r].open => docs[r].spelling \in Spellings
          /\ docs[r].diag # None => docs[r].diag.spelling \in Spellings
      BY <2>2, OpenIsDescribed DEF Report
    <2>4. QED
      BY <1>8, <2>1, <2>2, <2>3
  <1>18. ShownMatchesVerdict'
    <2> SUFFICES ASSUME NEW r \in Slots, docs'[r].open
                 PROVE  (/\ docs[r].state = "Ready" =>
                            /\ docs[r].cache = docs[r].text
                            /\ shown[docs[r].spelling] =
                                 [version |-> docs[r].version, text |-> docs[r].text]
                         /\ docs[r].state = "Failed" =>
                            shown[docs[r].spelling] = EmptyList(docs[r].version))'
      BY DEF ShownMatchesVerdict
    <2>1. CASE r = s
      BY <1>7, <1>8, <1>9, <2>1 DEF SameIdentity
    <2>2. CASE r # s
      <3>1. KeptDocument(docs[r], docs'[r])
        BY <1>6, <2>2
      <3>2. /\ docs[r].open /\ docs'[r].spelling = docs[r].spelling
            /\ docs'[r].version = docs[r].version /\ docs'[r].text = docs[r].text
            /\ docs'[r].state # "Pending" => /\ docs'[r].state = docs[r].state
                                             /\ docs'[r].cache = docs[r].cache
        BY <3>1 DEF KeptDocument, SameIdentity
      <3>3. shown'[docs[r].spelling] = shown[docs[r].spelling]
        BY <1>17, <2>2, <3>2
      <3>4. /\ docs[r].state = "Ready" =>
                  /\ docs[r].cache = docs[r].text
                  /\ shown[docs[r].spelling] =
                       [version |-> docs[r].version, text |-> docs[r].text]
            /\ docs[r].state = "Failed" => shown[docs[r].spelling] = EmptyList(docs[r].version)
        BY <3>2 DEF ShownMatchesVerdict
      <3>5. QED
        BY <3>2, <3>3, <3>4 DEF EmptyList
    <2>3. QED
      BY <2>1, <2>2
  <1>19. DiagIsShown'
    <2> SUFFICES ASSUME NEW r \in Slots, docs'[r].diag # None
                 PROVE  (/\ docs[r].open
                         /\ Canonical[docs[r].diag.spelling] = docs[r].uri
                         /\ shown[docs[r].diag.spelling] =
                              [version |-> docs[r].diag.version,
                               text |-> docs[r].diag.text])'
      BY DEF DiagIsShown
    <2>1. CASE r = s
      BY <1>7, <1>8, <1>9, <2>1 DEF SameIdentity
    <2>2. CASE r # s
      BY <1>6, <1>17, <2>2 DEF DiagIsShown, KeptDocument, SameIdentity
    <2>3. QED
      BY <2>1, <2>2
  <1>20. QueuedIsPending'
    BY <1>6, <1>7 DEF QueuedIsPending, KeptDocument
  <1>21. QED
    BY <1>13, <1>14, <1>15, <1>16, <1>18, <1>19, <1>20

\* A new snapshot in slot s: the job of the old one is gone, its requests are
\* bound to the new one, and no other document is disturbed.
LEMMA AcceptStep ==
  ASSUME IInv, NEW s \in Slots, NEW g \in Int, NEW sp \in Spellings,
         NEW v \in Versions, NEW t \in Texts, Receives, Accept(s, g, sp, v, t),
         \A r \in Slots : r # s /\ docs[r].open => docs[r].uri # Canonical[sp],
         docs[s].open => docs[s].uri = Canonical[sp]
  PROVE  IInv'
  <1> USE DEF IInv
  <1> DEFINE new == SnapshotAccepted(docs[s], g, sp, v, t, jobs + 1)
             table == [docs EXCEPT ![s] = new]
  <1>1. /\ jobs \in Nat
        /\ jobs + 1 \in 0 .. MaxJobs
        /\ docs[s] \in Document
    BY SchedulerAssumption DEF TypeOK, Accept
  <1>2. /\ worker' = AbortedFor(s)
        /\ jobs' = jobs + 1
        /\ docs' \in Reclaimed(EnforceBudget(table))
        /\ queue' = Rebound(queue, s, new)
        /\ served' = None
        /\ UNCHANGED <<lifecycle, clock, owed, shown>>
    BY DEF Accept
  <1>3. /\ new \in Document
        /\ new.open
        /\ new.uri = Canonical[sp]
        /\ new.spelling = sp
        /\ new.version = v
        /\ new.state = "Pending"
        /\ new.text = t
        /\ new.diag = docs[s].diag
    BY <1>1, SnapshotAcceptedType
  <1> HIDE DEF new
  <1>4. /\ table \in [Slots -> Document]
        /\ table[s] = new
        /\ \A r \in Slots : r # s => table[r] = docs[r]
    BY <1>3 DEF TypeOK
  <1> HIDE DEF table
  <1>5. Kept(table, docs')
    <2>1. Kept(table, EnforceBudget(table))
      BY <1>4, EnforceBudgetKeeps
    <2>2. Kept(EnforceBudget(table), docs')
      BY <1>2, <2>1, ReclaimedKeeps DEF Kept
    <2>3. QED
      BY <1>4, <2>1, <2>2, KeptTransitive
  <1>6. /\ docs' \in [Slots -> Document]
        /\ \A r \in Slots : r # s => KeptDocument(docs[r], docs'[r])
        /\ KeptDocument(new, docs'[s])
    BY <1>4, <1>5 DEF Kept
  <1>7. /\ queue' \in SUBSET Request
        /\ IsFiniteSet(queue')
        /\ \A x \in queue' :
                \/ x \in queue /\ x.slot # s
                \/ \E r \in queue :
                    /\ r.slot = s
                    /\ x.slot = s
                    /\ x.method = r.method
                    /\ x.spelling = r.spelling
                    /\ x.job = new.job
                    /\ x.generation = new.generation
                    /\ x.version = new.version
                    /\ ~ x.ready
    BY <1>2, <1>3, ReboundType DEF TypeOK
  <1>8. worker' # None => worker' = worker /\ worker.slot \in Slots /\ worker.slot # s
    BY <1>2 DEF AbortedFor, TypeOK, Worker
  <1>9. TypeOK'
    BY <1>1, <1>2, <1>6, <1>7 DEF TypeOK, AbortedFor, Receives
  <1>10. OneSlotPerUri'
    <2>1. \A r \in Slots : r # s => SameIdentity(docs[r], docs'[r])
      BY <1>6 DEF KeptDocument
    <2>2. /\ docs'[s].open
          /\ docs'[s].uri = Canonical[sp]
          /\ docs'[s].spelling = sp
          /\ docs'[s].version = v
          /\ docs'[s].text = t
      BY <1>3, <1>6 DEF KeptDocument, SameIdentity
    <2>3. \A r \in Slots : r # s /\ docs'[r].queued => docs'[r].open
      BY <1>6 DEF KeptDocument, SameIdentity, OneSlotPerUri
    <2>4. QED
      BY <2>1, <2>2, <2>3 DEF OneSlotPerUri, SameIdentity
  <1>11. WorkerIsCurrent'
    <2> SUFFICES ASSUME worker' # None
                 PROVE  WorkerIsCurrent'
      BY DEF WorkerIsCurrent
    <2>1. KeptDocument(docs[worker.slot], docs'[worker.slot])
      BY <1>6, <1>8
    <2>2. QED
      BY <1>8, <2>1 DEF WorkerIsCurrent, KeptDocument, SameIdentity, IsCurrent
  <1>12. WaitersAreBound'
    <2> SUFFICES ASSUME NEW x \in queue'
                 PROVE  (/\ Has(x.slot, Canonical[x.spelling])
                         /\ IsFor(x, x.slot, docs[x.slot].job,
                                  docs[x.slot].generation, docs[x.slot].version)
                         /\ WaitsForAnalysis(x.method))'
      BY DEF WaitersAreBound
    <2>1. CASE x \in queue /\ x.slot # s
      <3>1. x.slot \in Slots
        BY <2>1 DEF TypeOK, Request
      <3>2. KeptDocument(docs[x.slot], docs'[x.slot])
        BY <1>6, <2>1, <3>1
      <3>3. QED
        BY <2>1, <3>2 DEF WaitersAreBound, KeptDocument, SameIdentity, Has, IsFor
    <2>2. CASE ~ (x \in queue /\ x.slot # s)
      <3>1. PICK r \in queue : /\ r.slot = s
                               /\ x.slot = s
                               /\ x.method = r.method
                               /\ x.spelling = r.spelling
                               /\ x.job = new.job
                               /\ x.generation = new.generation
                               /\ x.version = new.version
        BY <1>7, <2>2
      <3>2. /\ Has(s, Canonical[x.spelling])
            /\ WaitsForAnalysis(x.method)
        BY <3>1 DEF WaitersAreBound
      <3>3. Canonical[x.spelling] = Canonical[sp]
        BY <3>2 DEF Has
      <3>4. QED
        BY <1>3, <1>6, <3>1, <3>2, <3>3 DEF KeptDocument, SameIdentity, Has, IsFor
    <2>3. QED
      BY <2>1, <2>2
  <1>13. ReadyMeansSettled'
    <2> SUFFICES ASSUME NEW x \in queue', x.ready
                 PROVE  ~ Scheduled(x.slot)'
      BY DEF ReadyMeansSettled
    <2>1. x \in queue /\ x.slot # s /\ x.slot \in Slots
      BY <1>7 DEF Request
    <2>2. ~ Scheduled(x.slot)
      BY <2>1 DEF ReadyMeansSettled
    <2>3. docs'[x.slot].queued => docs[x.slot].queued
      BY <1>6, <2>1 DEF KeptDocument
    <2>4. QED
      BY <1>8, <2>2, <2>3 DEF Scheduled
  <1>14. ShownMatchesVerdict'
    BY <1>2, <1>3, <1>6 DEF ShownMatchesVerdict, KeptDocument, SameIdentity, EmptyList
  <1>15. DiagIsShown'
    <2> SUFFICES ASSUME NEW r \in Slots, docs'[r].diag # None
                 PROVE  (/\ docs[r].open
                         /\ Canonical[docs[r].diag.spelling] = docs[r].uri
                         /\ shown[docs[r].diag.spelling] =
                              [version |-> docs[r].diag.version,
                               text |-> docs[r].diag.text])'
      BY DEF DiagIsShown
    <2>1. docs'[r].diag = docs[r].diag
      BY <1>3, <1>6 DEF KeptDocument
    <2>2. docs'[r].open /\ docs'[r].uri = docs[r].uri
      BY <1>3, <1>6, <2>1 DEF DiagIsShown, KeptDocument, SameIdentity
    <2>3. QED
      BY <1>2, <2>1, <2>2 DEF DiagIsShown
  <1>16. QueuedIsPending'
    BY <1>3, <1>6 DEF QueuedIsPending, KeptDocument
  <1>17. AfterShutdown'
    BY <1>2 DEF AfterShutdown, Receives
  <1>18. QED
    BY <1>9, <1>10, <1>11, <1>12, <1>13, <1>14, <1>15, <1>16, <1>17

\* The slot for a URI has it, or no slot has it.
LEMMA DidOpenStep ==
  ASSUME IInv, NEW sp \in Spellings, NEW v \in Versions, NEW t \in Texts,
         DidOpen(sp, v, t)
  PROVE  IInv'
  <1>1. PICK s \in Slots : /\ IsSlotFor(s, Canonical[sp])
                           /\ Accept(s, docs[s].generation + 1, sp, v, t)
    BY DEF DidOpen
  <1>2. docs[s].generation + 1 \in Int
    BY DEF IInv, TypeOK, Document
  <1>3. /\ \A r \in Slots : r # s /\ docs[r].open => docs[r].uri # Canonical[sp]
        /\ docs[s].open => docs[s].uri = Canonical[sp]
    BY <1>1 DEF IsSlotFor, Has, IInv, OneSlotPerUri
  <1>4. QED
    BY <1>1, <1>2, <1>3, AcceptStep DEF DidOpen

\* The document that changes is the only one with its URI.
LEMMA DidChangeStep ==
  ASSUME IInv, NEW sp \in Spellings, NEW v \in Versions, NEW t \in Texts,
         DidChange(sp, v, t)
  PROVE  IInv'
  <1>1. PICK s \in Slots : /\ Has(s, Canonical[sp])
                           /\ Accept(s, docs[s].generation, sp, v, t)
    BY DEF DidChange
  <1>2. docs[s].generation \in Int
    BY DEF IInv, TypeOK, Document
  <1>3. /\ \A r \in Slots : r # s /\ docs[r].open => docs[r].uri # Canonical[sp]
        /\ docs[s].open => docs[s].uri = Canonical[sp]
    BY <1>1 DEF Has, IInv, OneSlotPerUri
  <1>4. QED
    BY <1>1, <1>2, <1>3, AcceptStep DEF DidChange

\* A close takes the job, the requests and the report of its document along.
LEMMA DidCloseStep ==
  ASSUME IInv, NEW sp \in Spellings, DidClose(sp)
  PROVE  IInv'
  <1> USE DEF IInv
  <1>1. PICK s \in Slots :
            /\ Has(s, Canonical[sp])
            /\ worker' = AbortedFor(s)
            /\ queue' = Reindexed(queue \ {r \in queue : r.slot = s})
            /\ owed' = Answered(owed, {r \in queue : r.slot = s})
            /\ docs' \in Reclaimed([docs EXCEPT
                            ![s] = FreeDocument(docs[s].generation + 1)])
            /\ shown' = [shown EXCEPT ![sp] = EmptyList(docs[s].version)]
    BY DEF DidClose
  <1> DEFINE free == FreeDocument(docs[s].generation + 1)
             table == [docs EXCEPT ![s] = free]
             left == queue \ {r \in queue : r.slot = s}
  <1>2. free \in Document /\ ~ free.open /\ ~ free.queued /\ free.diag = None
    <2>1. docs[s].generation + 1 \in Int
      BY DEF TypeOK, Document
    <2>2. QED
      BY <2>1, FreeDocumentType
  <1>3. docs' \in Reclaimed(table)
    BY <1>1
  <1> HIDE DEF free
  <1>4. /\ table \in [Slots -> Document]
        /\ table[s] = free
        /\ \A r \in Slots : r # s => table[r] = docs[r]
    BY <1>2 DEF TypeOK
  <1> HIDE DEF table
  <1>5. /\ docs' \in [Slots -> Document]
        /\ \A r \in Slots : r # s => KeptDocument(docs[r], docs'[r])
        /\ ~ docs'[s].open /\ ~ docs'[s].queued /\ docs'[s].diag = None
    BY <1>2, <1>3, <1>4, ReclaimedKeeps DEF Kept, KeptDocument, SameIdentity
  <1>6. left \in SUBSET Request /\ IsFiniteSet(left)
    BY FS_Subset, left \in SUBSET queue DEF TypeOK
  <1>7. /\ queue' \in SUBSET Request
        /\ IsFiniteSet(queue')
        /\ \A x \in queue' : \E r \in queue :
                SameBinding(x, r) /\ x.ready = r.ready /\ r.slot # s
    BY <1>1, <1>6, ReindexedType
  <1>8. worker' # None => worker' = worker /\ worker.slot \in Slots /\ worker.slot # s
    BY <1>1 DEF AbortedFor, TypeOK, Worker
  <1>9. docs[s].open /\ docs[s].uri = Canonical[sp] /\ EmptyList(docs[s].version) \in Shown
    BY <1>1, OpenIsDescribed DEF Has, EmptyList, Shown
  <1>10. TypeOK'
    <2>1. owed' \in [Ids -> Int]
      BY <1>1, AnsweredType, FS_Subset, {r \in queue : r.slot = s} \in SUBSET queue
         DEF TypeOK
    <2>2. QED
      BY <1>1, <1>5, <1>7, <1>9, <2>1 DEF TypeOK, DidClose, Receives, AbortedFor
  <1>11. OneSlotPerUri'
    BY <1>5 DEF OneSlotPerUri, KeptDocument, SameIdentity
  <1>12. WorkerIsCurrent'
    <2> SUFFICES ASSUME worker' # None
                 PROVE  WorkerIsCurrent'
      BY DEF WorkerIsCurrent
    <2>1. KeptDocument(docs[worker.slot], docs'[worker.slot])
      BY <1>5, <1>8
    <2>2. QED
      BY <1>8, <2>1 DEF WorkerIsCurrent, KeptDocument, SameIdentity, IsCurrent
  <1>13. WaitersAreBound' /\ ReadyMeansSettled'
    <2> SUFFICES ASSUME NEW x \in queue'
                 PROVE  /\ (/\ Has(x.slot, Canonical[x.spelling])
                            /\ IsFor(x, x.slot, docs[x.slot].job,
                                     docs[x.slot].generation, docs[x.slot].version)
                            /\ WaitsForAnalysis(x.method))'
                        /\ x.ready => ~ Scheduled(x.slot)'
      BY DEF WaitersAreBound, ReadyMeansSettled
    <2>1. PICK r \in queue : SameBinding(x, r) /\ x.ready = r.ready /\ r.slot # s
      BY <1>7
    <2>2. r.slot \in Slots /\ x.slot = r.slot
      BY <2>1 DEF TypeOK, Request, SameBinding
    <2>3. KeptDocument(docs[r.slot], docs'[r.slot])
      BY <1>5, <2>1, <2>2
    <2>4. (/\ Has(x.slot, Canonical[x.spelling])
           /\ IsFor(x, x.slot, docs[x.slot].job,
                    docs[x.slot].generation, docs[x.slot].version)
           /\ WaitsForAnalysis(x.method))'
      BY <2>1, <2>3 DEF WaitersAreBound, KeptDocument, SameIdentity, SameBinding,
                        Has, IsFor, WaitsForAnalysis
    <2>5. x.ready => ~ Scheduled(x.slot)'
      BY <1>8, <2>1, <2>2, <2>3 DEF ReadyMeansSettled, Scheduled, KeptDocument
    <2>6. QED
      BY <2>4, <2>5
  <1>14. ASSUME NEW r \in Slots, r # s
         PROVE  /\ docs[r].open =>
                    shown'[docs[r].spelling] = shown[docs[r].spelling]
                /\ docs[r].diag # None =>
                    shown'[docs[r].diag.spelling] = shown[docs[r].diag.spelling]
    <2>1. /\ docs[r].open => docs[r].spelling # sp
          /\ docs[r].diag # None => docs[r].diag.spelling # sp
      BY <1>9, <1>14, SpellingsDiffer
    <2>2. docs[r].diag # None => docs[r].diag \in Report
      BY DEF TypeOK, Document
    <2>3. /\ docs[r].open => docs[r].spelling \in Spellings
          /\ docs[r].diag # None => docs[r].diag.spelling \in Spellings
      BY <2>2, OpenIsDescribed DEF Report
    <2>4. QED
      BY <1>1, <2>1, <2>3 DEF TypeOK
  <1>15. ShownMatchesVerdict'
    BY <1>5, <1>14 DEF ShownMatchesVerdict, KeptDocument, SameIdentity, EmptyList
  <1>16. DiagIsShown' /\ QueuedIsPending'
    BY <1>5, <1>14 DEF DiagIsShown, QueuedIsPending, KeptDocument, SameIdentity
  <1>17. AfterShutdown'
    BY DEF AfterShutdown, DidClose, Receives
  <1>18. QED
    BY <1>10, <1>11, <1>12, <1>13, <1>15, <1>16, <1>17

\* Every request of p is one of q, at most moved.
Among(p, q) ==
    /\ p \in SUBSET Request
    /\ IsFiniteSet(p)
    /\ \A x \in p : \E r \in q : SameBinding(x, r) /\ x.ready = r.ready

\* Requests may leave the queue at any time, whatever housekeeping is done.
LEMMA RequestsLeaveStep ==
  ASSUME IInv, Kept(docs, docs'), UNCHANGED shown, worker' \in {worker, None},
         Among(queue', queue), AfterShutdown',
         lifecycle' \in {"Running", "ShutdownRequested"}, jobs' = jobs,
         clock' \in 0 .. AccessWrap, pc' \in {"start", "frame", "wait", "stopped"},
         owed' \in [Ids -> Int], served' \in Uris \cup {None}
  PROVE  IInv'
  <1> USE DEF IInv
  <1>1. /\ IdentitiesKept
        /\ OneSlotPerUri'
        /\ WorkerIsCurrent'
        /\ ShownMatchesVerdict'
        /\ DiagIsShown'
        /\ QueuedIsPending'
        /\ \A s \in Slots : Scheduled(s)' => Scheduled(s)
    BY HousekeepingStep
  <1>2. TypeOK'
    BY DEF TypeOK, Kept, Among
  <1>3. WaitersAreBound'
    BY <1>1, WaitersKept DEF Among
  <1>4. ReadyMeansSettled'
    BY <1>1, SettledKept DEF Among, SameBinding
  <1>5. QED
    BY <1>1, <1>2, <1>3, <1>4

\* Moving or removing requests adds none.
LEMMA AmongRemoved ==
  ASSUME NEW q, Among(q, queue), NEW R
  PROVE  Among(Reindexed(q \ R), queue)
  <1>1. q \ R \in SUBSET Request /\ IsFiniteSet(q \ R)
    BY FS_Subset, q \ R \in SUBSET q DEF Among
  <1>2. \A x \in Reindexed(q \ R) :
            \E r \in q : SameBinding(x, r) /\ x.ready = r.ready
    BY <1>1, ReindexedType
  <1>3. Reindexed(q \ R) \in SUBSET Request /\ IsFiniteSet(Reindexed(q \ R))
    BY <1>1, ReindexedType
  <1>4. ASSUME NEW x \in Reindexed(q \ R)
        PROVE  \E r \in queue : SameBinding(x, r) /\ x.ready = r.ready
    <2>1. PICK y \in q : SameBinding(x, y) /\ x.ready = y.ready
      BY <1>2
    <2>2. PICK r \in queue : SameBinding(y, r) /\ y.ready = r.ready
      BY DEF Among
    <2>3. QED
      BY <2>1, <2>2 DEF SameBinding
  <1>5. QED
    BY <1>3, <1>4 DEF Among

\* The queue itself and the empty queue are among the queue.
LEMMA AmongTrivial ==
  ASSUME TypeOK
  PROVE  Among(queue, queue) /\ Among({}, queue)
  BY FS_EmptySet DEF TypeOK, Among, SameBinding

\* A request that is cancelled leaves.
LEMMA CancelStep ==
  ASSUME IInv, NEW id \in Ids, Cancel(id)
  PROVE  IInv'
  <1>1. PICK r \in queue : /\ queue' = Reindexed(queue \ {r})
                           /\ owed' = [owed EXCEPT ![id] = @ - 1]
    BY DEF Cancel
  <1>2. Among(queue', queue)
    BY <1>1, AmongTrivial, AmongRemoved DEF IInv
  <1>3. owed' \in [Ids -> Int]
    BY <1>1 DEF IInv, TypeOK
  <1>4. Kept(docs, docs')
    BY KeptReflexive DEF Cancel, IInv, TypeOK
  <1>5. QED
    BY <1>2, <1>3, <1>4, RequestsLeaveStep
       DEF Cancel, Receives, IInv, TypeOK, AfterShutdown

\* A shutdown and an exit refuse all requests and end the worker.
LEMMA ShutdownStep ==
  ASSUME IInv, Shutdown \/ Exit
  PROVE  IInv'
  <1>1. /\ queue' = {} /\ worker' = None
        /\ owed' = Answered(owed, queue)
        /\ served' = None
        /\ UNCHANGED <<docs, jobs, clock, shown>>
        /\ pc' \in {"start", "stopped"}
        /\ lifecycle' \in {lifecycle, "ShutdownRequested"}
    BY DEF Shutdown, Exit, Receives
  <1>2. Among(queue', queue)
    BY <1>1, AmongTrivial DEF IInv
  <1>3. owed' \in [Ids -> Int]
    BY <1>1, AnsweredType DEF IInv, TypeOK
  <1>4. Kept(docs, docs')
    BY <1>1, KeptReflexive DEF IInv, TypeOK
  <1>5. AfterShutdown'
    BY <1>1 DEF AfterShutdown
  <1>6. QED
    BY <1>1, <1>2, <1>3, <1>4, <1>5, RequestsLeaveStep DEF IInv, TypeOK

\* The housekeeping after an update that is ignored, and the end of the session.
LEMMA IgnoredUpdateStep ==
  ASSUME IInv, IgnoredUpdate \/ Terminate
  PROVE  IInv'
  <1>1. Kept(docs, docs')
    <2>1. docs \in [Slots -> Document]
      BY DEF IInv, TypeOK
    <2>2. CASE IgnoredUpdate
      <3>1. Kept(docs, EnforceBudget(docs))
        BY <2>1, EnforceBudgetKeeps
      <3>2. Kept(EnforceBudget(docs), docs')
        BY <2>2, <3>1, ReclaimedKeeps DEF Kept, IgnoredUpdate
      <3>3. QED
        BY <2>1, <3>1, <3>2, KeptTransitive
    <2>3. CASE Terminate
      BY <2>1, <2>3, KeptReflexive DEF Terminate
    <2>4. QED
      BY <2>2, <2>3
  <1>2. Among(queue', queue)
    BY AmongTrivial DEF IInv, IgnoredUpdate, Terminate
  <1>3. QED
    BY <1>1, <1>2, RequestsLeaveStep
       DEF IgnoredUpdate, Terminate, Receives, IInv, TypeOK, AfterShutdown

\* A request that must wait joins the queue bound to the current snapshot, and
\* not ready; any other one leaves it as it is.
LEMMA DispatchStep ==
  ASSUME IInv, NEW id \in Ids, NEW sp \in Spellings, NEW m \in Methods,
         NEW q, Among(q, queue), NEW o \in [Ids -> Int],
         Dispatch(id, sp, m, q, o), UNCHANGED <<worker, lifecycle, jobs, shown>>,
         lifecycle = "Running", pc' = "start"
  PROVE  IInv'
  <1> USE DEF IInv
  <1> DEFINE refused == [o EXCEPT ![id] = @ - 1]
             Joins(s) == /\ Defers(sp, m, s)
                         /\ queue' = q \cup {NewRequest(id, sp, m, s, q)}
                         /\ owed' = o
                         /\ served' = None
                         /\ UNCHANGED <<docs, clock>>
  <1>1. refused \in [Ids -> Int]
    OBVIOUS
  <1>2. CASE \E s \in Slots : Joins(s)
    <2>1. PICK s \in Slots : Joins(s)
      BY <1>2
    <2> DEFINE new == NewRequest(id, sp, m, s, q)
    <2>2. new \in Request /\ ~ new.ready /\ new.slot = s
      <3>1. Cardinality(q) + 1 \in Nat
        BY FS_CardinalityType DEF Among
      <3>2. docs[s] \in Document
        BY DEF TypeOK
      <3>3. QED
        BY <3>1, <3>2 DEF NewRequest, Request, Document
    <2>3. \A x : x = new =>
            (/\ Has(s, Canonical[x.spelling])
             /\ IsFor(x, s, docs[s].job, docs[s].generation, docs[s].version)
             /\ WaitsForAnalysis(x.method))'
      BY <2>1 DEF Defers, NewRequest, Has, IsFor, WaitsForAnalysis
    <2> HIDE DEF new
    <2>4. queue' = q \cup {new} /\ UNCHANGED <<docs, clock, worker>>
      BY <2>1 DEF new
    <2>5. queue' \in SUBSET Request /\ IsFiniteSet(queue')
      BY <2>2, <2>4, FS_AddElement DEF Among
    <2>6. Kept(docs, docs')
      BY <2>4, KeptReflexive DEF TypeOK
    <2>7. /\ IdentitiesKept
          /\ OneSlotPerUri' /\ WorkerIsCurrent' /\ ShownMatchesVerdict'
          /\ DiagIsShown' /\ QueuedIsPending'
      BY <2>6, HousekeepingStep
    <2>8. TypeOK'
      BY <2>1, <2>4, <2>5 DEF TypeOK
    <2>9. WaitersAreBound' /\ ReadyMeansSettled'
      <3> SUFFICES ASSUME NEW x \in queue'
                   PROVE  /\ (/\ Has(x.slot, Canonical[x.spelling])
                              /\ IsFor(x, x.slot, docs[x.slot].job,
                                       docs[x.slot].generation, docs[x.slot].version)
                              /\ WaitsForAnalysis(x.method))'
                          /\ x.ready => ~ Scheduled(x.slot)'
        BY DEF WaitersAreBound, ReadyMeansSettled
      <3>1. CASE x = new
        BY <2>2, <2>3, <3>1
      <3>2. CASE x # new
        <4>1. PICK r \in queue : SameBinding(x, r) /\ x.ready = r.ready
          BY <2>4, <3>2 DEF Among
        <4>2. QED
          BY <2>4, <4>1 DEF WaitersAreBound, ReadyMeansSettled, SameBinding, Has,
                            IsFor, WaitsForAnalysis, Scheduled
      <3>3. QED
        BY <3>1, <3>2
    <2>10. AfterShutdown'
      BY DEF AfterShutdown
    <2>11. QED
      BY <2>7, <2>8, <2>9, <2>10
  <1>3. CASE \A s \in Slots : ~ Joins(s)
    <2>1. /\ queue' = q \/ \E r \in q : queue' = Reindexed(q \ {r})
          /\ owed' = refused
          /\ served' \in Uris \cup {None}
      <3>1. CASE \A s \in Slots : ~ Defers(sp, m, s)
        BY <3>1, SchedulerAssumption DEF Dispatch
      <3>2. CASE ~ \A s \in Slots : ~ Defers(sp, m, s)
        BY <1>3, <3>2 DEF Dispatch
      <3>3. QED
        BY <3>1, <3>2
    <2>2. Among(queue', queue)
      <3>1. CASE queue' = q
        BY <3>1 DEF Among
      <3>2. CASE \E r \in q : queue' = Reindexed(q \ {r})
        <4>1. PICK r \in q : queue' = Reindexed(q \ {r})
          BY <3>2
        <4>2. Among(Reindexed(q \ {r}), queue)
          BY AmongRemoved
        <4>3. QED
          BY <4>1, <4>2
      <3>3. QED
        BY <2>1, <3>1, <3>2
    <2>3. Kept(docs, docs') /\ clock' \in 0 .. AccessWrap
      BY TouchedKeeps, KeptReflexive, TickType DEF Dispatch, TypeOK
    <2>4. QED
      BY <1>1, <2>1, <2>2, <2>3, RequestsLeaveStep DEF TypeOK, AfterShutdown
  <1>4. QED
    BY <1>2, <1>3

\* A request from the client.
LEMMA AskStep ==
  ASSUME IInv, NEW id \in Ids, NEW sp \in Spellings, NEW m \in Methods,
         Ask(id, sp, m)
  PROVE  IInv'
  <1>1. [owed EXCEPT ![id] = @ + 1] \in [Ids -> Int]
    BY DEF IInv, TypeOK
  <1>2. QED
    BY <1>1, DispatchStep, AmongTrivial DEF Ask, Receives, IInv

\* A request that is replayed.
LEMMA ReplayStep ==
  ASSUME IInv, Replay
  PROVE  IInv'
  <1>1. PICK r \in queue :
            Dispatch(r.id, r.spelling, r.method, Reindexed(queue \ {r}), owed)
    BY DEF Replay
  <1>2. r.id \in Ids /\ r.spelling \in Spellings /\ r.method \in Methods
    BY DEF IInv, TypeOK, Request
  <1>3. Among(Reindexed(queue \ {r}), queue)
    BY AmongTrivial, AmongRemoved DEF IInv
  <1>4. lifecycle = "Running" /\ owed \in [Ids -> Int]
    BY DEF IInv, TypeOK, AfterShutdown
  <1>5. QED
    BY <1>1, <1>2, <1>3, <1>4, DispatchStep DEF Replay

-----------------------------------------------------------------------------
(***************************************************************************)
(* The invariant holds of every step, and what follows from it.            *)
(***************************************************************************)

\* Every step of the loop, of the client and of the worker preserves it.
LEMMA NextIInv == IInv /\ [Next]_vars => IInv'
  <1> SUFFICES ASSUME IInv, [Next]_vars PROVE IInv'
    OBVIOUS
  <1>1. CASE StartTurn
    <2>1. ASSUME NEW s \in Slots, StartWorker(s) PROVE IInv'
      BY <2>1, StartWorkerStep
    <2>2. ASSUME NEW s \in Slots, StartFails(s) PROVE IInv'
      BY <2>2, StartFailsStep
    <2>3. ASSUME NothingToStart PROVE IInv'
      BY <2>3, LoopStep DEF NothingToStart
    <2>4. QED
      BY <1>1, <2>1, <2>2, <2>3 DEF StartTurn
  <1>2. CASE ClientMessage
    <2>1. ASSUME NEW sp \in Spellings, NEW v \in Versions, NEW t \in Texts,
                 DidOpen(sp, v, t) \/ DidChange(sp, v, t)
          PROVE  IInv'
      BY <2>1, DidOpenStep, DidChangeStep
    <2>2. ASSUME NEW sp \in Spellings, DidClose(sp) PROVE IInv'
      BY <2>2, DidCloseStep
    <2>3. ASSUME NEW id \in Ids, NEW sp \in Spellings, NEW m \in Methods,
                 Ask(id, sp, m)
          PROVE  IInv'
      BY <2>3, AskStep
    <2>4. ASSUME NEW id \in Ids, Cancel(id) PROVE IInv'
      BY <2>4, CancelStep
    <2>5. CASE IgnoredMessage
      BY <2>5, LoopStep DEF IgnoredMessage
    <2>6. QED
      BY <1>2, <2>1, <2>2, <2>3, <2>4, <2>5, ShutdownStep, IgnoredUpdateStep
         DEF ClientMessage
  <1>3. CASE NoFrame
    BY <1>3, ReplayStep, LoopStep DEF NoFrame, BlockOnInput
  <1>4. CASE Wake
    BY <1>4, LoopStep DEF Wake
  <1>5. CASE WorkerOutcome
    BY <1>5, WorkerDoneStep, WorkerFailsStep DEF WorkerOutcome
  <1>6. CASE Terminate
    BY <1>6, IgnoredUpdateStep
  <1>7. CASE UNCHANGED vars
    BY <1>7, LoopStep DEF vars, serverVars, IInv, TypeOK
  <1>8. QED
    BY <1>1, <1>2, <1>3, <1>4, <1>5, <1>6, <1>7 DEF Next, Stopped

\* The invariant holds in every reachable state.
THEOREM InvariantHolds == Spec => []IInv
  <1>1. Init => IInv
    BY InitIInv
  <1>2. IInv /\ [Next]_vars => IInv'
    BY NextIInv
  <1>3. QED
    BY <1>1, <1>2, PTL DEF Spec

\* The tables hold values of their types; in particular the job sequence and
\* the access clock stay within their ranges.
THEOREM TypeCorrect == Spec => []TypeOK
  <1>1. IInv => TypeOK
    BY DEF IInv
  <1>2. QED
    BY <1>1, InvariantHolds, PTL

\* A URI never has two slots, whatever files are opened, closed and reopened in
\* whatever order.
THEOREM SlotsAreUnique == Spec => []OneSlotPerUri
  <1>1. IInv => OneSlotPerUri
    BY DEF IInv
  <1>2. QED
    BY <1>1, InvariantHolds, PTL

\* No result of an obsolete source can be committed: while a worker runs, its
\* document holds the very snapshot it was given.  The checks of the commit
\* path for a job that is no longer current are a second line of defence.
THEOREM WorkerNeverStale == Spec => []WorkerIsCurrent
  <1>1. IInv => WorkerIsCurrent
    BY DEF IInv
  <1>2. QED
    BY <1>1, InvariantHolds, PTL

\* A deferred request is always bound to the current snapshot of its document.
THEOREM WaitersStayBound == Spec => []WaitersAreBound
  <1>1. IInv => WaitersAreBound
    BY DEF IInv
  <1>2. QED
    BY <1>1, InvariantHolds, PTL

\* A request that is replayed never goes back to the queue.
THEOREM ReplaysAreFinal == Spec => []ReadyMeansSettled
  <1>1. IInv => ReadyMeansSettled
    BY DEF IInv
  <1>2. QED
    BY <1>1, InvariantHolds, PTL

\* The client is shown the findings of the current text of every document with
\* a verdict, although an unchanged report is not published again.
THEOREM DiagnosticsAreCurrent == Spec => []ShownMatchesVerdict
  <1>1. IInv => ShownMatchesVerdict
    BY DEF IInv
  <1>2. QED
    BY <1>1, InvariantHolds, PTL

\* After an accepted shutdown no document changes, nothing is published or
\* answered late, and no worker starts.
THEOREM ShutdownIsQuiet == Spec => QuietAfterShutdown
  <1>1. ASSUME IInv, [Next]_vars, lifecycle = "ShutdownRequested"
        PROVE  UNCHANGED <<docs, shown, owed>> /\ worker' = None
    <2>1. queue = {} /\ worker = None /\ owed \in [Ids -> Int]
      BY <1>1 DEF IInv, AfterShutdown, TypeOK
    <2>2. Answered(owed, queue) = owed
      <3>1. \A id \in Ids : Cardinality({r \in queue : r.id = id}) = 0
        BY <2>1, FS_EmptySet, {r \in {} : FALSE} = {}
      <3>2. QED
        BY <2>1, <3>1 DEF Answered
    <2>3. CASE StartTurn
      BY <1>1, <2>1, <2>3 DEF StartTurn, StartWorker, StartFails, MayStart,
                              NothingToStart, serverVars
    <2>4. CASE ClientMessage
      BY <1>1, <2>1, <2>2, <2>4 DEF ClientMessage, DidOpen, DidChange, DidClose, Ask,
                              Cancel, Shutdown, Exit, IgnoredUpdate, IgnoredMessage,
                              Receives, serverVars
    <2>5. CASE NoFrame
      BY <2>1, <2>5 DEF NoFrame, Replay, BlockOnInput, serverVars
    <2>6. CASE Wake \/ WorkerOutcome \/ Terminate \/ UNCHANGED vars
      BY <2>1, <2>6 DEF Wake, WorkerOutcome, WorkerDone, WorkerFails, PacketRejected,
                        WorkerEnds, Terminate, vars, serverVars
    <2>7. QED
      BY <1>1, <2>3, <2>4, <2>5, <2>6 DEF Next, Stopped
  <1>2. IInv /\ [Next]_vars =>
          [lifecycle = "ShutdownRequested"
            => UNCHANGED <<docs, shown, owed>> /\ worker' = None]_vars
    BY <1>1
  <1>3. QED
    BY <1>2, InvariantHolds, PTL DEF Spec, QuietAfterShutdown

-----------------------------------------------------------------------------
(***************************************************************************)
(* The derived-cache budget.                                               *)
(***************************************************************************)

CapacityOf(ds, s) == ds[s].capacity
Untouched(p, a, x) == a

Capacities == INSTANCE FoldLemmas WITH Weight <- CapacityOf, Step <- Untouched

\* No document has more room than before, and none is opened with room.
RoomShrinks(ds, es) ==
    \A s \in Slots : es[s].open /\ es[s].capacity > 0 =>
        ds[s].open /\ es[s].capacity <= ds[s].capacity

InBudget(ds) == Retained(ds, Evictable(ds)) <= CacheLimit

\* What is stored has room.
Fitting(ds) ==
    \A s \in Slots : ds[s].cache # None => Size[ds[s].cache] <= ds[s].capacity

\* The budget is kept, and compaction, which cuts the room of every document
\* down to what is stored, never needs more than there was.
BudgetInv == InBudget(docs) /\ Fitting(docs)

\* A set of natural numbers has a least element.
LEMMA LeastNumber ==
  ASSUME NEW T, T \subseteq Nat, T # {}
  PROVE  \E n \in T : \A m \in T : n <= m
  BY Capacities!Summing!SmallestNumber

\* Less room in fewer documents is less.
LEMMA RetainedIsLess ==
  ASSUME NEW ds, NEW es, NEW S \in SUBSET Slots, NEW T \in SUBSET S,
         \A s \in S : ds[s].capacity \in Nat,
         \A s \in T : es[s].capacity \in Nat /\ es[s].capacity <= ds[s].capacity
  PROVE  /\ Retained(es, T) \in Int
         /\ Retained(ds, S) \in Nat
         /\ Retained(es, T) <= Retained(ds, S)
  <1>1. IsFiniteSet(S)
    <2>1. IsFiniteSet(Slots)
      BY SchedulerAssumption, FS_Interval DEF Slots
    <2>2. QED
      BY <2>1, FS_Subset
  <1>2. \A d, X : Retained(d, X) = Capacities!Sum(d, X)
    BY DEF Retained, CapacityOf, MapThenSumSet, MapThenFoldSet, Capacities!Sum,
           Capacities!MapThenSumSet, Capacities!MapThenFoldSet
  <1>3. /\ \A s \in S : CapacityOf(ds, s) \in Nat
        /\ \A s \in T : CapacityOf(es, s) \in Int /\ CapacityOf(es, s) <= CapacityOf(ds, s)
    BY DEF CapacityOf
  <1>4. /\ Capacities!Sum(es, T) \in Int
        /\ Capacities!Sum(ds, S) \in Nat
        /\ Capacities!Sum(es, T) <= Capacities!Sum(ds, S)
    BY <1>1, <1>3, Capacities!SumMonotone DEF IsFiniteSet, Capacities!IsFiniteSet
  <1>5. QED
    BY <1>2, <1>4

LEMMA InBudgetKept ==
  ASSUME NEW ds \in [Slots -> Document], NEW es \in [Slots -> Document],
         RoomShrinks(ds, es), InBudget(ds)
  PROVE  InBudget(es)
  <1>1. Evictable(es) \in SUBSET Evictable(ds) /\ Evictable(ds) \in SUBSET Slots
    BY DEF Evictable, RoomShrinks, Document
  <1>2. /\ \A s \in Evictable(ds) : ds[s].capacity \in Nat
        /\ \A s \in Evictable(es) :
              es[s].capacity \in Nat /\ es[s].capacity <= ds[s].capacity
    BY DEF Evictable, RoomShrinks, Document
  <1>3. Retained(es, Evictable(es)) <= Retained(ds, Evictable(ds))
    /\ Retained(es, Evictable(es)) \in Int /\ Retained(ds, Evictable(ds)) \in Nat
    BY <1>1, <1>2, RetainedIsLess
  <1>4. CacheLimit \in Nat
    BY SchedulerAssumption
  <1>5. QED
    BY <1>3, <1>4 DEF InBudget

\* Some document of a set is the least recently used.
LEMMA LeastRecent ==
  ASSUME NEW ds \in [Slots -> Document], NEW S \in SUBSET Slots, S # {}
  PROVE  \E m \in S : \A r \in S : ~ LessRecent(ds, r, m)
  <1> DEFINE Accesses == {ds[s].access : s \in S}
  <1>1. Accesses \subseteq Nat /\ Accesses # {}
    BY DEF Document
  <1>2. PICK a \in Accesses : \A b \in Accesses : a <= b
    <2> HIDE DEF Accesses
    <2>1. QED
      BY <1>1, LeastNumber
  <1> DEFINE Oldest == {s \in S : ds[s].access = a}
  <1>3. Oldest \subseteq Nat /\ Oldest # {}
    <2>1. \A s \in S : s \in Nat
      BY DEF Slots
    <2>2. QED
      BY <2>1
  <1>4. PICK m \in Oldest : \A s \in Oldest : m <= s
    <2> HIDE DEF Oldest
    <2>1. QED
      BY <1>3, LeastNumber
  <1>5. ASSUME NEW r \in S, LessRecent(ds, r, m)
        PROVE  FALSE
    <2>1. ds[r].access \in Nat /\ ds[m].access = a /\ a \in Nat /\ a <= ds[r].access
      BY <1>1, <1>2
    <2>2. ds[r].access = a /\ r < m
      BY <1>5, <2>1 DEF LessRecent
    <2>3. r \in Oldest /\ r \in Nat /\ m \in Nat
      BY <1>3, <2>2
    <2>4. QED
      BY <1>4, <2>2, <2>3
  <1>6. QED
    BY <1>5

\* What survives an eviction fits the budget: no survivor is less recent than
\* the least recent one, and that one was kept because the rest fitted.
LEMMA EvictionFits ==
  ASSUME NEW ds \in [Slots -> Document], Fitting(ds)
  PROVE  LET es == EnforceBudget(ds)
         IN  es \in [Slots -> Document] /\ InBudget(es) /\ Fitting(es)
  <1> DEFINE es == EnforceBudget(ds)
             left == Evictable(es)
  <1>1. es \in [Slots -> Document]
    BY DerivedCacheClearedType DEF EnforceBudget
  <1>2. Fitting(es)
    <2>1. \A s \in Slots : es[s] = ds[s] \/ es[s].cache = None
      BY DEF EnforceBudget, DerivedCacheCleared, Document
    <2>2. QED
      BY <2>1 DEF Fitting
  <1>3. \A s \in left : s \in Evictable(ds) /\ s \notin Victims(ds) /\ es[s] = ds[s]
    <2>1. \A s \in Victims(ds) : s \in Slots /\ es[s].capacity = 0
      BY DEF EnforceBudget, DerivedCacheCleared, Document, Victims, Evictable
    <2>2. \A s \in Slots \ Victims(ds) : es[s] = ds[s]
      BY DEF EnforceBudget
    <2> HIDE DEF es
    <2>3. QED
      BY <2>1, <2>2 DEF Evictable
  <1>4. CacheLimit \in Nat
    BY SchedulerAssumption
  <1>5. left \in SUBSET Slots
    BY DEF Evictable
  <1> HIDE DEF es, left
  <1>6. CASE left = {}
    <2>1. /\ Retained(es, {}) \in Int /\ Retained(ds, {}) \in Nat
          /\ Capacities!Sum(es, {}) = 0
      BY RetainedIsLess, Capacities!SumEmpty
    <2>2. Retained(es, {}) = Capacities!Sum(es, {})
      BY DEF Retained, CapacityOf, MapThenSumSet, MapThenFoldSet, Capacities!Sum,
           Capacities!MapThenSumSet, Capacities!MapThenFoldSet
    <2>3. InBudget(es)
      BY <1>4, <1>6, <2>1, <2>2 DEF InBudget, left
    <2>4. QED
      BY <1>1, <1>2, <2>3 DEF es
  <1>7. CASE left # {}
    <2>1. PICK m \in left : \A r \in left : ~ LessRecent(ds, r, m)
      BY <1>5, <1>7, LeastRecent
    <2> DEFINE kept == {r \in Evictable(ds) : ~ LessRecent(ds, r, m)}
    <2>2. left \in SUBSET kept /\ kept \in SUBSET Slots
      BY <1>3, <2>1 DEF Evictable
    <2>3. ~ (Retained(ds, kept) > CacheLimit)
      BY <1>3, <2>1 DEF Victims
    <2> HIDE DEF kept
    <2>4. /\ \A s \in kept : ds[s].capacity \in Nat
          /\ \A s \in left : es[s].capacity \in Nat /\ es[s].capacity <= ds[s].capacity
      BY <1>3, <1>5, <2>2 DEF Document
    <2>5. /\ Retained(es, left) \in Int /\ Retained(ds, kept) \in Nat
          /\ Retained(es, left) <= Retained(ds, kept)
      BY <2>2, <2>4, RetainedIsLess
    <2>6. InBudget(es)
      BY <1>4, <2>3, <2>5 DEF InBudget, left
    <2>7. QED
      BY <1>1, <1>2, <2>6 DEF es
  <1>8. QED
    BY <1>6, <1>7

\* Compaction keeps to the budget.
LEMMA ReclaimFits ==
  ASSUME NEW ds \in [Slots -> Document], InBudget(ds), Fitting(ds),
         NEW es \in Reclaimed(ds)
  PROVE  es \in [Slots -> Document] /\ InBudget(es) /\ Fitting(es)
  <1>1. CASE es = ds
    BY <1>1
  <1>2. CASE es = Compacted(ds)
    <2>1. es \in [Slots -> Document]
      BY <1>2, CompactedKeeps DEF Kept
    <2>2. \A s \in Slots : /\ es[s].open = ds[s].open /\ es[s].cache = ds[s].cache
                           /\ es[s].capacity = IF ds[s].cache = None THEN 0
                                               ELSE Size[ds[s].cache]
      BY <1>2 DEF Compacted, Document
    <2>3. \A s \in Slots : ds[s].cache # None => Size[ds[s].cache] \in Nat
      BY SizeType DEF Document
    <2>4. RoomShrinks(ds, es)
      BY <2>2, <2>3 DEF RoomShrinks, Fitting
    <2>5. Fitting(es)
      BY <2>2, <2>3 DEF Fitting
    <2>6. QED
      BY <2>1, <2>4, <2>5, InBudgetKept
  <1>3. QED
    BY <1>1, <1>2 DEF Reclaimed

\* The housekeeping that follows every update.
LEMMA UpkeepFits ==
  ASSUME NEW ds \in [Slots -> Document], Fitting(ds),
         NEW es \in Reclaimed(EnforceBudget(ds))
  PROVE  InBudget(es) /\ Fitting(es)
  <1> DEFINE fs == EnforceBudget(ds)
  <1>1. fs \in [Slots -> Document] /\ InBudget(fs) /\ Fitting(fs)
    BY EvictionFits
  <1> HIDE DEF fs
  <1>2. es \in Reclaimed(fs)
    BY DEF fs
  <1>3. QED
    BY <1>1, <1>2, ReclaimFits

\* Steps that store nothing need no eviction.
LEMMA NothingStored ==
  ASSUME NEW ds \in [Slots -> Document], NEW es \in [Slots -> Document],
         InBudget(ds), Fitting(ds),
         \A s \in Slots : /\ es[s].open = ds[s].open /\ es[s].capacity = ds[s].capacity
                          /\ es[s].cache = ds[s].cache \/ es[s].cache = None
  PROVE  InBudget(es) /\ Fitting(es)
  <1>1. RoomShrinks(ds, es)
    BY DEF RoomShrinks, Document
  <1>2. Fitting(es)
    BY DEF Fitting
  <1>3. QED
    BY <1>1, <1>2, InBudgetKept

LEMMA AcceptFits ==
  ASSUME IInv, BudgetInv, NEW s \in Slots, NEW g \in Int, NEW sp \in Spellings,
         NEW v \in Versions, NEW t \in Texts, Accept(s, g, sp, v, t)
  PROVE  BudgetInv'
  <1> DEFINE new == SnapshotAccepted(docs[s], g, sp, v, t, jobs + 1)
             table == [docs EXCEPT ![s] = new]
  <1>1. docs \in [Slots -> Document] /\ jobs + 1 \in Nat
    BY DEF IInv, TypeOK
  <1>2. new \in Document /\ new.cache = None
    <2>1. docs[s] \in Document
      BY <1>1
    <2>2. new \in Document
      BY <1>1, <2>1, SnapshotAcceptedType
    <2>3. new.cache = None
      BY <2>1 DEF SnapshotAccepted, Document
    <2>4. QED
      BY <2>2, <2>3
  <1>3. docs' \in Reclaimed(EnforceBudget(table))
    BY DEF Accept
  <1> HIDE DEF new
  <1>4. table \in [Slots -> Document]
    BY <1>1, <1>2
  <1>5. Fitting(table)
    <2>1. \A r \in Slots : table[r] = IF r = s THEN new ELSE docs[r]
      BY <1>1
    <2>2. QED
      BY <1>2, <2>1 DEF Fitting, BudgetInv
  <1> HIDE DEF table
  <1>6. QED
    BY <1>3, <1>4, <1>5, UpkeepFits DEF BudgetInv, InBudget, Fitting

LEMMA DidCloseFits ==
  ASSUME IInv, BudgetInv, NEW sp \in Spellings, DidClose(sp)
  PROVE  BudgetInv'
  <1>1. docs \in [Slots -> Document]
    BY DEF IInv, TypeOK
  <1>2. PICK s \in Slots :
            docs' \in Reclaimed([docs EXCEPT ![s] = FreeDocument(docs[s].generation + 1)])
    BY DEF DidClose
  <1> DEFINE free == FreeDocument(docs[s].generation + 1)
             table == [docs EXCEPT ![s] = free]
  <1>3. docs' \in Reclaimed(table)
    BY <1>2
  <1>4. free \in Document /\ free.cache = None /\ ~ free.open
    BY <1>1, FreeDocumentType DEF FreeDocument, Document
  <1> HIDE DEF free
  <1>5. table \in [Slots -> Document]
    BY <1>1, <1>4
  <1>6. \A r \in Slots : table[r] = IF r = s THEN free ELSE docs[r]
    BY <1>1
  <1> HIDE DEF table
  <1>7. RoomShrinks(docs, table) /\ Fitting(table)
    BY <1>1, <1>4, <1>6 DEF RoomShrinks, Fitting, BudgetInv, Document
  <1>8. QED
    BY <1>1, <1>3, <1>5, <1>7, InBudgetKept, ReclaimFits DEF BudgetInv, InBudget, Fitting

\* Stamps do not matter for the room.
LEMMA TouchedFits ==
  ASSUME IInv, BudgetInv, NEW s \in Slots
  PROVE  InBudget(Touched(docs, s)) /\ Fitting(Touched(docs, s))
  <1>1. docs \in [Slots -> Document] /\ clock \in 0 .. AccessWrap
    BY DEF IInv, TypeOK
  <1> DEFINE es == Touched(docs, s)
  <1>2. es \in [Slots -> Document]
    BY <1>1, TouchedKeeps DEF Kept
  <1>3. \A r \in Slots : /\ es[r].open = docs[r].open /\ es[r].capacity = docs[r].capacity
                         /\ es[r].cache = docs[r].cache
    BY <1>1 DEF Touched, Document
  <1> HIDE DEF es
  <1>4. QED
    BY <1>1, <1>2, <1>3, NothingStored DEF BudgetInv, es

LEMMA WorkerDoneFits ==
  ASSUME IInv, BudgetInv, WorkerDone
  PROVE  BudgetInv'
  <1> DEFINE s == worker.slot
             ready == AnalysisReady(docs[s], worker)
             stored == [docs EXCEPT ![s] = ready]
             stamped == Touched(stored, s)
             kept == EnforceBudget(stamped)
  <1>1. docs \in [Slots -> Document] /\ worker \in Worker /\ s \in Slots
        /\ clock \in 0 .. AccessWrap /\ Size[worker.text] \in Nat
    BY SizeType DEF IInv, TypeOK, WorkerDone, WorkerEnds, Worker
  <1>2. \/ docs' = docs
        \/ docs' = [kept EXCEPT ![s].diag = ReportOf(worker)]
    BY DEF WorkerDone
  <1>3. /\ ready \in Document /\ ready.cache = worker.text
        /\ Size[worker.text] <= ready.capacity
    <2>1. ready.capacity = Reserved(docs[s], Size[worker.text])
      BY <1>1 DEF AnalysisReady, Document
    <2>2. Size[worker.text] <= Reserved(docs[s], Size[worker.text])
      BY <1>1 DEF Reserved, Document
    <2>3. QED
      BY <1>1, <2>1, <2>2, AnalysisReadyType
  <1> HIDE DEF ready
  <1>4. stored \in [Slots -> Document]
    BY <1>1, <1>3
  <1>5. \A r \in Slots : stored[r] = IF r = s THEN ready ELSE docs[r]
    BY <1>1
  <1>6. Fitting(stored)
    BY <1>3, <1>5 DEF Fitting, BudgetInv
  <1> HIDE DEF stored
  <1>7. stamped \in [Slots -> Document]
    BY <1>1, <1>4, TouchedKeeps DEF Kept
  <1>8. \A r \in Slots : stamped[r].cache = stored[r].cache /\ stamped[r].capacity = stored[r].capacity
    BY <1>4 DEF Touched, Document
  <1>9. Fitting(stamped)
    BY <1>6, <1>8 DEF Fitting
  <1> HIDE DEF stamped
  <1>10. kept \in [Slots -> Document] /\ InBudget(kept) /\ Fitting(kept)
    BY <1>7, <1>9, EvictionFits
  <1> HIDE DEF kept
  <1>11. CASE docs' = docs
    BY <1>11 DEF BudgetInv
  <1>12. CASE docs' = [kept EXCEPT ![s].diag = ReportOf(worker)]
    <2>1. docs' \in [Slots -> Document]
      <3>1. ReportOf(worker) \in Report
        BY <1>1 DEF ReportOf, Report, Worker
      <3>2. QED
        BY <1>1, <1>10, <1>12, <3>1, ReportedType
    <2>2. \A r \in Slots : /\ docs'[r].open = kept[r].open
                           /\ docs'[r].capacity = kept[r].capacity
                           /\ docs'[r].cache = kept[r].cache
      BY <1>1, <1>10, <1>12 DEF Document
    <2>3. InBudget(docs') /\ Fitting(docs')
      BY <1>10, <2>1, <2>2, NothingStored
    <2>4. QED
      BY <2>3 DEF BudgetInv, InBudget, Fitting
  <1>13. QED
    BY <1>2, <1>11, <1>12

\* A document leaves the queue of analyses, or its analysis failed.
LEMMA VerdictFits ==
  ASSUME IInv, BudgetInv, NEW s \in Slots,
         \/ docs' = [docs EXCEPT ![s].queued = FALSE]
         \/ docs' = [docs EXCEPT ![s] = AnalysisFailed(@)]
  PROVE  BudgetInv'
  <1>1. docs \in [Slots -> Document]
    BY DEF IInv, TypeOK
  <1>2. docs' \in [Slots -> Document]
    BY <1>1, DequeuedType, AnalysisFailedType
  <1>3. \A r \in Slots : /\ docs'[r].open = docs[r].open
                         /\ docs'[r].capacity = docs[r].capacity
                         /\ docs'[r].cache = docs[r].cache \/ docs'[r].cache = None
    <2>1. CASE docs' = [docs EXCEPT ![s].queued = FALSE]
      BY <1>1, <2>1 DEF Document
    <2>2. CASE docs' = [docs EXCEPT ![s] = AnalysisFailed(@)]
      <3>1. \A d \in Document : /\ AnalysisFailed(d).open = d.open
                               /\ AnalysisFailed(d).capacity = d.capacity
                               /\ AnalysisFailed(d).cache = None
        BY DEF AnalysisFailed, Document
      <3>2. QED
        BY <1>1, <2>2, <3>1
    <2>3. QED
      BY <2>1, <2>2
  <1>4. InBudget(docs') /\ Fitting(docs')
    BY <1>1, <1>2, <1>3, NothingStored DEF BudgetInv
  <1>5. QED
    BY <1>4 DEF BudgetInv, InBudget, Fitting

LEMMA UnchangedFits ==
  ASSUME BudgetInv, docs' = docs
  PROVE  BudgetInv'
  BY DEF BudgetInv

LEMMA DispatchFits ==
  ASSUME IInv, BudgetInv, NEW id, NEW sp, NEW m, NEW q, NEW o, Dispatch(id, sp, m, q, o)
  PROVE  BudgetInv'
  <1>1. docs' = docs \/ \E s \in Slots : docs' = Touched(docs, s)
    BY DEF Dispatch
  <1>2. ASSUME NEW s \in Slots, docs' = Touched(docs, s)
        PROVE  BudgetInv'
    BY <1>2, TouchedFits DEF BudgetInv, InBudget, Fitting
  <1>3. QED
    BY <1>1, <1>2, UnchangedFits

LEMMA NextFits == IInv /\ BudgetInv /\ [Next]_vars => BudgetInv'
  <1> SUFFICES ASSUME IInv, BudgetInv, [Next]_vars
               PROVE  BudgetInv'
    OBVIOUS
  <1>1. docs \in [Slots -> Document]
    BY DEF IInv, TypeOK
  <1>2. ASSUME NEW s \in Slots, StartWorker(s) \/ StartFails(s)
        PROVE  BudgetInv'
    BY <1>2, VerdictFits DEF StartWorker, StartFails
  <1>3. ASSUME NEW sp \in Spellings, NEW v \in Versions, NEW t \in Texts,
               DidOpen(sp, v, t) \/ DidChange(sp, v, t)
        PROVE  BudgetInv'
    <2>1. PICK s \in Slots : \/ Accept(s, docs[s].generation + 1, sp, v, t)
                             \/ Accept(s, docs[s].generation, sp, v, t)
      BY <1>3 DEF DidOpen, DidChange
    <2>2. docs[s].generation \in Int /\ docs[s].generation + 1 \in Int
      BY <1>1 DEF Document
    <2>3. QED
      BY <2>1, <2>2, AcceptFits
  <1>4. ASSUME NEW sp \in Spellings, DidClose(sp)
        PROVE  BudgetInv'
    BY <1>4, DidCloseFits
  <1>5. ASSUME NEW id \in Ids, NEW sp \in Spellings, NEW m \in Methods, Ask(id, sp, m)
        PROVE  BudgetInv'
    BY <1>5, DispatchFits DEF Ask
  <1>6. CASE Replay
    BY <1>6, DispatchFits DEF Replay
  <1>7. CASE IgnoredUpdate
    <2>1. docs' \in Reclaimed(EnforceBudget(docs))
      BY <1>7 DEF IgnoredUpdate
    <2>2. InBudget(docs') /\ Fitting(docs')
      BY <1>1, <2>1, UpkeepFits DEF BudgetInv
    <2>3. QED
      BY <2>2 DEF BudgetInv, InBudget, Fitting
  <1>8. CASE WorkerDone
    BY <1>8, WorkerDoneFits
  <1>9. CASE WorkerFails \/ PacketRejected
    <2>1. worker.slot \in Slots
      BY <1>9 DEF IInv, TypeOK, WorkerFails, PacketRejected, WorkerEnds, Worker
    <2>2. docs' = docs \/ docs' = [docs EXCEPT ![worker.slot] = AnalysisFailed(@)]
      BY <1>9 DEF WorkerFails, PacketRejected, FailJob
    <2>3. QED
      BY <2>1, <2>2, VerdictFits, UnchangedFits
  <1>10. CASE NothingToStart \/ BlockOnInput \/ Wake \/ Shutdown \/ Exit \/ IgnoredMessage
             \/ Terminate \/ UNCHANGED vars \/ \E id \in Ids : Cancel(id)
    BY <1>10, UnchangedFits DEF NothingToStart, BlockOnInput, Wake, Shutdown, Exit,
          IgnoredMessage, Terminate, Cancel, vars, serverVars
  <1>11. QED
    BY <1>2, <1>3, <1>4, <1>5, <1>6, <1>7, <1>8, <1>9, <1>10
       DEF Next, StartTurn, ClientMessage, NoFrame, WorkerOutcome, Stopped

\* The capacity held for derived data never exceeds the budget, through every
\* commit, edit, close, eviction, compaction and restart of the access clock.
THEOREM BudgetIsKept == Spec => []CacheBudget
  <1>1. Init => BudgetInv
    <2> SUFFICES ASSUME Init PROVE BudgetInv
      OBVIOUS
    <2>1. Fitting(docs)
      BY DEF Init, FreeDocument, Fitting
    <2>2. Evictable(docs) = {}
      BY DEF Init, FreeDocument, Evictable
    <2>3. Retained(docs, {}) = Capacities!Sum(docs, {})
      BY DEF Retained, CapacityOf, MapThenSumSet, MapThenFoldSet, Capacities!Sum,
           Capacities!MapThenSumSet, Capacities!MapThenFoldSet
    <2>4. Capacities!Sum(docs, {}) = 0
      BY Capacities!SumEmpty
    <2>5. QED
      BY <2>1, <2>2, <2>3, <2>4, SchedulerAssumption DEF BudgetInv, InBudget
  <1>2. BudgetInv => CacheBudget
    BY DEF BudgetInv, InBudget, CacheBudget
  <1>3. QED
    BY <1>1, <1>2, NextFits, InvariantHolds, PTL DEF Spec

=============================================================================
