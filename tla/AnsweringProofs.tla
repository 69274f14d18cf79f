---------------------------- MODULE AnsweringProofs ----------------------------
(***************************************************************************)
(* Every request gets exactly one response, for a client that does not     *)
(* reuse the id of a request in flight.  (With a reused id the code        *)
(* answers two requests by one error, and the count is off.)  The queue of *)
(* deferred requests stays an array within its limit for every client.     *)
(*                                                                         *)
(* Then, where the cache budget has room for all (Ample): no request and   *)
(* no snapshot is forgotten, no provider answers early, a failure is kept, *)
(* and the scheduler implements SnapshotService.                           *)
(***************************************************************************)
EXTENDS AnalysisSchedulerProofs

\* The ids of waiting requests are distinct.
OncePerId(q) == \A x, y \in q : x.id = y.id => x = y

Waits(q, id) == \E r \in q : r.id = id

\* What is owed, counted without cardinalities.
OwedAre(o, q) == \A id \in Ids : o[id] = IF Waits(q, id) THEN 1 ELSE 0

\* The inductive invariant: it adds to the ledger that ids are distinct, on
\* which the removal of one request by its id relies, and the queue's limit.
LedgerInv ==
    /\ OncePerId(queue)
    /\ Cardinality(queue) <= MaxPending
    /\ pc # "stopped" => OwedAre(owed, queue)

-----------------------------------------------------------------------------
\* Distinct ids make the count of an id zero or one.
LEMMA CountById ==
  ASSUME NEW q, OncePerId(q), NEW id
  PROVE  Cardinality({r \in q : r.id = id}) = IF Waits(q, id) THEN 1 ELSE 0
  <1>1. CASE Waits(q, id)
    <2>1. PICK r \in q : r.id = id
      BY <1>1 DEF Waits
    <2>2. {x \in q : x.id = id} = {r}
      BY <2>1 DEF OncePerId
    <2>3. Cardinality({r}) = 1
      BY FS_Singleton
    <2>4. QED
      BY <1>1, <2>2, <2>3
  <1>2. CASE ~ Waits(q, id)
    <2>1. {x \in q : x.id = id} = {}
      BY <1>2 DEF Waits
    <2>2. QED
      BY <1>2, <2>1, FS_EmptySet
  <1>3. QED
    BY <1>1, <1>2

\* p rewrites the requests of q one by one, and leaves their ids alone.
Rewrites(p, q) ==
    /\ OncePerId(p)
    /\ \A id : Waits(p, id) <=> Waits(q, id)
    /\ Cardinality(p) \in Nat
    /\ Cardinality(p) <= Cardinality(q)

\* The image of a queue under a function that keeps ids rewrites it.
LEMMA ImageRewrites ==
  ASSUME NEW q, IsFiniteSet(q), OncePerId(q),
         NEW f, f = [r \in q |-> f[r]], \A r \in q : f[r].id = r.id
  PROVE  Rewrites({f[r] : r \in q}, q)
  <1> DEFINE p == {f[r] : r \in q}
  <1>1. f \in Surjection(q, p)
    BY DEF Surjection
  <1> HIDE DEF p
  <1>2. IsFiniteSet(p) /\ Cardinality(p) <= Cardinality(q)
    BY <1>1, FS_Surjection
  <1>3. Cardinality(p) \in Nat
    BY <1>2, FS_CardinalityType
  <1>4. OncePerId(p) /\ \A id : Waits(p, id) <=> Waits(q, id)
    BY DEF p, OncePerId, Waits
  <1>5. QED
    BY <1>2, <1>3, <1>4 DEF Rewrites, p

\* Closing up the array rewrites the queue.
LEMMA ReindexedRewrites ==
  ASSUME NEW q \in SUBSET Request, IsFiniteSet(q), OncePerId(q)
  PROVE  Rewrites(Reindexed(q), q)
  <1> DEFINE n(r) == Cardinality({x \in q : x.index <= r.index})
             f == [r \in q |-> [r EXCEPT !.index = n(r)]]
  <1>1. Reindexed(q) = {f[r] : r \in q}
    BY DEF Reindexed
  <1>2. \A r \in q : f[r].id = r.id
    <2> HIDE DEF n
    <2> QED
      BY DEF Request
  <1>3. f = [r \in q |-> f[r]]
    OBVIOUS
  <1> HIDE DEF f
  <1>4. QED
    BY <1>1, <1>2, <1>3, ImageRewrites

\* So does binding its requests to a new snapshot.
LEMMA ReboundRewrites ==
  ASSUME NEW q \in SUBSET Request, IsFiniteSet(q), OncePerId(q), NEW s, NEW d
  PROVE  Rewrites(Rebound(q, s, d), q)
  <1> DEFINE f == [r \in q |->
                    IF r.slot = s
                    THEN [r EXCEPT !.job = d.job, !.generation = d.generation,
                                   !.version = d.version, !.ready = FALSE]
                    ELSE r]
  <1>1. Rebound(q, s, d) = {f[r] : r \in q}
    BY DEF Rebound
  <1>2. \A r \in q : f[r].id = r.id
    BY DEF Request
  <1>3. f = [r \in q |-> f[r]]
    OBVIOUS
  <1> HIDE DEF f
  <1>4. QED
    BY <1>1, <1>2, <1>3, ImageRewrites

\* And so does marking them ready.
LEMMA MarkedReadyRewrites ==
  ASSUME NEW q \in SUBSET Request, IsFiniteSet(q), OncePerId(q),
         NEW s, NEW j, NEW g, NEW v
  PROVE  Rewrites(MarkedReady(q, s, j, g, v), q)
  <1> DEFINE f == [r \in q |-> IF IsFor(r, s, j, g, v)
                               THEN [r EXCEPT !.ready = TRUE] ELSE r]
  <1>1. MarkedReady(q, s, j, g, v) = {f[r] : r \in q}
    BY DEF MarkedReady
  <1>2. \A r \in q : f[r].id = r.id
    BY DEF Request
  <1>3. f = [r \in q |-> f[r]]
    OBVIOUS
  <1> HIDE DEF f
  <1>4. QED
    BY <1>1, <1>2, <1>3, ImageRewrites

\* The queue and its limit are countable.
LEMMA QueueCounts ==
  ASSUME TypeOK
  PROVE  /\ queue \in SUBSET Request /\ IsFiniteSet(queue)
         /\ Cardinality(queue) \in Nat /\ MaxPending \in Nat
         /\ owed \in [Ids -> Int]
  BY FS_CardinalityType, SchedulerAssumption DEF TypeOK

\* A step that rewrites the queue and answers nobody keeps the ledger.
LEMMA RewriteStep ==
  ASSUME TypeOK, LedgerInv, Rewrites(queue', queue), UNCHANGED owed,
         pc # "stopped" \/ pc' = "stopped"
  PROVE  LedgerInv'
  <1>1. OncePerId(queue') /\ (\A id : Waits(queue', id) <=> Waits(queue, id))
        /\ Cardinality(queue') \in Nat /\ Cardinality(queue') <= Cardinality(queue)
    BY DEF Rewrites
  <1>2. Cardinality(queue') <= MaxPending
    BY <1>1, QueueCounts DEF LedgerInv
  <1>3. OwedAre(owed, queue) => OwedAre(owed', queue')
    BY <1>1 DEF OwedAre
  <1>4. QED
    BY <1>1, <1>2, <1>3 DEF LedgerInv

\* Leaving the queue alone rewrites it.
LEMMA SameQueueRewrites ==
  ASSUME TypeOK, LedgerInv
  PROVE  Rewrites(queue, queue)
  BY QueueCounts DEF LedgerInv, Rewrites

\* The requests of R leave the queue with one response each.
LEMMA RequestsAnswered ==
  ASSUME TypeOK, LedgerInv, pc # "stopped", NEW R \in SUBSET queue
  PROVE  /\ Rewrites(Reindexed(queue \ R), queue \ R)
         /\ Cardinality(queue \ R) \in Nat
         /\ Cardinality(queue \ R) <= Cardinality(queue)
         /\ OwedAre(Answered(owed, R), queue \ R)
  <1>1. /\ queue \ R \in SUBSET Request
        /\ IsFiniteSet(queue \ R)
        /\ Cardinality(queue \ R) <= Cardinality(queue)
    BY QueueCounts, FS_Subset, queue \ R \in SUBSET queue
  <1>2. Cardinality(queue \ R) \in Nat
    BY <1>1, FS_CardinalityType
  <1>3. OncePerId(queue \ R) /\ OncePerId(R)
    BY DEF LedgerInv, OncePerId
  <1>4. Rewrites(Reindexed(queue \ R), queue \ R)
    BY <1>1, <1>3, ReindexedRewrites
  <1>5. ASSUME NEW id \in Ids
        PROVE  Answered(owed, R)[id] = IF Waits(queue \ R, id) THEN 1 ELSE 0
    <2>1. Answered(owed, R)[id] = owed[id] - (IF Waits(R, id) THEN 1 ELSE 0)
      BY <1>3, CountById DEF Answered
    <2>2. owed[id] = IF Waits(queue, id) THEN 1 ELSE 0
      BY DEF LedgerInv, OwedAre
    <2>3. /\ Waits(queue, id) <=> Waits(R, id) \/ Waits(queue \ R, id)
          /\ ~ (Waits(R, id) /\ Waits(queue \ R, id))
      BY DEF Waits, LedgerInv, OncePerId
    <2>4. QED
      BY <2>1, <2>2, <2>3
  <1>6. QED
    BY <1>1, <1>2, <1>4, <1>5 DEF OwedAre

-----------------------------------------------------------------------------
\* A request is dispatched that waits nowhere and is owed one answer.  It joins
\* the queue and stays owed, or is answered; the error for a reused id does not
\* occur.
LEMMA DispatchLedger ==
  ASSUME TypeOK, NEW id \in Ids, NEW sp, NEW m, NEW q, IsFiniteSet(q),
         OncePerId(q), Cardinality(q) <= MaxPending, ~ Waits(q, id),
         NEW o \in [Ids -> Int], o[id] = 1,
         \A i \in Ids : i # id => o[i] = IF Waits(q, i) THEN 1 ELSE 0,
         Dispatch(id, sp, m, q, o)
  PROVE  LedgerInv'
  <1> DEFINE settled == [o EXCEPT ![id] = @ - 1]
  <1>1. OwedAre(settled, q)
    BY DEF OwedAre
  <1>2. \/ queue' = q /\ owed' = settled
        \/ \E s \in Slots : /\ ~ QueueIsFull(q)
                            /\ queue' = q \cup {NewRequest(id, sp, m, s, q)}
                            /\ owed' = o
    BY DEF Dispatch, Waits
  <1>3. CASE queue' = q /\ owed' = settled
    BY <1>1, <1>3 DEF LedgerInv
  <1>4. ASSUME NEW s \in Slots, ~ QueueIsFull(q), owed' = o,
               queue' = q \cup {NewRequest(id, sp, m, s, q)}
        PROVE  LedgerInv'
    <2> DEFINE new == NewRequest(id, sp, m, s, q)
    <2>1. new.id = id
      BY DEF NewRequest
    <2>2. queue' = q \cup {new}
      BY <1>4
    <2> HIDE DEF new
    <2>3. OncePerId(q \cup {new})
      BY <2>1 DEF OncePerId, Waits
    <2>4. Cardinality(q \cup {new}) <= MaxPending
      <3>1. Cardinality(q) \in Nat /\ MaxPending \in Nat
        BY FS_CardinalityType, SchedulerAssumption
      <3>2. Cardinality(q) + 1 <= MaxPending
        BY <1>4, <3>1 DEF QueueIsFull
      <3>3. Cardinality(q \cup {new}) \in {Cardinality(q), Cardinality(q) + 1}
        BY FS_AddElement
      <3>4. QED
        BY <3>1, <3>2, <3>3
    <2>5. OwedAre(o, q \cup {new})
      BY <2>1 DEF OwedAre, Waits
    <2>6. QED
      BY <1>4, <2>2, <2>3, <2>4, <2>5 DEF LedgerInv
  <1>5. QED
    BY <1>2, <1>3, <1>4

\* A correct client asks under an id that nothing waits under.
LEMMA AskLedger ==
  ASSUME MaxOutstanding = 1, TypeOK, LedgerInv, NEW id \in Ids, NEW sp, NEW m,
         Ask(id, sp, m)
  PROVE  LedgerInv'
  <1>1. pc # "stopped" /\ owed[id] < 1
    BY DEF Ask, Receives
  <1>2. ~ Waits(queue, id) /\ owed[id] = 0
    BY <1>1 DEF LedgerInv, OwedAre
  <1> DEFINE o == [owed EXCEPT ![id] = @ + 1]
  <1>3. /\ o \in [Ids -> Int]
        /\ o[id] = 1
        /\ \A i \in Ids : i # id => o[i] = IF Waits(queue, i) THEN 1 ELSE 0
    BY <1>1, <1>2, QueueCounts DEF LedgerInv, OwedAre
  <1>4. Dispatch(id, sp, m, queue, o)
    BY DEF Ask
  <1> HIDE DEF o
  <1>5. QED
    BY <1>2, <1>3, <1>4, QueueCounts, DispatchLedger DEF LedgerInv

\* A replayed request has left the queue and is still owed its answer.
LEMMA ReplayLedger ==
  ASSUME TypeOK, LedgerInv, Replay
  PROVE  LedgerInv'
  <1>1. PICK r \in queue :
            Dispatch(r.id, r.spelling, r.method, Reindexed(queue \ {r}), owed)
    BY DEF Replay
  <1>2. pc # "stopped" /\ r.id \in Ids
    BY DEF Replay, TypeOK, Request
  <1> DEFINE q == Reindexed(queue \ {r})
  <1>3. /\ Rewrites(q, queue \ {r})
        /\ Cardinality(queue \ {r}) \in Nat
        /\ Cardinality(queue \ {r}) <= Cardinality(queue)
    BY <1>2, RequestsAnswered
  <1>4. IsFiniteSet(q)
    BY QueueCounts, FS_Subset, ReindexedType, queue \ {r} \in SUBSET queue
  <1>5. Dispatch(r.id, r.spelling, r.method, q, owed)
    BY <1>1
  <1> HIDE DEF q
  <1>6. ~ Waits(q, r.id) /\ Waits(queue, r.id)
    BY <1>3 DEF Rewrites, Waits, LedgerInv, OncePerId
  <1>7. \A i \in Ids : i # r.id => (Waits(q, i) <=> Waits(queue, i))
    BY <1>3 DEF Rewrites, Waits
  <1>8. /\ owed[r.id] = 1
        /\ \A i \in Ids : i # r.id => owed[i] = IF Waits(q, i) THEN 1 ELSE 0
    BY <1>2, <1>6, <1>7 DEF LedgerInv, OwedAre
  <1>9. Cardinality(q) <= MaxPending
    BY <1>3, QueueCounts DEF Rewrites, LedgerInv
  <1>10. OncePerId(q)
    BY <1>3 DEF Rewrites
  <1>11. QED
    BY <1>2, <1>4, <1>5, <1>6, <1>8, <1>9, <1>10, QueueCounts, DispatchLedger

\* Cancellation, close, shutdown and exit answer those they remove.
LEMMA RefusalLedger ==
  ASSUME TypeOK, LedgerInv, pc # "stopped", NEW R \in SUBSET queue,
         queue' = Reindexed(queue \ R), owed' = Answered(owed, R)
  PROVE  LedgerInv'
  <1>1. /\ Rewrites(Reindexed(queue \ R), queue \ R)
        /\ Cardinality(queue \ R) \in Nat
        /\ Cardinality(queue \ R) <= Cardinality(queue)
        /\ OwedAre(Answered(owed, R), queue \ R)
    BY RequestsAnswered
  <1>2. /\ OncePerId(queue')
        /\ \A id : Waits(queue', id) <=> Waits(queue \ R, id)
        /\ Cardinality(queue') \in Nat
        /\ Cardinality(queue') <= Cardinality(queue \ R)
    BY <1>1 DEF Rewrites
  <1>3. OwedAre(owed', queue')
    BY <1>1, <1>2 DEF OwedAre
  <1>4. QED
    BY <1>1, <1>2, <1>3, QueueCounts DEF LedgerInv

\* The client's messages keep the ledger.
LEMMA ClientLedger ==
  ASSUME MaxOutstanding = 1, TypeOK, LedgerInv, ClientMessage
  PROVE  LedgerInv'
  <1>1. ASSUME NEW sp \in Spellings, NEW v \in Versions, NEW t \in Texts,
               DidOpen(sp, v, t) \/ DidChange(sp, v, t)
        PROVE  LedgerInv'
    <2>1. /\ \E s, d : queue' = Rebound(queue, s, d)
          /\ UNCHANGED owed /\ pc # "stopped"
      BY <1>1 DEF DidOpen, DidChange, Accept, Receives
    <2>2. Rewrites(queue', queue)
      BY <2>1, QueueCounts, ReboundRewrites DEF LedgerInv
    <2>3. QED
      BY <2>1, <2>2, RewriteStep
  <1>2. ASSUME NEW sp \in Spellings, DidClose(sp)
        PROVE  LedgerInv'
    <2>1. PICK s \in Slots :
              /\ queue' = Reindexed(queue \ {r \in queue : r.slot = s})
              /\ owed' = Answered(owed, {r \in queue : r.slot = s})
      BY <1>2 DEF DidClose
    <2>2. pc # "stopped"
      BY <1>2 DEF DidClose, Receives
    <2>3. QED
      BY <2>1, <2>2, RefusalLedger, {r \in queue : r.slot = s} \in SUBSET queue
  <1>3. ASSUME NEW id \in Ids, Cancel(id)
        PROVE  LedgerInv'
    <2>1. PICK r \in queue : /\ r.id = id
                             /\ queue' = Reindexed(queue \ {r})
                             /\ owed' = [owed EXCEPT ![id] = @ - 1]
      BY <1>3 DEF Cancel
    <2>2. Answered(owed, {r}) = [owed EXCEPT ![id] = @ - 1]
      <3>1. OncePerId({r}) /\ \A i : Waits({r}, i) <=> i = id
        BY <2>1 DEF OncePerId, Waits
      <3>2. \A i \in Ids : Cardinality({x \in {r} : x.id = i}) = IF i = id THEN 1 ELSE 0
        BY <3>1, CountById
      <3>3. QED
        <4>1. Answered(owed, {r}) =
                [i \in Ids |-> owed[i] - (IF i = id THEN 1 ELSE 0)]
          BY <3>2 DEF Answered
        <4>2. \A i \in Ids : /\ owed[i] \in Int
                             /\ i # id => owed[i] - (IF i = id THEN 1 ELSE 0) = owed[i]
                             /\ i = id => owed[i] - (IF i = id THEN 1 ELSE 0) = owed[i] - 1
          BY QueueCounts
        <4>3. owed \in [Ids -> Int]
          BY QueueCounts
        <4>4. QED
          BY <4>1, <4>2, <4>3
    <2>3. pc # "stopped"
      BY <1>3 DEF Cancel, Receives
    <2>4. QED
      BY <2>1, <2>2, <2>3, RefusalLedger, {r} \in SUBSET queue
  <1>4. CASE Shutdown \/ Exit
    <2>1. queue' = {} /\ owed' = Answered(owed, queue) /\ pc # "stopped"
      BY <1>4 DEF Shutdown, Exit, Receives
    <2>2. OwedAre(Answered(owed, queue), queue \ queue)
      BY <2>1, RequestsAnswered, queue \in SUBSET queue
    <2>3. QED
      BY <2>1, <2>2, FS_EmptySet, SchedulerAssumption
         DEF LedgerInv, OncePerId, OwedAre, Waits
  <1>5. CASE IgnoredUpdate \/ IgnoredMessage
    BY <1>5, SameQueueRewrites, RewriteStep
       DEF IgnoredUpdate, IgnoredMessage, Receives, serverVars
  <1>6. QED
    BY <1>1, <1>2, <1>3, <1>4, <1>5, AskLedger DEF ClientMessage

\* So does every step.
LEMMA NextLedger ==
  ASSUME MaxOutstanding = 1, TypeOK, LedgerInv, [Next]_vars
  PROVE  LedgerInv'
  <1>1. CASE StartTurn
    <2>1. ASSUME NEW s \in Slots, StartWorker(s) \/ StartFails(s)
          PROVE  /\ UNCHANGED owed /\ pc # "stopped"
                 /\ \/ queue' = queue
                    \/ \E j, g, v : queue' = MarkedReady(queue, s, j, g, v)
      BY <2>1 DEF StartWorker, StartFails, MayStart
    <2>2. ASSUME NothingToStart
          PROVE  UNCHANGED owed /\ pc # "stopped" /\ queue' = queue
      BY <2>2 DEF NothingToStart, serverVars
    <2>3. UNCHANGED owed /\ pc # "stopped" /\ Rewrites(queue', queue)
      BY <1>1, <2>1, <2>2, SameQueueRewrites, QueueCounts, MarkedReadyRewrites
         DEF StartTurn, LedgerInv
    <2>4. QED
      BY <2>3, RewriteStep
  <1>2. CASE ClientMessage
    BY <1>2, ClientLedger
  <1>3. CASE Replay
    BY <1>3, ReplayLedger
  <1>4. CASE WorkerOutcome
    <2>1. /\ UNCHANGED owed /\ pc # "stopped"
          /\ \E s, j, g, v : queue' = MarkedReady(queue, s, j, g, v)
      BY <1>4 DEF WorkerOutcome, WorkerDone, WorkerFails, PacketRejected, WorkerEnds
    <2>2. Rewrites(queue', queue)
      BY <2>1, QueueCounts, MarkedReadyRewrites DEF LedgerInv
    <2>3. QED
      BY <2>1, <2>2, RewriteStep
  <1>5. CASE BlockOnInput \/ Wake \/ Terminate
    BY <1>5, SameQueueRewrites, RewriteStep
       DEF BlockOnInput, Wake, Terminate, serverVars
  <1>6. CASE UNCHANGED vars
    BY <1>6, SameQueueRewrites DEF vars, LedgerInv, OwedAre, Waits, OncePerId
  <1>7. QED
    BY <1>1, <1>2, <1>3, <1>4, <1>5, <1>6 DEF Next, NoFrame, Stopped

\* The ledger is balanced before the first request.
LEMMA InitLedger == Init => LedgerInv
  BY FS_EmptySet, SchedulerAssumption DEF Init, LedgerInv, OncePerId, OwedAre, Waits

\* For a client that does not reuse an id in flight, what is owed under an id
\* is what waits under it: whatever mix of replay, cancel, close, edit,
\* shutdown and failure released a request, it got one response.
THEOREM ExactlyOneResponse ==
  ASSUME MaxOutstanding = 1
  PROVE  Spec => []AnsweredExactlyOnce
  <1>1. IInv /\ LedgerInv /\ [Next]_vars => LedgerInv'
    BY NextLedger DEF IInv
  <1>2. LedgerInv => AnsweredExactlyOnce
    BY CountById DEF LedgerInv, OwedAre, AnsweredExactlyOnce, Deferred
  <1>3. QED
    BY InitLedger, InvariantHolds, <1>1, <1>2, PTL DEF Spec

-----------------------------------------------------------------------------
\* The indexes of q are 1, 2, 3..., one for each request.
Indexed(q) ==
    /\ \A x, y \in q : x.index = y.index => x = y
    /\ {r.index : r \in q} = 1 .. Cardinality(q)

\* Whatever the client does, the array of deferred requests is within its
\* limit, holds an id once, and has no gap.
QueueInv ==
    /\ OncePerId(queue)
    /\ Cardinality(queue) <= MaxPending
    /\ Indexed(queue)

\* An injective renumbering that stays within 1 .. n uses up all n numbers.
LEMMA NumbersAreUsedUp ==
  ASSUME NEW q, IsFiniteSet(q), NEW f,
         f \in [q -> 1 .. Cardinality(q)],
         \A x, y \in q : f[x] = f[y] => x = y
  PROVE  {f[r] : r \in q} = 1 .. Cardinality(q)
  <1> DEFINE T == 1 .. Cardinality(q)
  <1>1. Cardinality(q) \in Nat
    BY FS_CardinalityType
  <1>2. IsFiniteSet(T) /\ Cardinality(T) = Cardinality(q)
    BY <1>1, FS_Interval
  <1>3. f \in [q -> T]
    OBVIOUS
  <1> HIDE DEF T
  <1>4. f \in Injection(q, T)
    BY <1>3 DEF Injection, IsInjective
  <1>5. f \in Surjection(q, T)
    BY <1>2, <1>4, FS_Injection
  <1>6. {f[r] : r \in q} = T
    <2>1. \A t \in T : \E r \in q : f[r] = t
      BY <1>5 DEF Surjection
    <2>2. \A r \in q : f[r] \in T
      BY <1>3
    <2>3. QED
      BY <2>1, <2>2
  <1>7. QED
    BY <1>6 DEF T

\* A function that keeps ids keeps requests apart, and so their number.
LEMMA ImageIsAsLarge ==
  ASSUME NEW q, IsFiniteSet(q), OncePerId(q), NEW f, f = [r \in q |-> f[r]],
         \A r \in q : f[r].id = r.id
  PROVE  Cardinality({f[r] : r \in q}) = Cardinality(q)
  <1> DEFINE p == {f[r] : r \in q}
  <1>1. f \in [q -> p] /\ \A x, y \in q : f[x] = f[y] => x = y
    BY DEF OncePerId
  <1>2. f \in Surjection(q, p)
    BY DEF Surjection
  <1> HIDE DEF p
  <1>3. f \in Injection(q, p)
    BY <1>1 DEF Injection, IsInjective
  <1>4. Cardinality(p) = Cardinality(q)
    BY <1>2, <1>3, FS_Surjection
  <1>5. QED
    BY <1>4 DEF p

\* A rewriting that keeps ids and indexes leaves the array without a gap.
LEMMA ImageIsIndexed ==
  ASSUME NEW q, IsFiniteSet(q), OncePerId(q), Indexed(q), NEW f, f = [r \in q |-> f[r]],
         \A r \in q : f[r].id = r.id /\ f[r].index = r.index
  PROVE  Indexed({f[r] : r \in q})
  <1> DEFINE p == {f[r] : r \in q}
  <1>1. Cardinality(p) = Cardinality(q)
    BY ImageIsAsLarge
  <1>2. {x.index : x \in p} = {r.index : r \in q}
    OBVIOUS
  <1>3. \A x, y \in p : x.index = y.index => x = y
    BY DEF Indexed
  <1> HIDE DEF p
  <1>4. Indexed(p)
    BY <1>1, <1>2, <1>3 DEF Indexed
  <1>5. QED
    BY <1>4 DEF p

LEMMA ReboundIndexed ==
  ASSUME NEW q \in SUBSET Request, IsFiniteSet(q), OncePerId(q), Indexed(q), NEW s, NEW d
  PROVE  Indexed(Rebound(q, s, d))
  <1> DEFINE f == [r \in q |->
                    IF r.slot = s
                    THEN [r EXCEPT !.job = d.job, !.generation = d.generation,
                                   !.version = d.version, !.ready = FALSE]
                    ELSE r]
  <1>1. Rebound(q, s, d) = {f[r] : r \in q}
    BY DEF Rebound
  <1>2. \A r \in q : f[r].id = r.id /\ f[r].index = r.index
    BY DEF Request
  <1>3. f = [r \in q |-> f[r]]
    OBVIOUS
  <1> HIDE DEF f
  <1>4. QED
    BY <1>1, <1>2, <1>3, ImageIsIndexed

LEMMA MarkedReadyIndexed ==
  ASSUME NEW q \in SUBSET Request, IsFiniteSet(q), OncePerId(q), Indexed(q),
         NEW s, NEW j, NEW g, NEW v
  PROVE  Indexed(MarkedReady(q, s, j, g, v))
  <1> DEFINE f == [r \in q |-> IF IsFor(r, s, j, g, v)
                               THEN [r EXCEPT !.ready = TRUE] ELSE r]
  <1>1. MarkedReady(q, s, j, g, v) = {f[r] : r \in q}
    BY DEF MarkedReady
  <1>2. \A r \in q : f[r].id = r.id /\ f[r].index = r.index
    BY DEF Request
  <1>3. f = [r \in q |-> f[r]]
    OBVIOUS
  <1> HIDE DEF f
  <1>4. QED
    BY <1>1, <1>2, <1>3, ImageIsIndexed

\* Closing up leaves no gap, wherever requests have left the array: the new
\* index of a request is its rank among those that are left.
LEMMA ReindexedIndexed ==
  ASSUME NEW q \in SUBSET Request, IsFiniteSet(q), OncePerId(q),
         \A x, y \in q : x.index = y.index => x = y
  PROVE  Indexed(Reindexed(q))
  <1> DEFINE Below(r) == {x \in q : x.index <= r.index}
             rank == [r \in q |-> Cardinality(Below(r))]
             f == [r \in q |-> [r EXCEPT !.index = rank[r]]]
  <1>1. \A r \in q : r.index \in Nat
    BY DEF Request
  <1>2. Cardinality(q) \in Nat
    BY FS_CardinalityType
  <1>3. ASSUME NEW r \in q
        PROVE  /\ IsFiniteSet(Below(r)) /\ Cardinality(Below(r)) \in Nat
               /\ Cardinality(Below(r)) <= Cardinality(q)
               /\ Cardinality(Below(r)) >= 1
    <2>1. Below(r) \in SUBSET q
      OBVIOUS
    <2>2. IsFiniteSet(Below(r)) /\ Cardinality(Below(r)) <= Cardinality(q)
      BY <2>1, FS_Subset
    <2>3. Cardinality(Below(r)) \in Nat
      BY <2>2, FS_CardinalityType
    <2>4. r \in Below(r)
      BY <1>1
    <2>5. Cardinality(Below(r)) # 0
      BY <2>2, <2>4, FS_EmptySet
    <2>6. QED
      BY <2>2, <2>3, <2>5
  <1>4. rank \in [q -> 1 .. Cardinality(q)]
    <2> HIDE DEF Below
    <2>1. \A r \in q : Cardinality(Below(r)) \in 1 .. Cardinality(q)
      BY <1>2, <1>3
    <2>2. QED
      BY <2>1
  <1>5. ASSUME NEW x \in q, NEW y \in q, x.index < y.index
        PROVE  rank[x] < rank[y]
    <2>1. Below(x) \in SUBSET Below(y)
      BY <1>1, <1>5
    <2>2. y \in Below(y) /\ y \notin Below(x)
      BY <1>1, <1>5
    <2> DEFINE A == Below(x)
               B == Below(y)
    <2>3. /\ IsFiniteSet(B) /\ A \in SUBSET B /\ A # B
          /\ Cardinality(A) \in Nat /\ Cardinality(B) \in Nat
          /\ rank[x] = Cardinality(A) /\ rank[y] = Cardinality(B)
      BY <1>3, <2>1, <2>2
    <2> HIDE DEF A, B, rank
    <2>4. Cardinality(A) <= Cardinality(B) /\ Cardinality(A) # Cardinality(B)
      BY <2>3, FS_Subset
    <2>5. QED
      BY <2>3, <2>4
  <1> HIDE DEF rank
  <1>6. \A x, y \in q : rank[x] = rank[y] => x = y
    <2> SUFFICES ASSUME NEW x \in q, NEW y \in q, rank[x] = rank[y], x # y
                 PROVE  FALSE
      OBVIOUS
    <2>1. x.index < y.index \/ y.index < x.index
      BY <1>1
    <2>2. rank[x] \in Nat /\ rank[y] \in Nat
      BY <1>4
    <2>3. QED
      BY <1>5, <2>1, <2>2
  <1>7. {rank[r] : r \in q} = 1 .. Cardinality(q)
    BY <1>4, <1>6, NumbersAreUsedUp
  <1>8. Reindexed(q) = {f[r] : r \in q}
    BY DEF Reindexed, rank
  <1>9. \A r \in q : f[r].id = r.id /\ f[r].index = rank[r]
    BY DEF Request
  <1>10. f = [r \in q |-> f[r]]
    OBVIOUS
  <1> HIDE DEF f
  <1> DEFINE p == {f[r] : r \in q}
  <1>11. Cardinality(p) = Cardinality(q)
    BY <1>9, <1>10, ImageIsAsLarge
  <1>12. {x.index : x \in p} = {rank[r] : r \in q}
    BY <1>9
  <1>13. \A x, y \in p : x.index = y.index => x = y
    BY <1>6, <1>9
  <1> HIDE DEF p
  <1>14. Indexed(p)
    BY <1>7, <1>11, <1>12, <1>13 DEF Indexed
  <1>15. QED
    BY <1>8, <1>14 DEF p

\* A request joins at the end.
LEMMA JoinedIndexed ==
  ASSUME NEW q, IsFiniteSet(q), Indexed(q), NEW new, new \notin q,
         new.index = Cardinality(q) + 1
  PROVE  Indexed(q \cup {new})
  <1>1. Cardinality(q) \in Nat
    BY FS_CardinalityType
  <1>2. Cardinality(q \cup {new}) = Cardinality(q) + 1
    BY FS_AddElement
  <1>3. {r.index : r \in q \cup {new}} = {r.index : r \in q} \cup {Cardinality(q) + 1}
    OBVIOUS
  <1>4. {r.index : r \in q \cup {new}} = 1 .. Cardinality(q) + 1
    <2>1. {r.index : r \in q} = 1 .. Cardinality(q)
      BY DEF Indexed
    <2>2. \A n \in Nat : (1 .. n) \cup {n + 1} = 1 .. n + 1
      OBVIOUS
    <2>3. QED
      BY ONLY <1>1, <1>3, <2>1, <2>2
  <1>5. \A r \in q : r.index \in 1 .. Cardinality(q)
    BY DEF Indexed
  <1>6. \A r \in q : r.index # new.index
    BY <1>1, <1>5
  <1>7. \A x, y \in q \cup {new} : x.index = y.index => x = y
    BY <1>6 DEF Indexed
  <1>8. QED
    BY <1>2, <1>4, <1>7 DEF Indexed

\* A request that is dispatched joins a queue with room and without its id,
\* takes its namesake out, or leaves the queue as it is.
LEMMA DispatchQueue ==
  ASSUME NEW id, NEW sp, NEW m, NEW o,
         NEW q \in SUBSET Request, IsFiniteSet(q), OncePerId(q), Indexed(q),
         Cardinality(q) <= MaxPending, Dispatch(id, sp, m, q, o)
  PROVE  QueueInv'
  <1>1. Cardinality(q) \in Nat /\ MaxPending \in Nat
    BY FS_CardinalityType, SchedulerAssumption
  <1>2. ASSUME NEW r \in q, queue' = Reindexed(q \ {r})
        PROVE  QueueInv'
    <2>1. q \ {r} \in SUBSET Request /\ IsFiniteSet(q \ {r})
          /\ Cardinality(q \ {r}) <= Cardinality(q) /\ Cardinality(q \ {r}) \in Nat
      BY FS_Subset, FS_CardinalityType, q \ {r} \in SUBSET q
    <2>2. OncePerId(q \ {r}) /\ \A x, y \in q \ {r} : x.index = y.index => x = y
      BY DEF OncePerId, Indexed
    <2>3. Rewrites(Reindexed(q \ {r}), q \ {r})
      BY <2>1, <2>2, ReindexedRewrites
    <2>4. Indexed(Reindexed(q \ {r}))
      BY <2>1, <2>2, ReindexedIndexed
    <2>5. QED
      BY <1>1, <1>2, <2>1, <2>3, <2>4 DEF Rewrites, QueueInv
  <1>3. ASSUME NEW s, queue' = q \cup {NewRequest(id, sp, m, s, q)},
               \A r \in q : r.id # id, ~ QueueIsFull(q)
        PROVE  QueueInv'
    <2> DEFINE new == NewRequest(id, sp, m, s, q)
    <2>1. new.id = id /\ new.index = Cardinality(q) + 1
      BY DEF NewRequest
    <2>2. queue' = q \cup {new}
      BY <1>3
    <2> HIDE DEF new
    <2>3. Cardinality(q) + 1 <= MaxPending
      BY <1>1, <1>3 DEF QueueIsFull
    <2>4. Cardinality(q \cup {new}) \in {Cardinality(q), Cardinality(q) + 1}
      BY FS_AddElement
    <2>5. OncePerId(q \cup {new})
      BY <1>3, <2>1 DEF OncePerId
    <2>6. Indexed(q \cup {new})
      BY <1>3, <2>1, JoinedIndexed
    <2>7. QED
      BY <1>1, <2>2, <2>3, <2>4, <2>5, <2>6 DEF QueueInv
  <1>4. CASE queue' = q
    BY <1>4 DEF QueueInv
  <1>5. \/ queue' = q
        \/ \E r \in q : queue' = Reindexed(q \ {r})
        \/ /\ \A r \in q : r.id # id
           /\ ~ QueueIsFull(q)
           /\ \E s \in Slots : queue' = q \cup {NewRequest(id, sp, m, s, q)}
    BY DEF Dispatch
  <1>6. QED
    BY <1>2, <1>3, <1>4, <1>5

\* Requests that leave the queue leave it in shape.
LEMMA RemovalQueue ==
  ASSUME TypeOK, QueueInv, NEW R, queue' = Reindexed(queue \ R)
  PROVE  QueueInv'
  <1>1. /\ queue \ R \in SUBSET Request /\ IsFiniteSet(queue \ R)
        /\ Cardinality(queue \ R) <= Cardinality(queue)
        /\ Cardinality(queue \ R) \in Nat
    BY QueueCounts, FS_Subset, FS_CardinalityType, queue \ R \in SUBSET queue
  <1>2. OncePerId(queue \ R) /\ \A x, y \in queue \ R : x.index = y.index => x = y
    BY DEF QueueInv, OncePerId, Indexed
  <1>3. Rewrites(Reindexed(queue \ R), queue \ R)
    BY <1>1, <1>2, ReindexedRewrites
  <1>4. Indexed(Reindexed(queue \ R))
    BY <1>1, <1>2, ReindexedIndexed
  <1>5. QED
    BY <1>1, <1>3, <1>4, QueueCounts DEF Rewrites, QueueInv

LEMMA EmptyQueue == OncePerId({}) /\ Cardinality({}) <= MaxPending /\ Indexed({})
  <1>1. Cardinality({}) = 0 /\ MaxPending \in Nat
    BY FS_EmptySet, SchedulerAssumption
  <1>2. {r.index : r \in {}} = {} /\ 1 .. 0 = {}
    OBVIOUS
  <1>3. QED
    BY <1>1, <1>2 DEF OncePerId, Indexed

\* Every step keeps the queue in shape.
LEMMA NextQueue ==
  ASSUME TypeOK, QueueInv, [Next]_vars
  PROVE  QueueInv'
  <1>1. ASSUME NEW s, NEW j, NEW g, NEW v, queue' = MarkedReady(queue, s, j, g, v)
        PROVE  QueueInv'
    BY <1>1, QueueCounts, MarkedReadyRewrites, MarkedReadyIndexed DEF QueueInv, Rewrites
  <1>2. ASSUME NEW s, NEW d, queue' = Rebound(queue, s, d)
        PROVE  QueueInv'
    BY <1>2, QueueCounts, ReboundRewrites, ReboundIndexed DEF QueueInv, Rewrites
  <1>3. ASSUME queue' = queue
        PROVE  QueueInv'
    BY <1>3 DEF QueueInv, OncePerId, Indexed
  <1>4. ASSUME queue' = {}
        PROVE  QueueInv'
    BY <1>4, EmptyQueue DEF QueueInv
  <1>5. CASE StartTurn
    BY <1>1, <1>3, <1>5 DEF StartTurn, StartWorker, StartFails, NothingToStart, serverVars
  <1>6. CASE ClientMessage
    <2>1. ASSUME NEW id \in Ids, NEW sp \in Spellings, NEW m \in Methods, Ask(id, sp, m)
          PROVE  QueueInv'
      BY <2>1, QueueCounts, DispatchQueue DEF Ask, QueueInv
    <2>2. ASSUME NEW sp \in Spellings, DidClose(sp)
          PROVE  QueueInv'
      BY <2>2, RemovalQueue DEF DidClose
    <2>3. ASSUME NEW id \in Ids, Cancel(id)
          PROVE  QueueInv'
      BY <2>3, RemovalQueue DEF Cancel
    <2>4. ASSUME NEW sp \in Spellings, NEW v \in Versions, NEW t \in Texts,
                 DidOpen(sp, v, t) \/ DidChange(sp, v, t)
          PROVE  QueueInv'
      BY <1>2, <2>4 DEF DidOpen, DidChange, Accept
    <2>5. CASE Shutdown \/ Exit
      BY <1>4, <2>5 DEF Shutdown, Exit
    <2>6. CASE IgnoredUpdate \/ IgnoredMessage
      BY <1>3, <2>6 DEF IgnoredUpdate, IgnoredMessage, serverVars
    <2>7. QED
      BY <1>6, <2>1, <2>2, <2>3, <2>4, <2>5, <2>6 DEF ClientMessage
  <1>7. CASE Replay
    <2>1. PICK r \in queue :
              Dispatch(r.id, r.spelling, r.method, Reindexed(queue \ {r}), owed)
      BY <1>7 DEF Replay
    <2> DEFINE q == Reindexed(queue \ {r})
    <2>2. /\ queue \ {r} \in SUBSET Request /\ IsFiniteSet(queue \ {r})
          /\ Cardinality(queue \ {r}) <= Cardinality(queue)
          /\ Cardinality(queue \ {r}) \in Nat
      BY QueueCounts, FS_Subset, FS_CardinalityType, queue \ {r} \in SUBSET queue
    <2>3. q \in SUBSET Request /\ IsFiniteSet(q)
      BY <2>2, ReindexedType
    <2>4. OncePerId(q) /\ Cardinality(q) <= MaxPending /\ Indexed(q)
      <3>1. /\ OncePerId(queue \ {r})
            /\ \A x, y \in queue \ {r} : x.index = y.index => x = y
        BY DEF QueueInv, OncePerId, Indexed
      <3>2. Rewrites(q, queue \ {r})
        BY <2>2, <3>1, ReindexedRewrites
      <3>3. Indexed(q)
        BY <2>2, <3>1, ReindexedIndexed
      <3>4. QED
        BY <2>2, <3>2, <3>3, QueueCounts DEF QueueInv, Rewrites
    <2>5. QED
      BY <2>1, <2>3, <2>4, DispatchQueue
  <1>8. CASE WorkerOutcome
    BY <1>1, <1>8 DEF WorkerOutcome, WorkerDone, WorkerFails, PacketRejected, WorkerEnds
  <1>9. CASE BlockOnInput \/ Wake \/ Terminate \/ UNCHANGED vars
    BY <1>3, <1>9 DEF BlockOnInput, Wake, Terminate, vars, serverVars
  <1>10. QED
    BY <1>5, <1>6, <1>7, <1>8, <1>9 DEF Next, NoFrame, Stopped

\* The array of deferred requests never overflows, holds an id once and has no
\* gap, even if the client reuses an id in flight.
THEOREM QueueStaysAnArray == Spec => []QueueIsArray
  <1>1. Init => QueueInv
    BY EmptyQueue DEF Init, QueueInv
  <1>2. IInv /\ QueueInv /\ [Next]_vars => QueueInv'
    BY NextQueue DEF IInv
  <1>3. QueueInv => QueueIsArray
    BY DEF QueueInv, QueueIsArray, OncePerId, Indexed
  <1>4. QED
    BY <1>1, <1>2, <1>3, InvariantHolds, PTL DEF Spec

-----------------------------------------------------------------------------
(***************************************************************************)
(* While nothing has to be evicted.  L bounds the room reserved for the    *)
(* derived data of one document, and the budget holds that much for all of *)
(* them.  A configuration meets this or not, whatever a run of it does.    *)
(***************************************************************************)
Ample(L) ==
    /\ L \in Nat /\ L >= 1
    /\ \A t \in Texts : 2 * Size[t] <= L
    /\ MaxDocs * L <= CacheLimit

\* A document keeps its snapshot, its verdict and its place in the queue of
\* analyses, and holds no more than L.
CalmDocument(L, d, e) ==
    /\ SameIdentity(d, e)
    /\ e.state = d.state
    /\ e.queued = d.queued
    /\ e.capacity <= L

Calm(L, ds, es) ==
    /\ es \in [Slots -> Document]
    /\ \A s \in Slots : CalmDocument(L, ds[s], es[s])

Within(L, ds) == \A s \in Slots : ds[s].capacity <= L

\* No documents together hold more than the budget.
LEMMA RoomForAll ==
  ASSUME NEW L, Ample(L), NEW ds \in [Slots -> Document], Within(L, ds),
         NEW S \in SUBSET Slots
  PROVE  Retained(ds, S) \in 0 .. CacheLimit
  <1>1. /\ IsFiniteSet(S) /\ Cardinality(S) \in Nat
        /\ Cardinality(S) <= MaxDocs /\ MaxDocs \in Nat
    <2>1. MaxDocs \in Nat
      BY SchedulerAssumption
    <2>2. IsFiniteSet(1 .. MaxDocs) /\ Cardinality(1 .. MaxDocs) = MaxDocs
      BY <2>1, FS_Interval
    <2>3. IsFiniteSet(Slots) /\ Cardinality(Slots) = MaxDocs
      BY <2>2 DEF Slots
    <2>4. QED
      BY <2>1, <2>3, FS_Subset, FS_CardinalityType
  <1>2. L \in Nat /\ MaxDocs * L <= CacheLimit /\ CacheLimit \in Nat
    BY SchedulerAssumption DEF Ample
  <1>3. \A s \in S : CapacityOf(ds, s) \in Nat /\ CapacityOf(ds, s) <= L
    BY DEF CapacityOf, Document, Within
  <1>4. Retained(ds, S) = Capacities!Sum(ds, S)
    BY DEF Retained, CapacityOf, MapThenSumSet, MapThenFoldSet, Capacities!Sum,
           Capacities!MapThenSumSet, Capacities!MapThenFoldSet
  <1>5. Retained(ds, S) \in Nat /\ Retained(ds, S) <= Cardinality(S) * L
    <2>1. Capacities!IsFiniteSet(S)
      BY <1>1 DEF IsFiniteSet, Capacities!IsFiniteSet
    <2>2. Capacities!Cardinality(S) = Cardinality(S)
      BY DEF Cardinality, Capacities!Cardinality
    <2>3. /\ Capacities!Sum(ds, S) \in Nat
          /\ Capacities!Sum(ds, S) <= Capacities!Cardinality(S) * L
      BY <1>2, <1>3, <2>1, Capacities!SumBounded
    <2>4. QED
      BY <1>4, <2>2, <2>3
  <1>6. Cardinality(S) * L <= MaxDocs * L /\ Cardinality(S) * L \in Nat
        /\ MaxDocs * L \in Nat
    <2>1. \A m, n \in Nat : m * L \in Nat /\ (m <= n => m * L <= n * L)
      BY <1>2
    <2>2. QED
      BY ONLY <1>1, <2>1
  <1>7. QED
    BY ONLY <1>2, <1>5, <1>6

\* The budget finds nobody to evict.
LEMMA NobodyIsEvicted ==
  ASSUME NEW L, Ample(L), NEW ds \in [Slots -> Document], Within(L, ds)
  PROVE  EnforceBudget(ds) = ds
  <1>1. CacheLimit \in Nat
    BY SchedulerAssumption
  <1>2. \A S \in SUBSET Slots : Retained(ds, S) \in 0 .. CacheLimit
    BY RoomForAll
  <1>3. ASSUME NEW s \in Slots
        PROVE  s \notin Victims(ds)
    <2>1. {r \in Evictable(ds) : ~ LessRecent(ds, r, s)} \in SUBSET Slots
      BY DEF Evictable
    <2>2. Retained(ds, {r \in Evictable(ds) : ~ LessRecent(ds, r, s)}) \in 0 .. CacheLimit
      BY <1>2, <2>1
    <2>3. QED
      BY <1>1, <2>2 DEF Victims
  <1>4. QED
    BY <1>3 DEF EnforceBudget

\* Compaction only gives room back.
LEMMA CompactionIsCalm ==
  ASSUME NEW L, Ample(L), NEW ds \in [Slots -> Document], Within(L, ds),
         NEW es \in Reclaimed(ds)
  PROVE  Calm(L, ds, es)
  <1>1. CASE es = ds
    BY <1>1 DEF Calm, CalmDocument, SameIdentity, Within
  <1>2. CASE es = Compacted(ds)
    <2>1. es \in [Slots -> Document]
      BY <1>2, CompactedKeeps DEF Kept
    <2>2. ASSUME NEW s \in Slots
          PROVE  CalmDocument(L, ds[s], es[s])
      <3> DEFINE room == IF ds[s].cache = None THEN 0 ELSE Size[ds[s].cache]
      <3>1. ds[s].cache # None => Size[ds[s].cache] \in Nat /\ 2 * Size[ds[s].cache] <= L
        BY SizeType DEF Document, Ample
      <3>2. room <= L
        BY <3>1 DEF Ample
      <3> HIDE DEF room
      <3>3. es[s] = [ds[s] EXCEPT !.capacity = room]
        BY <1>2 DEF Compacted, room
      <3>4. QED
        BY <3>2, <3>3 DEF CalmDocument, SameIdentity, Document
    <2>3. QED
      BY <2>1, <2>2 DEF Calm
  <1>3. QED
    BY <1>1, <1>2 DEF Reclaimed

\* So is an access stamp.
LEMMA StampIsCalm ==
  ASSUME NEW L, NEW ds \in [Slots -> Document], Within(L, ds), NEW s \in Slots,
         clock \in 0 .. AccessWrap
  PROVE  Calm(L, ds, Touched(ds, s))
  <1>1. Touched(ds, s) \in [Slots -> Document]
    BY TouchedKeeps DEF Kept
  <1>2. ASSUME NEW r \in Slots
        PROVE  CalmDocument(L, ds[r], Touched(ds, s)[r])
    <2>1. PICK a : Touched(ds, s)[r] = [ds[r] EXCEPT !.access = a]
      BY DEF Touched
    <2>2. QED
      BY <2>1 DEF CalmDocument, SameIdentity, Document, Within
  <1>3. QED
    BY <1>1, <1>2 DEF Calm

\* Calm steps compose.
LEMMA CalmTransitive ==
  ASSUME NEW L, NEW ds, NEW es, NEW fs, Calm(L, ds, es), Calm(L, es, fs)
  PROVE  Calm(L, ds, fs)
  BY DEF Calm, CalmDocument, SameIdentity

\* What keeps the service going: room for all, jobs numbered up to the sequence,
\* verdicts on open documents only, and an analysis to come for each document
\* without a verdict and for each request that waits.
RoomInv(L) ==
    /\ Within(L, docs)
    /\ \A s \in Slots : docs[s].open => docs[s].job \in 1 .. jobs
    /\ \A s \in Slots : docs[s].state # "Pending" => docs[s].open
    /\ PendingIsScheduled
    /\ NoOrphanedWaiter

-----------------------------------------------------------------------------
(***************************************************************************)
(* Every step leaves all snapshots and verdicts alone (Calm), or settles,  *)
(* accepts or closes one document.                                         *)
(***************************************************************************)

\* The analysis of the document in s is over, with a verdict the client sees.
Settles(L, s, outcome) ==
    /\ docs[s].open
    /\ docs[s].state = "Pending"
    /\ docs' \in [Slots -> Document]
    /\ \A r \in Slots : r # s => CalmDocument(L, docs[r], docs'[r])
    /\ SameIdentity(docs[s], docs'[s])
    /\ docs'[s].state = outcome
    /\ docs'[s].capacity <= L
    /\ shown' = [shown EXCEPT ![docs[s].spelling] =
                    [version |-> docs[s].version,
                     text |-> IF outcome = "Ready" THEN docs[s].text ELSE None]]
    /\ worker = None \/ worker.slot = s
    /\ worker' = None
    /\ queue' = MarkedReady(queue, s, docs[s].job, docs[s].generation, docs[s].version)
    /\ UNCHANGED <<lifecycle, jobs>>
    /\ Live /\ pc' # "stopped"
    /\ served' = None

\* A snapshot is accepted in s.
Accepts(L, s, sp, v, t) ==
    /\ docs[s].open => docs[s].uri = Canonical[sp]
    /\ docs' \in [Slots -> Document]
    /\ \A r \in Slots : r # s => CalmDocument(L, docs[r], docs'[r])
    /\ docs'[s].open
    /\ docs'[s].uri = Canonical[sp]
    /\ docs'[s].spelling = sp
    /\ docs'[s].version = v
    /\ docs'[s].text = t
    /\ docs'[s].job = jobs + 1
    /\ docs'[s].state = "Pending"
    /\ docs'[s].queued
    /\ docs'[s].capacity <= L
    /\ jobs' = jobs + 1
    /\ worker' = AbortedFor(s)
    /\ \E d : queue' = Rebound(queue, s, d)
    /\ UNCHANGED <<lifecycle, shown>>
    /\ Live /\ pc' # "stopped"
    /\ served' = None

\* The document in s is closed under the spelling sp.
Closes(L, s, sp) ==
    /\ Has(s, Canonical[sp])
    /\ docs' \in [Slots -> Document]
    /\ \A r \in Slots : r # s => CalmDocument(L, docs[r], docs'[r])
    /\ ~ docs'[s].open
    /\ docs'[s].job = 0
    /\ docs'[s].state = "Pending"
    /\ docs'[s].capacity <= L
    /\ worker' = AbortedFor(s)
    /\ queue' = Reindexed(queue \ {r \in queue : r.slot = s})
    /\ shown' = [shown EXCEPT ![sp] = EmptyList(docs[s].version)]
    /\ UNCHANGED <<lifecycle, jobs>>
    /\ Live /\ pc' # "stopped"
    /\ served' = None

\* A worker that cannot be started settles its document.
LEMMA StartFailsSettles ==
  ASSUME NEW L, IInv, RoomInv(L), NEW s \in Slots, StartFails(s)
  PROVE  Settles(L, s, "Failed")
  <1>1. /\ docs[s] \in Document /\ docs[s].open /\ docs[s].queued
        /\ docs[s].state = "Pending" /\ worker = None /\ Live /\ pc' # "stopped"
        /\ shown' = [shown EXCEPT ![docs[s].spelling] = EmptyList(docs[s].version)]
        /\ docs' = [docs EXCEPT ![s] = AnalysisFailed(docs[s])]
        /\ docs \in [Slots -> Document]
    BY DEF StartFails, MayStart, IsNext, Waiting, IInv, TypeOK, QueuedIsPending, Live
  <1>2. /\ AnalysisFailed(docs[s]) \in Document
        /\ SameIdentity(docs[s], AnalysisFailed(docs[s]))
        /\ AnalysisFailed(docs[s]).state = "Failed"
        /\ AnalysisFailed(docs[s]).capacity = docs[s].capacity
    BY <1>1, AnalysisFailedType DEF AnalysisFailed, Document
  <1>3. \A r \in Slots : docs[r].capacity <= L
    BY DEF RoomInv, Within
  <1>4. QED
    BY <1>1, <1>2, <1>3
       DEF Settles, StartFails, CalmDocument, SameIdentity, EmptyList

\* So does a worker that fails.
LEMMA FailureSettles ==
  ASSUME NEW L, IInv, RoomInv(L), WorkerFails \/ PacketRejected
  PROVE  worker.slot \in Slots /\ Settles(L, worker.slot, "Failed")
  <1> DEFINE s == worker.slot
  <1>1. worker # None /\ WorkerEnds
    BY DEF WorkerFails, PacketRejected, WorkerEnds
  <1>2. FailJob
    BY <1>1, WorkerFacts DEF WorkerFails, PacketRejected
  <1>3. /\ s \in Slots /\ docs[s] \in Document /\ docs[s].open
        /\ docs[s].state = "Pending" /\ docs[s].job = worker.job
        /\ docs[s].generation = worker.generation
        /\ docs[s].version = worker.version
        /\ docs \in [Slots -> Document]
    BY <1>1, WorkerFacts DEF IsCurrent, IInv, TypeOK
  <1>4. Live /\ pc' # "stopped"
    BY <1>1 DEF WorkerEnds, Live, IInv, AfterShutdown, TypeOK
  <1>5. /\ AnalysisFailed(docs[s]) \in Document
        /\ SameIdentity(docs[s], AnalysisFailed(docs[s]))
        /\ AnalysisFailed(docs[s]).state = "Failed"
        /\ AnalysisFailed(docs[s]).capacity = docs[s].capacity
    BY <1>3, AnalysisFailedType DEF AnalysisFailed, Document
  <1>6. \A r \in Slots : docs[r].capacity <= L
    BY DEF RoomInv, Within
  <1>7. /\ docs' = [docs EXCEPT ![s] = AnalysisFailed(docs[s])]
        /\ shown' = [shown EXCEPT ![docs[s].spelling] = EmptyList(worker.version)]
    BY <1>2 DEF FailJob
  <1>8. QED
    BY <1>1, <1>3, <1>4, <1>5, <1>6, <1>7
       DEF Settles, WorkerEnds, CalmDocument, SameIdentity, EmptyList

\* And a worker whose packet is committed, whether its report is published now
\* or is on display already.
LEMMA CommitSettles ==
  ASSUME NEW L, Ample(L), IInv, RoomInv(L), WorkerDone
  PROVE  worker.slot \in Slots /\ Settles(L, worker.slot, "Ready")
  <1> DEFINE s == worker.slot
             report == ReportOf(worker)
             ready == AnalysisReady(docs[s], worker)
             stored == [docs EXCEPT ![s] = ready]
  <1>1. worker # None /\ WorkerEnds
    BY DEF WorkerDone, WorkerEnds
  <1>2. /\ s \in Slots /\ docs[s] \in Document /\ docs[s].open
        /\ docs[s].state = "Pending" /\ docs[s].job = worker.job
        /\ docs[s].generation = worker.generation
        /\ docs[s].version = worker.version
        /\ docs[s].spelling = worker.spelling
        /\ docs[s].text = worker.text
        /\ worker \in Worker
        /\ docs \in [Slots -> Document]
    BY <1>1, WorkerFacts DEF IsCurrent, IInv, TypeOK
  <1>3. Live /\ pc' # "stopped"
    BY <1>1 DEF WorkerEnds, Live, IInv, AfterShutdown, TypeOK
  <1>4. /\ docs' = [EnforceBudget(Touched(stored, s)) EXCEPT ![s].diag = report]
        /\ IF docs[s].diag = report THEN UNCHANGED shown ELSE Publish(report)
    BY <1>1, <1>2, WorkerFacts DEF WorkerDone, AlreadyPublished
  <1>5. /\ ready \in Document /\ SameIdentity(docs[s], ready)
        /\ ready.state = "Ready" /\ ready.capacity <= L
    <2>1. worker.text \in Texts
      BY <1>2 DEF Worker
    <2>2. docs[s].capacity <= L /\ Size[worker.text] \in Nat /\ 2 * Size[worker.text] <= L
      BY <1>2, <2>1, SizeType DEF RoomInv, Within, Ample
    <2>3. Reserved(docs[s], Size[worker.text]) <= L
      BY <2>2 DEF Reserved, Ample
    <2>4. ready.capacity = Reserved(docs[s], Size[worker.text])
      BY <1>2 DEF AnalysisReady, Document
    <2>5. QED
      BY <1>2, <2>3, <2>4, AnalysisReadyType
  <1> HIDE DEF ready
  <1>6. stored \in [Slots -> Document] /\ stored[s] = ready /\ Within(L, stored)
        /\ \A r \in Slots : r # s => stored[r] = docs[r]
    BY <1>2, <1>5 DEF RoomInv, Within
  <1> HIDE DEF stored
  <1>7. Calm(L, stored, Touched(stored, s))
    BY <1>2, <1>6, StampIsCalm DEF IInv, TypeOK
  <1>8. docs' = [Touched(stored, s) EXCEPT ![s].diag = report]
    <2>1. Touched(stored, s) \in [Slots -> Document] /\ Within(L, Touched(stored, s))
      BY <1>7 DEF Calm, CalmDocument, Within
    <2>2. EnforceBudget(Touched(stored, s)) = Touched(stored, s)
      BY <2>1, NobodyIsEvicted
    <2>3. QED
      BY <1>4, <2>2
  <1>9. report \in Report
    BY <1>2 DEF ReportOf, Report, Worker
  <1>10. /\ docs' \in [Slots -> Document]
         /\ \A r \in Slots : r # s => CalmDocument(L, docs[r], docs'[r])
         /\ SameIdentity(docs[s], docs'[s])
         /\ docs'[s].state = "Ready"
         /\ docs'[s].capacity <= L
    <2> DEFINE e == [Touched(stored, s)[s] EXCEPT !.diag = report]
    <2>1. Touched(stored, s)[s] \in Document /\ CalmDocument(L, ready, Touched(stored, s)[s])
      BY <1>2, <1>6, <1>7 DEF Calm
    <2>2. /\ e \in Document /\ SameIdentity(ready, e) /\ e.state = "Ready"
          /\ e.capacity <= L
      BY <1>5, <1>9, <2>1 DEF CalmDocument, SameIdentity, Document
    <2> HIDE DEF e
    <2>3. /\ docs' \in [Slots -> Document] /\ docs'[s] = e
          /\ \A r \in Slots : r # s => docs'[r] = Touched(stored, s)[r]
      BY <1>2, <1>7, <1>8, <2>2 DEF Calm, e
    <2>4. \A r \in Slots : r # s => CalmDocument(L, docs[r], docs'[r])
      BY <1>6, <1>7, <2>3 DEF Calm
    <2>5. QED
      BY <1>5, <2>2, <2>3, <2>4 DEF SameIdentity
  <1>11. shown' = [shown EXCEPT ![docs[s].spelling] =
                     [version |-> docs[s].version, text |-> docs[s].text]]
    <2>1. /\ report.spelling = docs[s].spelling
          /\ report.version = docs[s].version
          /\ report.text = docs[s].text
          /\ report # None
      BY <1>2, <1>9, NoneAssumption DEF ReportOf
    <2>2. CASE docs[s].diag = report
      <3>1. shown[docs[s].spelling]
              = [version |-> docs[s].version, text |-> docs[s].text]
        BY <1>2, <2>1, <2>2 DEF IInv, DiagIsShown
      <3>2. shown' = shown /\ shown \in [Spellings -> Shown \cup {None}]
        BY <1>4, <2>2 DEF IInv, TypeOK
      <3>3. QED
        BY <3>1, <3>2
    <2>3. CASE docs[s].diag # report
      BY <1>4, <2>1, <2>3 DEF Publish
    <2>4. QED
      BY <2>2, <2>3
  <1>12. QED
    BY <1>1, <1>2, <1>3, <1>10, <1>11 DEF Settles, WorkerEnds

\* The housekeeping after an update evicts nobody.
LEMMA AcceptanceAccepts ==
  ASSUME NEW L, Ample(L), IInv, RoomInv(L), NEW s \in Slots, NEW g \in Int,
         NEW sp \in Spellings, NEW v \in Versions, NEW t \in Texts,
         Receives, Accept(s, g, sp, v, t), IsSlotFor(s, Canonical[sp])
  PROVE  Accepts(L, s, sp, v, t)
  <1> DEFINE new == SnapshotAccepted(docs[s], g, sp, v, t, jobs + 1)
             table == [docs EXCEPT ![s] = new]
  <1>1. /\ jobs \in Nat /\ jobs + 1 \in Nat /\ docs[s] \in Document
        /\ docs \in [Slots -> Document] /\ docs[s].capacity <= L
    BY SchedulerAssumption DEF IInv, TypeOK, RoomInv, Within
  <1>2. /\ worker' = AbortedFor(s) /\ jobs' = jobs + 1
        /\ docs' \in Reclaimed(EnforceBudget(table))
        /\ queue' = Rebound(queue, s, new)
        /\ served' = None
        /\ UNCHANGED <<lifecycle, shown>>
        /\ Live /\ pc' # "stopped"
    BY DEF Accept, Receives, Live
  <1>3. /\ new \in Document /\ new.open /\ new.uri = Canonical[sp]
        /\ new.spelling = sp /\ new.version = v /\ new.text = t
        /\ new.state = "Pending"
    <2>1. \A j \in Nat : LET e == SnapshotAccepted(docs[s], g, sp, v, t, j)
                         IN  /\ e \in Document /\ e.open /\ e.uri = Canonical[sp]
                             /\ e.spelling = sp /\ e.version = v /\ e.text = t
                             /\ e.state = "Pending"
      BY <1>1, SnapshotAcceptedType
    <2>2. QED
      BY <1>1, <2>1
  <1>4. new.job = jobs + 1 /\ new.queued /\ new.capacity <= L
    BY <1>1 DEF SnapshotAccepted, Document
  <1> HIDE DEF new
  <1>5. /\ table \in [Slots -> Document] /\ table[s] = new /\ Within(L, table)
        /\ \A r \in Slots : r # s => table[r] = docs[r]
    BY <1>1, <1>3, <1>4 DEF RoomInv, Within
  <1> HIDE DEF table
  <1>6. Calm(L, table, docs')
    BY <1>2, <1>5, NobodyIsEvicted, CompactionIsCalm
  <1>7. /\ docs' \in [Slots -> Document] /\ CalmDocument(L, new, docs'[s])
        /\ \A r \in Slots : r # s => CalmDocument(L, docs[r], docs'[r])
    BY <1>5, <1>6 DEF Calm
  <1>8. QED
    BY <1>2, <1>3, <1>4, <1>7 DEF Accepts, IsSlotFor, Has, CalmDocument, SameIdentity

\* A close frees its slot and evicts nobody either.
LEMMA ClosureCloses ==
  ASSUME NEW L, Ample(L), IInv, RoomInv(L), NEW sp \in Spellings, DidClose(sp)
  PROVE  \E s \in Slots : Closes(L, s, sp)
  <1>1. PICK s \in Slots :
            /\ Has(s, Canonical[sp])
            /\ worker' = AbortedFor(s)
            /\ queue' = Reindexed(queue \ {r \in queue : r.slot = s})
            /\ docs' \in Reclaimed([docs EXCEPT
                            ![s] = FreeDocument(docs[s].generation + 1)])
            /\ shown' = [shown EXCEPT ![sp] = EmptyList(docs[s].version)]
    BY DEF DidClose
  <1> DEFINE free == FreeDocument(docs[s].generation + 1)
             table == [docs EXCEPT ![s] = free]
  <1>2. free \in Document /\ ~ free.open /\ free.job = 0 /\ free.state = "Pending"
        /\ free.capacity = 0
    <2>1. docs[s].generation + 1 \in Int
      BY DEF IInv, TypeOK, Document
    <2>2. QED
      BY <2>1, FreeDocumentType DEF FreeDocument
  <1>3. docs' \in Reclaimed(table)
    BY <1>1
  <1> HIDE DEF free
  <1>4. /\ table \in [Slots -> Document] /\ table[s] = free /\ Within(L, table)
        /\ \A r \in Slots : r # s => table[r] = docs[r]
    BY <1>2 DEF IInv, TypeOK, RoomInv, Within, Ample
  <1> HIDE DEF table
  <1>5. Calm(L, table, docs')
    BY <1>3, <1>4, CompactionIsCalm
  <1>6. /\ docs' \in [Slots -> Document] /\ CalmDocument(L, free, docs'[s])
        /\ \A r \in Slots : r # s => CalmDocument(L, docs[r], docs'[r])
    BY <1>4, <1>5 DEF Calm
  <1>7. UNCHANGED <<lifecycle, jobs>> /\ Live /\ pc' # "stopped" /\ served' = None
    BY DEF DidClose, Receives, Live
  <1>8. QED
    BY <1>1, <1>2, <1>6, <1>7 DEF Closes, CalmDocument, SameIdentity

\* A request touches at most the access stamps.
LEMMA DispatchIsCalm ==
  ASSUME NEW L, IInv, RoomInv(L), NEW id, NEW sp, NEW m, NEW q, NEW o,
         Dispatch(id, sp, m, q, o)
  PROVE  Calm(L, docs, docs')
  <1>1. docs \in [Slots -> Document] /\ clock \in 0 .. AccessWrap /\ Within(L, docs)
    BY DEF IInv, TypeOK, RoomInv
  <1>2. UNCHANGED docs \/ \E s \in Slots : docs' = Touched(docs, s)
    BY DEF Dispatch
  <1>3. CASE UNCHANGED docs
    BY <1>1, <1>3 DEF Calm, CalmDocument, SameIdentity, Within
  <1>4. QED
    BY <1>1, <1>2, <1>3, StampIsCalm

-----------------------------------------------------------------------------
\* A calm step keeps the service going if no worker is lost and every request
\* left waiting did wait before, or has its analysis to come.
LEMMA CalmStep ==
  ASSUME NEW L, IInv, RoomInv(L), Calm(L, docs, docs'), jobs' = jobs,
         Live' => Live /\ worker' = worker,
         \A x \in queue' : /\ x.slot \in Slots
                           /\ \/ x.ready
                              \/ \E r \in queue : ~ r.ready /\ r.slot = x.slot
                              \/ Scheduled(x.slot)
  PROVE  RoomInv(L)'
  <1>1. \A s \in Slots : /\ docs'[s].open = docs[s].open
                         /\ docs'[s].job = docs[s].job
                         /\ docs'[s].state = docs[s].state
                         /\ docs'[s].queued = docs[s].queued
                         /\ docs'[s].capacity <= L
    BY DEF Calm, CalmDocument, SameIdentity
  <1>2. \A s \in Slots : Live' => (Scheduled(s)' <=> Scheduled(s))
    BY <1>1 DEF Scheduled
  <1>3. PendingIsScheduled'
    BY <1>1, <1>2 DEF RoomInv, PendingIsScheduled, Live
  <1>4. NoOrphanedWaiter'
    BY <1>2 DEF RoomInv, NoOrphanedWaiter, Live
  <1>5. QED
    BY <1>1, <1>3, <1>4 DEF RoomInv, Within

\* A verdict releases all that wait for it.
LEMMA SettleStep ==
  ASSUME NEW L, IInv, RoomInv(L), NEW s \in Slots, NEW outcome \in {"Ready", "Failed"},
         Settles(L, s, outcome)
  PROVE  RoomInv(L)'
  <1>1. \A r \in Slots : /\ docs'[r].open = docs[r].open
                         /\ docs'[r].job = docs[r].job
                         /\ docs'[r].capacity <= L
                         /\ r # s => /\ docs'[r].state = docs[r].state
                                     /\ docs'[r].queued = docs[r].queued
    BY DEF Settles, CalmDocument, SameIdentity
  <1>2. docs[s].open /\ docs'[s].state # "Pending" /\ jobs' = jobs /\ Live
    BY DEF Settles
  <1>3. \A r \in Slots : r # s /\ Scheduled(r) => Scheduled(r)'
    BY <1>1 DEF Settles, Scheduled
  <1>4. PendingIsScheduled'
    BY <1>1, <1>2, <1>3 DEF RoomInv, PendingIsScheduled
  <1>5. NoOrphanedWaiter'
    <2> SUFFICES ASSUME NEW x \in queue', ~ x.ready
                 PROVE  Scheduled(x.slot)'
      BY DEF NoOrphanedWaiter
    <2>1. x \in queue /\ ~ IsFor(x, s, docs[s].job, docs[s].generation, docs[s].version)
      <3>1. PICK r \in queue :
                x = IF IsFor(r, s, docs[s].job, docs[s].generation, docs[s].version)
                    THEN [r EXCEPT !.ready = TRUE] ELSE r
        BY DEF Settles, MarkedReady
      <3>2. r \in Request
        BY DEF IInv, TypeOK
      <3>3. QED
        BY <3>1, <3>2 DEF Request
    <2>2. x.slot \in Slots /\ x.slot # s
      BY <2>1 DEF IInv, TypeOK, Request, WaitersAreBound
    <2>3. QED
      BY <1>2, <1>3, <2>1, <2>2 DEF RoomInv, NoOrphanedWaiter
  <1>6. QED
    BY <1>1, <1>2, <1>4, <1>5 DEF RoomInv, Within

\* What is accepted is queued, and its requests wait for it.
LEMMA AcceptedStep ==
  ASSUME NEW L, IInv, RoomInv(L), NEW s \in Slots, NEW sp, NEW v, NEW t,
         Accepts(L, s, sp, v, t)
  PROVE  RoomInv(L)'
  <1>1. \A r \in Slots : r # s => /\ docs'[r].open = docs[r].open
                                  /\ docs'[r].job = docs[r].job
                                  /\ docs'[r].capacity <= L
                                  /\ docs'[r].state = docs[r].state
                                  /\ docs'[r].queued = docs[r].queued
    BY DEF Accepts, CalmDocument, SameIdentity
  <1>2. /\ docs'[s].open /\ docs'[s].queued /\ docs'[s].job = jobs + 1
        /\ docs'[s].capacity <= L /\ jobs' = jobs + 1 /\ jobs \in Nat /\ Live
    BY DEF Accepts, IInv, TypeOK
  <1>3. \A r \in Slots : r # s /\ Scheduled(r) => Scheduled(r)'
    BY <1>1, NoneAssumption DEF Accepts, Scheduled, AbortedFor
  <1>4. Scheduled(s)'
    BY <1>2 DEF Scheduled
  <1>5. PendingIsScheduled'
    BY <1>1, <1>2, <1>3, <1>4 DEF RoomInv, PendingIsScheduled
  <1>6. NoOrphanedWaiter'
    <2> SUFFICES ASSUME NEW x \in queue', ~ x.ready
                 PROVE  Scheduled(x.slot)'
      BY DEF NoOrphanedWaiter
    <2>1. x.slot = s \/ (x \in queue /\ x.slot \in Slots)
      <3>1. PICK d : queue' = Rebound(queue, s, d)
        BY DEF Accepts
      <3>2. PICK r \in queue :
                x = IF r.slot = s
                    THEN [r EXCEPT !.job = d.job, !.generation = d.generation,
                                   !.version = d.version, !.ready = FALSE]
                    ELSE r
        BY <3>1 DEF Rebound
      <3>3. r \in Request
        BY DEF IInv, TypeOK
      <3>4. QED
        BY <3>2, <3>3 DEF Request
    <2>2. QED
      BY <1>2, <1>3, <1>4, <2>1 DEF RoomInv, NoOrphanedWaiter
  <1>7. \A r \in Slots : docs'[r].open => docs'[r].job \in 1 .. jobs'
    BY <1>1, <1>2 DEF RoomInv
  <1>8. QED
    BY <1>1, <1>2, <1>5, <1>6, <1>7 DEF RoomInv, Within

\* What is closed takes its requests along.
LEMMA ClosedStep ==
  ASSUME NEW L, IInv, RoomInv(L), NEW s \in Slots, NEW sp, Closes(L, s, sp)
  PROVE  RoomInv(L)'
  <1>1. \A r \in Slots : r # s => /\ docs'[r].open = docs[r].open
                                  /\ docs'[r].job = docs[r].job
                                  /\ docs'[r].capacity <= L
                                  /\ docs'[r].state = docs[r].state
                                  /\ docs'[r].queued = docs[r].queued
    BY DEF Closes, CalmDocument, SameIdentity
  <1>2. /\ ~ docs'[s].open /\ docs'[s].state = "Pending"
        /\ docs'[s].capacity <= L /\ jobs' = jobs /\ Live
    BY DEF Closes
  <1>3. \A r \in Slots : r # s /\ Scheduled(r) => Scheduled(r)'
    BY <1>1 DEF Closes, Scheduled, AbortedFor
  <1>4. PendingIsScheduled'
    BY <1>1, <1>2, <1>3 DEF RoomInv, PendingIsScheduled
  <1>5. NoOrphanedWaiter'
    <2> SUFFICES ASSUME NEW x \in queue', ~ x.ready
                 PROVE  Scheduled(x.slot)'
      BY DEF NoOrphanedWaiter
    <2> DEFINE left == queue \ {r \in queue : r.slot = s}
    <2>1. left \in SUBSET Request /\ IsFiniteSet(left)
      BY FS_Subset, left \in SUBSET queue DEF IInv, TypeOK
    <2>2. queue' = Reindexed(left)
      BY DEF Closes
    <2>3. PICK r \in left : SameBinding(x, r) /\ x.ready = r.ready
      <3> HIDE DEF left
      <3> QED
        BY <2>1, <2>2, ReindexedType
    <2>4. r \in queue /\ r.slot # s /\ x.slot = r.slot /\ r.slot \in Slots /\ ~ r.ready
      BY <2>3 DEF SameBinding, IInv, TypeOK, Request
    <2>5. QED
      BY <1>2, <1>3, <2>4 DEF RoomInv, NoOrphanedWaiter
  <1>6. QED
    BY <1>1, <1>2, <1>4, <1>5 DEF RoomInv, Within

\* No snapshot and no verdict changes, no worker is lost, and nobody waits who
\* has no analysis to wait for.
Rests(L) ==
    /\ Calm(L, docs, docs')
    /\ jobs' = jobs
    /\ Live' => Live /\ worker' = worker
    /\ \A x \in queue' : /\ x.slot \in Slots
                         /\ \/ x.ready
                            \/ \E r \in queue : ~ r.ready /\ r.slot = x.slot
                            \/ Scheduled(x.slot)

\* The steps of the loop itself, what is ignored, and the end of the session.
LEMMA LoopRests ==
  ASSUME NEW L, Ample(L), IInv, RoomInv(L),
         \/ NothingToStart \/ IgnoredMessage \/ IgnoredUpdate \/ Shutdown \/ Exit
         \/ BlockOnInput \/ Wake \/ Terminate \/ UNCHANGED vars
  PROVE  Rests(L)
  <1>1. docs \in [Slots -> Document] /\ Within(L, docs) /\ queue \in SUBSET Request
    BY DEF IInv, TypeOK, RoomInv
  <1>2. Calm(L, docs, docs')
    <2>1. CASE UNCHANGED docs
      BY <1>1, <2>1 DEF Calm, CalmDocument, SameIdentity, Within
    <2>2. CASE IgnoredUpdate
      BY <1>1, <2>2, NobodyIsEvicted, CompactionIsCalm DEF IgnoredUpdate
    <2>3. QED
      BY <2>1, <2>2 DEF NothingToStart, IgnoredMessage, Shutdown, Exit, BlockOnInput,
                        Wake, Terminate, vars, serverVars
  <1>3. queue' \in {queue, {}} /\ jobs' = jobs
    BY DEF NothingToStart, IgnoredMessage, IgnoredUpdate, Shutdown, Exit, BlockOnInput,
           Wake, Terminate, vars, serverVars
  <1>4. Live' => Live /\ worker' = worker
    BY DEF NothingToStart, IgnoredMessage, IgnoredUpdate, Shutdown, Exit, BlockOnInput,
           Wake, Terminate, vars, serverVars, Live, Receives
  <1>5. \A x \in queue' : x \in queue /\ x.slot \in Slots
    BY <1>1, <1>3 DEF Request
  <1>6. QED
    BY <1>2, <1>3, <1>4, <1>5 DEF Rests

\* Whatever leaves the queue, the others wait as before.
LEMMA RemovedWait ==
  ASSUME NEW q \in SUBSET Request, IsFiniteSet(q), NEW R
  PROVE  /\ Reindexed(q \ R) \in SUBSET Request
         /\ IsFiniteSet(Reindexed(q \ R))
         /\ \A x \in Reindexed(q \ R) :
                \E r \in q : x.ready = r.ready /\ r.slot = x.slot
  <1>1. q \ R \in SUBSET Request /\ IsFiniteSet(q \ R)
    BY FS_Subset, q \ R \in SUBSET q
  <1>2. QED
    BY <1>1, ReindexedType DEF SameBinding

\* A request that is cancelled leaves.
LEMMA CancelRests ==
  ASSUME NEW L, IInv, RoomInv(L), NEW id, Cancel(id)
  PROVE  Rests(L)
  <1>1. PICK r \in queue : queue' = Reindexed(queue \ {r})
    BY DEF Cancel
  <1>2. /\ docs \in [Slots -> Document] /\ Within(L, docs)
        /\ queue \in SUBSET Request /\ IsFiniteSet(queue)
    BY DEF IInv, TypeOK, RoomInv
  <1>3. UNCHANGED <<docs, jobs, worker, lifecycle>> /\ Live
    BY DEF Cancel, Receives, Live
  <1>4. Calm(L, docs, docs')
    BY <1>2, <1>3 DEF Calm, CalmDocument, SameIdentity, Within
  <1>5. \A x \in queue' : x.slot \in Slots
            /\ (x.ready \/ \E y \in queue : ~ y.ready /\ y.slot = x.slot)
    <2>1. /\ queue' \in SUBSET Request
          /\ \A x \in queue' : \E y \in queue : x.ready = y.ready /\ y.slot = x.slot
      BY <1>1, <1>2, RemovedWait
    <2>2. QED
      BY <2>1 DEF Request
  <1>6. QED
    BY <1>3, <1>4, <1>5 DEF Rests

\* A request that joins the queue has its analysis to come.
LEMMA DispatchRests ==
  ASSUME NEW L, IInv, RoomInv(L), NEW id, NEW sp, NEW m, NEW o,
         NEW q \in SUBSET Request, IsFiniteSet(q),
         \A x \in q : \E r \in queue : x.ready = r.ready /\ r.slot = x.slot,
         Dispatch(id, sp, m, q, o), UNCHANGED <<worker, jobs>>, Live
  PROVE  Rests(L)
  <1>1. Calm(L, docs, docs')
    BY DispatchIsCalm
  <1>2. \/ queue' = q
        \/ \E r \in q : queue' = Reindexed(q \ {r})
        \/ \E s \in Slots : /\ Defers(sp, m, s)
                            /\ queue' = q \cup {NewRequest(id, sp, m, s, q)}
    BY DEF Dispatch
  <1>3. ASSUME NEW x \in q
        PROVE  x.slot \in Slots /\ (x.ready \/ \E r \in queue : ~ r.ready /\ r.slot = x.slot)
    BY DEF Request
  <1>4. \A x \in queue' :
            /\ x.slot \in Slots
            /\ \/ x.ready
               \/ \E r \in queue : ~ r.ready /\ r.slot = x.slot
               \/ Scheduled(x.slot)
    <2>1. CASE queue' = q
      BY <1>3, <2>1
    <2>2. ASSUME NEW y \in q, queue' = Reindexed(q \ {y})
          PROVE  \A x \in queue' :
                    x.slot \in Slots
                    /\ (x.ready \/ \E r \in queue : ~ r.ready /\ r.slot = x.slot)
      <3>1. \A x \in queue' : \E r \in q : x.ready = r.ready /\ r.slot = x.slot
        BY <2>2, RemovedWait
      <3>2. QED
        BY <1>3, <3>1
    <2>3. ASSUME NEW s \in Slots, Defers(sp, m, s),
                 queue' = q \cup {NewRequest(id, sp, m, s, q)}
          PROVE  \A x \in queue' : x \in q \/ (x.slot \in Slots /\ Scheduled(x.slot))
      BY <2>3 DEF NewRequest, Defers
    <2>4. CASE \E y \in q : queue' = Reindexed(q \ {y})
      BY <2>2, <2>4
    <2>5. CASE \E s \in Slots : /\ Defers(sp, m, s)
                                /\ queue' = q \cup {NewRequest(id, sp, m, s, q)}
      BY <1>3, <2>3, <2>5
    <2>6. QED
      BY <1>2, <2>1, <2>4, <2>5
  <1>5. QED
    BY <1>1, <1>4 DEF Rests

\* Requests of the client and replays.
LEMMA RequestRests ==
  ASSUME NEW L, IInv, RoomInv(L),
         \/ \E id \in Ids, sp \in Spellings, m \in Methods : Ask(id, sp, m)
         \/ Replay
  PROVE  Rests(L)
  <1>1. queue \in SUBSET Request /\ IsFiniteSet(queue)
    BY DEF IInv, TypeOK
  <1>2. ASSUME NEW id, NEW sp, NEW m, Ask(id, sp, m)
        PROVE  Rests(L)
    <2>1. /\ Dispatch(id, sp, m, queue, [owed EXCEPT ![id] = @ + 1])
          /\ UNCHANGED <<worker, jobs>> /\ Live
      BY <1>2 DEF Ask, Receives, Live
    <2>2. QED
      BY <1>1, <2>1, DispatchRests
  <1>3. CASE Replay
    <2>1. PICK r \in queue :
              Dispatch(r.id, r.spelling, r.method, Reindexed(queue \ {r}), owed)
      BY <1>3 DEF Replay
    <2>2. UNCHANGED <<worker, jobs>> /\ Live
      BY <1>3, <2>1 DEF Replay, Live, IInv, TypeOK, AfterShutdown
    <2> DEFINE q == Reindexed(queue \ {r})
    <2>3. q \in SUBSET Request /\ IsFiniteSet(q)
          /\ \A x \in q : \E y \in queue : x.ready = y.ready /\ y.slot = x.slot
      BY <1>1, RemovedWait
    <2>4. Dispatch(r.id, r.spelling, r.method, q, owed)
      BY <2>1
    <2> HIDE DEF q
    <2>5. QED
      BY <2>2, <2>3, <2>4, DispatchRests
  <1>4. QED
    BY <1>2, <1>3

\* The worker's document is on its way, no longer in the queue of analyses.
LEMMA StartStep ==
  ASSUME NEW L, IInv, RoomInv(L), NEW s \in Slots, StartWorker(s)
  PROVE  RoomInv(L)'
  <1>1. /\ docs' = [docs EXCEPT ![s].queued = FALSE] /\ worker' = WorkerFor(s)
        /\ docs \in [Slots -> Document] /\ UNCHANGED <<queue, jobs>>
        /\ worker = None /\ Live
    BY DEF StartWorker, MayStart, IInv, TypeOK, Live
  <1>2. \A r \in Slots : /\ docs'[r].open = docs[r].open
                         /\ docs'[r].job = docs[r].job
                         /\ docs'[r].state = docs[r].state
                         /\ docs'[r].capacity = docs[r].capacity
                         /\ r # s => docs'[r].queued = docs[r].queued
    BY <1>1 DEF Document
  <1>3. worker' # None /\ worker'.slot = s
    <2>1. docs[s].open
      BY DEF StartWorker, IsNext, Waiting
    <2>2. WorkerFor(s) \in Worker
      BY <1>1, <2>1, OpenIsDescribed DEF WorkerFor, Worker, IInv, Document
    <2>3. QED
      BY <1>1, <2>2, NoneAssumption DEF WorkerFor
  <1>4. \A r \in Slots : Scheduled(r) => Scheduled(r)'
    BY <1>1, <1>2, <1>3 DEF Scheduled
  <1>5. \A x \in queue : x.slot \in Slots
    BY DEF IInv, TypeOK, Request
  <1>6. QED
    BY <1>1, <1>2, <1>4, <1>5 DEF RoomInv, Within, PendingIsScheduled, NoOrphanedWaiter

\* Opens and edits are acceptances.
LEMMA UpdateAccepts ==
  ASSUME NEW L, Ample(L), IInv, RoomInv(L),
         NEW sp \in Spellings, NEW v \in Versions, NEW t \in Texts,
         DidOpen(sp, v, t) \/ DidChange(sp, v, t)
  PROVE  \E s \in Slots : Accepts(L, s, sp, v, t)
  <1>1. PICK s \in Slots, g \in Int :
            Accept(s, g, sp, v, t) /\ IsSlotFor(s, Canonical[sp])
    BY DEF DidOpen, DidChange, IsSlotFor, Has, IInv, TypeOK, Document
  <1>2. Receives
    BY DEF DidOpen, DidChange
  <1>3. Accepts(L, s, sp, v, t)
    BY <1>1, <1>2, AcceptanceAccepts
  <1>4. QED
    BY <1>3

\* Every step is of one of these kinds.
LEMMA StepKinds ==
  ASSUME NEW L, Ample(L), IInv, RoomInv(L), [Next]_vars
  PROVE  \/ Rests(L)
         \/ \E s \in Slots : StartWorker(s)
         \/ \E s \in Slots, outcome \in {"Ready", "Failed"} : Settles(L, s, outcome)
         \/ \E s \in Slots, sp \in Spellings, v \in Versions, t \in Texts :
                Accepts(L, s, sp, v, t)
         \/ \E s \in Slots, sp \in Spellings : Closes(L, s, sp)
  <1>1. CASE StartTurn
    BY <1>1, StartFailsSettles, LoopRests DEF StartTurn
  <1>2. CASE ClientMessage
    BY <1>2, UpdateAccepts, ClosureCloses, RequestRests, CancelRests, LoopRests
       DEF ClientMessage
  <1>3. CASE NoFrame
    BY <1>3, RequestRests, LoopRests DEF NoFrame
  <1>4. CASE WorkerOutcome
    BY <1>4, CommitSettles, FailureSettles DEF WorkerOutcome
  <1>5. CASE Wake \/ Terminate \/ UNCHANGED vars
    BY <1>5, LoopRests
  <1>6. QED
    BY <1>1, <1>2, <1>3, <1>4, <1>5 DEF Next, Stopped

\* The invariant is kept by each.
LEMMA NextRoom ==
  ASSUME NEW L, Ample(L), IInv, RoomInv(L), [Next]_vars
  PROVE  RoomInv(L)'
  <1>1. Rests(L) => RoomInv(L)'
    BY CalmStep DEF Rests
  <1>2. QED
    BY <1>1, StepKinds, StartStep, SettleStep, AcceptedStep, ClosedStep

\* And holds before anything is open.
LEMMA InitRoom ==
  ASSUME NEW L, Ample(L), Init
  PROVE  RoomInv(L)
  BY DEF Init, FreeDocument, RoomInv, Within, Ample, PendingIsScheduled, NoOrphanedWaiter

\* An answer at once is about a document with a verdict.
LEMMA DispatchServes ==
  ASSUME NEW L, IInv, RoomInv(L), Live, NEW id, NEW sp \in Spellings, NEW m, NEW q, NEW o,
         Dispatch(id, sp, m, q, o)
  PROVE  \/ served' = None
         \/ /\ served' = Canonical[sp]
            /\ \A s \in Slots : Has(s, Canonical[sp]) => docs[s].state # "Pending"
  <1>1. \A s \in Slots : docs[s].open /\ docs[s].state = "Pending" => Scheduled(s)
    BY DEF RoomInv, PendingIsScheduled
  <1>2. QED
    BY <1>1 DEF Dispatch, Defers, Has

\* So no provider answers early.
LEMMA NextServed ==
  ASSUME NEW L, IInv, RoomInv(L), [Next]_vars, IInv', ServedAfterVerdict
  PROVE  ServedAfterVerdict'
  <1>1. ASSUME served' = None
        PROVE  ServedAfterVerdict'
    <2>1. \A s \in Slots : docs'[s].open => docs'[s].uri \in Uris
      BY SchedulerAssumption DEF IInv, OneSlotPerUri
    <2>2. QED
      BY <1>1, <2>1, SchedulerAssumption DEF ServedAfterVerdict
  <1>2. ASSUME NEW id, NEW sp \in Spellings, NEW m, NEW q, NEW o,
               Dispatch(id, sp, m, q, o), Live
        PROVE  ServedAfterVerdict'
    <2>1. CASE served' = None
      BY <1>1, <2>1
    <2>2. CASE /\ served' = Canonical[sp]
               /\ \A s \in Slots : Has(s, Canonical[sp]) => docs[s].state # "Pending"
      <3>1. Calm(L, docs, docs')
        BY <1>2, DispatchIsCalm
      <3>2. QED
        BY <2>2, <3>1 DEF Calm, CalmDocument, SameIdentity, ServedAfterVerdict, Has
    <2>3. QED
      BY <1>2, <2>1, <2>2, DispatchServes
  <1>3. ASSUME NEW id, NEW sp \in Spellings, NEW m, Ask(id, sp, m)
        PROVE  ServedAfterVerdict'
    BY <1>2, <1>3 DEF Ask, Receives, Live
  <1>4. CASE Replay
    <2>1. PICK r \in queue :
              Dispatch(r.id, r.spelling, r.method, Reindexed(queue \ {r}), owed)
      BY <1>4 DEF Replay
    <2>2. Live /\ r.spelling \in Spellings
      BY <1>4, <2>1 DEF Replay, Live, IInv, TypeOK, AfterShutdown, Request
    <2>3. QED
      BY <1>2, <2>1, <2>2
  <1>5. CASE UNCHANGED vars
    BY <1>5 DEF vars, ServedAfterVerdict
  <1>6. CASE StartTurn \/ BlockOnInput \/ Wake \/ WorkerOutcome \/ Terminate
    BY <1>1, <1>6
       DEF StartTurn, StartWorker, StartFails, NothingToStart, BlockOnInput, Wake,
           WorkerOutcome, WorkerDone, WorkerFails, PacketRejected, WorkerEnds, Terminate
  <1>7. CASE ClientMessage
    <2>1. served' = None
          \/ \E id \in Ids, sp \in Spellings, m \in Methods : Ask(id, sp, m)
      BY <1>7 DEF ClientMessage, DidOpen, DidChange, Accept, DidClose, Cancel, Shutdown,
                  Exit, IgnoredUpdate, IgnoredMessage
    <2>2. QED
      BY <1>1, <1>3, <2>1
  <1>8. QED
    BY <1>4, <1>5, <1>6, <1>7 DEF Next, NoFrame, Stopped

\* A failed document stays so in every step that does not replace its snapshot.
LEMMA NextFailed ==
  ASSUME NEW L, Ample(L), IInv, RoomInv(L), [Next]_vars, NEW s \in Slots,
         docs[s].state = "Failed", docs'[s].job = docs[s].job
  PROVE  docs'[s].state = "Failed"
  <1>1. docs[s].open /\ docs[s].job \in 1 .. jobs /\ jobs \in Nat
        /\ docs \in [Slots -> Document]
    BY DEF RoomInv, IInv, TypeOK
  <1>2. CASE Rests(L)
    BY <1>2 DEF Rests, Calm, CalmDocument
  <1>3. ASSUME NEW r \in Slots, StartWorker(r)
        PROVE  docs'[s].state = "Failed"
    BY <1>1, <1>3 DEF StartWorker, Document
  <1>4. ASSUME NEW r \in Slots, NEW outcome, Settles(L, r, outcome)
        PROVE  docs'[s].state = "Failed"
    BY <1>4 DEF Settles, CalmDocument
  <1>5. ASSUME NEW r \in Slots, NEW sp, NEW v, NEW t, Accepts(L, r, sp, v, t)
        PROVE  docs'[s].state = "Failed"
    BY <1>1, <1>5 DEF Accepts, CalmDocument
  <1>6. ASSUME NEW r \in Slots, NEW sp, Closes(L, r, sp)
        PROVE  docs'[s].state = "Failed"
    BY <1>1, <1>6 DEF Closes, CalmDocument
  <1>7. QED
    BY <1>2, <1>3, <1>4, <1>5, <1>6, StepKinds

\* With room for all, the invariant holds in every reachable state.
LEMMA RoomHolds ==
  ASSUME NEW L, Ample(L)
  PROVE  Spec => []RoomInv(L)
  <1>1. Init => RoomInv(L)
    BY InitRoom
  <1>2. IInv /\ RoomInv(L) /\ [Next]_vars => RoomInv(L)'
    BY NextRoom
  <1>3. QED
    BY <1>1, <1>2, InvariantHolds, PTL DEF Spec

\* As long as there is room for all, no request waits for an analysis that will
\* never come: whatever edits, closes, failures and restarts of the worker there
\* are, the analysis that releases it is queued or running.
THEOREM NobodyWaitsInVain ==
  ASSUME NEW L, Ample(L)
  PROVE  Spec => []NoOrphanedWaiter
  <1>1. RoomInv(L) => NoOrphanedWaiter
    BY DEF RoomInv
  <1>2. QED
    BY <1>1, RoomHolds, PTL

\* Nor is an accepted snapshot forgotten.
THEOREM EveryPendingIsScheduled ==
  ASSUME NEW L, Ample(L)
  PROVE  Spec => []PendingIsScheduled
  <1>1. RoomInv(L) => PendingIsScheduled
    BY DEF RoomInv
  <1>2. QED
    BY <1>1, RoomHolds, PTL

\* No provider answers about an open document before the verdict on it.
THEOREM NoEarlyAnswer ==
  ASSUME NEW L, Ample(L)
  PROVE  Spec => []ServedAfterVerdict
  <1>1. Init => ServedAfterVerdict
    BY DEF Init, FreeDocument, ServedAfterVerdict
  <1>2. IInv /\ RoomInv(L) /\ [Next]_vars /\ IInv' /\ ServedAfterVerdict
            => ServedAfterVerdict'
    BY NextServed
  <1>3. QED
    BY <1>1, <1>2, InvariantHolds, RoomHolds, PTL DEF Spec

\* A failure is reported until the document is edited, reopened or closed.
THEOREM FailuresAreKept ==
  ASSUME NEW L, Ample(L)
  PROVE  Spec => FailedUntilEdit
  <1>1. IInv /\ RoomInv(L) /\ [Next]_vars =>
          [\A s \in Slots :
            docs[s].state = "Failed" /\ docs'[s].job = docs[s].job
                => docs'[s].state = "Failed"]_vars
    BY NextFailed
  <1>2. QED
    BY <1>1, InvariantHolds, RoomHolds, PTL DEF Spec, FailedUntilEdit

-----------------------------------------------------------------------------
(***************************************************************************)
(* The refinement: every step is a step of SnapshotService or a stutter.   *)
(***************************************************************************)

\* Nothing the service promises about files changes.
SameFiles == \A u \in Uris : /\ AcceptedOf(docs', u) = AcceptedOf(docs, u)
                             /\ VerdictOf(docs', u) = VerdictOf(docs, u)

SameWaits == \A id \in Ids : WaitsFor(queue', id) = WaitsFor(queue, id)

\* The file in a slot is seen as the slot describes it.
LEMMA ViewOpen ==
  ASSUME NEW ds, NEW s \in Slots, NEW u, ds[s].open, ds[s].uri = u,
         \A r \in Slots : ds[r].open /\ ds[r].uri = u => r = s
  PROVE  /\ AcceptedOf(ds, u) =
              [spelling |-> ds[s].spelling, version |-> ds[s].version, text |-> ds[s].text]
         /\ VerdictOf(ds, u) = ds[s].state
  <1>1. SlotsOf(ds, u) = {s}
    BY DEF SlotsOf
  <1>2. (CHOOSE r \in SlotsOf(ds, u) : TRUE) = s
    BY <1>1
  <1>3. QED
    BY <1>1, <1>2 DEF AcceptedOf, VerdictOf

\* A file without a slot is not there.
LEMMA ViewClosed ==
  ASSUME NEW ds, NEW u, \A r \in Slots : ~ (ds[r].open /\ ds[r].uri = u)
  PROVE  AcceptedOf(ds, u) = None /\ VerdictOf(ds, u) = "none"
  <1>1. SlotsOf(ds, u) = {}
    BY DEF SlotsOf
  <1>2. QED
    BY <1>1 DEF AcceptedOf, VerdictOf

\* Two tables that agree on the slots of a file agree on the file.
LEMMA ViewSame ==
  ASSUME NEW ds, NEW es, NEW u,
         \A s \in Slots : es[s].open /\ es[s].uri = u <=> ds[s].open /\ ds[s].uri = u,
         \A s \in Slots : ds[s].open /\ ds[s].uri = u =>
            /\ es[s].spelling = ds[s].spelling
            /\ es[s].version = ds[s].version
            /\ es[s].text = ds[s].text
            /\ es[s].state = ds[s].state
  PROVE  AcceptedOf(es, u) = AcceptedOf(ds, u) /\ VerdictOf(es, u) = VerdictOf(ds, u)
  <1>1. SlotsOf(es, u) = SlotsOf(ds, u)
    BY DEF SlotsOf
  <1>2. CASE SlotsOf(ds, u) = {}
    BY <1>1, <1>2 DEF AcceptedOf, VerdictOf
  <1>3. CASE SlotsOf(ds, u) # {}
    <2> DEFINE s == CHOOSE r \in SlotsOf(ds, u) : TRUE
    <2>1. s \in SlotsOf(ds, u)
      BY <1>3
    <2>2. s = CHOOSE r \in SlotsOf(es, u) : TRUE
      BY <1>1
    <2> HIDE DEF s
    <2>3. s \in Slots /\ ds[s].open /\ ds[s].uri = u
      BY <2>1 DEF SlotsOf
    <2>4. /\ AcceptedOf(ds, u) =
               [spelling |-> ds[s].spelling, version |-> ds[s].version, text |-> ds[s].text]
          /\ VerdictOf(ds, u) = ds[s].state
      BY <1>3 DEF AcceptedOf, VerdictOf, s
    <2>5. /\ AcceptedOf(es, u) =
               [spelling |-> es[s].spelling, version |-> es[s].version, text |-> es[s].text]
          /\ VerdictOf(es, u) = es[s].state
      BY <1>1, <1>3, <2>2 DEF AcceptedOf, VerdictOf
    <2>6. QED
      BY <2>3, <2>4, <2>5
  <1>4. QED
    BY <1>2, <1>3

\* A request waits for the file it names.
LEMMA WaitsOf ==
  ASSUME NEW q, OncePerId(q), NEW r \in q
  PROVE  WaitsFor(q, r.id) = Canonical[r.spelling]
  <1>1. (CHOOSE x \in q : x.id = r.id) = r
    BY DEF OncePerId
  <1>2. QED
    BY <1>1 DEF WaitsFor

\* Queues with the same requests, up to their binding, wait alike.
LEMMA WaitsAlike ==
  ASSUME NEW p, NEW q, NEW id, OncePerId(p), OncePerId(q),
         \A x \in p : x.id = id => \E y \in q : y.id = id /\ y.spelling = x.spelling,
         \A y \in q : y.id = id => \E x \in p : x.id = id
  PROVE  WaitsFor(p, id) = WaitsFor(q, id)
  <1>1. CASE \E x \in p : x.id = id
    <2>1. PICK x \in p : x.id = id
      BY <1>1
    <2>2. PICK y \in q : y.id = id /\ y.spelling = x.spelling
      BY <2>1
    <2>3. WaitsFor(p, id) = Canonical[x.spelling] /\ WaitsFor(q, id) = Canonical[y.spelling]
      BY <2>1, <2>2, WaitsOf
    <2>4. QED
      BY <2>2, <2>3
  <1>2. CASE ~ \E x \in p : x.id = id
    BY <1>2 DEF WaitsFor
  <1>3. QED
    BY <1>1, <1>2

\* The service does not see a step that changes nothing it speaks of.
LEMMA RestMaps ==
  ASSUME SameFiles, SameWaits, UNCHANGED <<shown, lifecycle>>, pc # "stopped",
         pc' # "stopped", served' = None
  PROVE  Service!Rest
  BY DEF Service!Rest, SameFiles, SameWaits

\* A calm step changes no file.
LEMMA CalmFiles ==
  ASSUME NEW L, Calm(L, docs, docs')
  PROVE  SameFiles
  BY ViewSame DEF Calm, CalmDocument, SameIdentity, SameFiles

\* A step on one slot changes no file but that of the slot.
LEMMA OtherFiles ==
  ASSUME NEW L, OneSlotPerUri, NEW s \in Slots, NEW u, NEW w, w # u,
         \A r \in Slots : r # s => CalmDocument(L, docs[r], docs'[r]),
         docs[s].open => docs[s].uri = u, docs'[s].open => docs'[s].uri = u
  PROVE  AcceptedOf(docs', w) = AcceptedOf(docs, w) /\ VerdictOf(docs', w) = VerdictOf(docs, w)
  <1>1. \A r \in Slots : docs'[r].open /\ docs'[r].uri = w <=> docs[r].open /\ docs[r].uri = w
    BY DEF CalmDocument, SameIdentity
  <1>2. \A r \in Slots : docs[r].open /\ docs[r].uri = w =>
            /\ docs'[r].spelling = docs[r].spelling
            /\ docs'[r].version = docs[r].version
            /\ docs'[r].text = docs[r].text
            /\ docs'[r].state = docs[r].state
    BY DEF CalmDocument, SameIdentity
  <1>3. QED
    BY <1>1, <1>2, ViewSame

\* Binding or releasing requests changes nothing a request waits for.
LEMMA RewritingWaits ==
  ASSUME TypeOK, QueueInv, QueueInv',
         \/ UNCHANGED queue
         \/ \E s, j, g, v : queue' = MarkedReady(queue, s, j, g, v)
         \/ \E s, d : queue' = Rebound(queue, s, d)
  PROVE  SameWaits
  <1>1. queue \in SUBSET Request
    BY DEF TypeOK
  <1> DEFINE Alike == /\ \A x \in queue' : \E y \in queue : y.id = x.id /\ y.spelling = x.spelling
                      /\ \A y \in queue : \E x \in queue' : x.id = y.id
  <1>2. ASSUME NEW f, queue' = {f[r] : r \in queue},
               \A r \in queue : f[r].id = r.id /\ f[r].spelling = r.spelling
        PROVE  Alike
    BY <1>2
  <1>3. ASSUME NEW s, NEW j, NEW g, NEW v, queue' = MarkedReady(queue, s, j, g, v)
        PROVE  Alike
    <2> DEFINE f == [r \in queue |-> IF IsFor(r, s, j, g, v)
                                     THEN [r EXCEPT !.ready = TRUE] ELSE r]
    <2>1. queue' = {f[r] : r \in queue}
      BY <1>3 DEF MarkedReady
    <2>2. \A r \in queue : f[r].id = r.id /\ f[r].spelling = r.spelling
      BY <1>1 DEF Request
    <2> HIDE DEF f
    <2>3. QED
      BY <1>2, <2>1, <2>2
  <1>4. ASSUME NEW s, NEW d, queue' = Rebound(queue, s, d)
        PROVE  Alike
    <2> DEFINE f == [r \in queue |->
                        IF r.slot = s
                        THEN [r EXCEPT !.job = d.job, !.generation = d.generation,
                                       !.version = d.version, !.ready = FALSE]
                        ELSE r]
    <2>1. queue' = {f[r] : r \in queue}
      BY <1>4 DEF Rebound
    <2>2. \A r \in queue : f[r].id = r.id /\ f[r].spelling = r.spelling
      BY <1>1 DEF Request
    <2> HIDE DEF f
    <2>3. QED
      BY <1>2, <2>1, <2>2
  <1>5. ASSUME UNCHANGED queue
        PROVE  Alike
    BY <1>5
  <1>6. Alike
    BY <1>3, <1>4, <1>5
  <1>7. QED
    BY <1>6, WaitsAlike DEF SameWaits, QueueInv

\* Nobody waits under an id that is not in the queue.
LEMMA WaitsNot ==
  ASSUME NEW q, NEW id, \A r \in q : r.id # id
  PROVE  WaitsFor(q, id) = None
  BY DEF WaitsFor

\* Where requests leave, the others wait for what they waited for.
LEMMA RemovalWaits ==
  ASSUME NEW q \in SUBSET Request, IsFiniteSet(q), OncePerId(q), NEW R \in SUBSET q, NEW id
  PROVE  WaitsFor(Reindexed(q \ R), id) =
            IF \E r \in R : r.id = id THEN None ELSE WaitsFor(q, id)
  <1> DEFINE left == q \ R
             p == Reindexed(left)
  <1>1. left \in SUBSET Request /\ IsFiniteSet(left) /\ OncePerId(left)
    BY FS_Subset, left \in SUBSET q DEF OncePerId
  <1> HIDE DEF left
  <1>2. OncePerId(p) /\ \A i : Waits(p, i) <=> Waits(left, i)
    BY <1>1, ReindexedRewrites DEF Rewrites
  <1>3. \A x \in p : \E y \in left : y.id = x.id /\ y.spelling = x.spelling
    BY <1>1, ReindexedType DEF SameBinding
  <1> HIDE DEF p
  <1>4. CASE \E r \in R : r.id = id
    <2>1. ~ Waits(left, id)
      BY <1>4 DEF left, Waits, OncePerId
    <2>2. WaitsFor(p, id) = None
      BY <1>2, <2>1, WaitsNot DEF Waits
    <2>3. QED
      BY <1>4, <2>2 DEF p, left
  <1>5. CASE ~ \E r \in R : r.id = id
    <2>1. \A y \in q : y.id = id => y \in left
      BY <1>5 DEF left
    <2>2. \A x \in p : x.id = id => \E y \in q : y.id = id /\ y.spelling = x.spelling
      BY <1>3 DEF left
    <2>3. \A y \in q : y.id = id => \E x \in p : x.id = id
      BY <1>2, <2>1 DEF Waits
    <2>4. WaitsFor(p, id) = WaitsFor(q, id)
      BY <1>2, <2>2, <2>3, WaitsAlike
    <2>5. QED
      BY <1>5, <2>4 DEF p, left
  <1>6. QED
    BY <1>4, <1>5

\* A verdict.
LEMMA SettleMaps ==
  ASSUME NEW L, IInv, QueueInv, QueueInv', NEW s \in Slots,
         NEW outcome \in {"Ready", "Failed"}, Settles(L, s, outcome)
  PROVE  \E u \in Uris : Service!Settle(u, outcome)
  <1> DEFINE u == docs[s].uri
  <1>1. /\ docs[s].open /\ docs[s].state = "Pending" /\ u \in Uris
        /\ docs'[s].open /\ docs'[s].uri = u
        /\ docs'[s].spelling = docs[s].spelling
        /\ docs'[s].version = docs[s].version
        /\ docs'[s].text = docs[s].text
        /\ docs'[s].state = outcome
        /\ \A r \in Slots : docs'[r].open = docs[r].open /\ docs'[r].uri = docs[r].uri
    BY SchedulerAssumption
       DEF Settles, SameIdentity, CalmDocument, IInv, OneSlotPerUri
  <1>2. \A r \in Slots : docs[r].open /\ docs[r].uri = u => r = s
    BY <1>1 DEF IInv, OneSlotPerUri
  <1>3. /\ AcceptedOf(docs, u) = [spelling |-> docs[s].spelling,
                                  version |-> docs[s].version, text |-> docs[s].text]
        /\ VerdictOf(docs, u) = "Pending"
    BY <1>1, <1>2, ViewOpen
  <1>4. AcceptedOf(docs', u) = AcceptedOf(docs, u) /\ VerdictOf(docs', u) = outcome
    <2>1. \A r \in Slots : docs'[r].open /\ docs'[r].uri = u => r = s
      BY <1>1, <1>2
    <2>2. /\ AcceptedOf(docs', u) = [spelling |-> docs'[s].spelling,
                                     version |-> docs'[s].version, text |-> docs'[s].text]
          /\ VerdictOf(docs', u) = docs'[s].state
      BY <1>1, <2>1, ViewOpen
    <2>3. QED
      BY <1>1, <1>3, <2>2
  <1> HIDE DEF u
  <1>5. \A w \in Uris : w # u => AcceptedOf(docs', w) = AcceptedOf(docs, w)
                                 /\ VerdictOf(docs', w) = VerdictOf(docs, w)
    <2>1. /\ \A r \in Slots : r # s => CalmDocument(L, docs[r], docs'[r])
          /\ OneSlotPerUri /\ docs[s].uri = u /\ docs'[s].uri = u
      BY <1>1 DEF Settles, IInv, u
    <2>2. QED
      BY <2>1, OtherFiles
  <1>6. SameWaits
    BY RewritingWaits DEF Settles, IInv
  <1>7. /\ shown' = [shown EXCEPT ![docs[s].spelling] =
                       [version |-> docs[s].version,
                        text |-> IF outcome = "Ready" THEN docs[s].text ELSE None]]
        /\ served' = None /\ UNCHANGED lifecycle
        /\ pc # "stopped" /\ pc' # "stopped" /\ lifecycle = "Running"
    BY DEF Settles, Live
  <1>8. Service!Settle(u, outcome)
    <2>1. [w \in Uris |-> VerdictOf(docs', w)]
            = [[w \in Uris |-> VerdictOf(docs, w)] EXCEPT ![u] = outcome]
      BY <1>1, <1>4, <1>5
    <2>2. [w \in Uris |-> AcceptedOf(docs', w)] = [w \in Uris |-> AcceptedOf(docs, w)]
      BY <1>4, <1>5
    <2>3. [id \in Ids |-> WaitsFor(queue', id)] = [id \in Ids |-> WaitsFor(queue, id)]
      BY <1>6 DEF SameWaits
    <2>4. shown' = [shown EXCEPT ![[w \in Uris |-> AcceptedOf(docs, w)][u].spelling] =
                      [version |-> [w \in Uris |-> AcceptedOf(docs, w)][u].version,
                       text |-> IF outcome = "Ready"
                                THEN [w \in Uris |-> AcceptedOf(docs, w)][u].text ELSE None]]
      <3> DEFINE a == [w \in Uris |-> AcceptedOf(docs, w)][u]
      <3>1. a = AcceptedOf(docs, u)
        BY <1>1
      <3> HIDE DEF a
      <3>2. /\ a.spelling = docs[s].spelling
            /\ a.version = docs[s].version
            /\ a.text = docs[s].text
        BY <1>3, <3>1
      <3>3. shown' = [shown EXCEPT ![a.spelling] =
                        [version |-> a.version,
                         text |-> IF outcome = "Ready" THEN a.text ELSE None]]
        BY <1>7, <3>2
      <3>4. QED
        BY <3>3 DEF a
    <2>5. [w \in Uris |-> VerdictOf(docs, w)][u] = "Pending"
      BY <1>1, <1>3
    <2>6. QED
      BY <1>7, <2>1, <2>2, <2>3, <2>4, <2>5 DEF Service!Settle
  <1>9. QED
    BY <1>1, <1>8

\* An acceptance.
LEMMA AcceptMaps ==
  ASSUME NEW L, IInv, IInv', QueueInv, QueueInv', NEW s \in Slots,
         NEW sp \in Spellings, NEW v \in Versions, NEW t \in Texts,
         Accepts(L, s, sp, v, t)
  PROVE  Service!Take(sp, v, t)
  <1> DEFINE u == Canonical[sp]
  <1>1. /\ docs'[s].open /\ docs'[s].uri = u /\ docs'[s].spelling = sp
        /\ docs'[s].version = v /\ docs'[s].text = t /\ docs'[s].state = "Pending"
        /\ u \in Uris
    BY SchedulerAssumption DEF Accepts
  <1>2. \A r \in Slots : docs'[r].open /\ docs'[r].uri = u => r = s
    BY <1>1 DEF IInv, OneSlotPerUri
  <1>3. /\ AcceptedOf(docs', u) = [spelling |-> sp, version |-> v, text |-> t]
        /\ VerdictOf(docs', u) = "Pending"
    BY <1>1, <1>2, ViewOpen
  <1>4. /\ docs[s].open => docs[s].uri = u
        /\ \A r \in Slots : r # s => CalmDocument(L, docs[r], docs'[r])
    BY DEF Accepts
  <1> HIDE DEF u
  <1>5. \A w \in Uris : w # u => AcceptedOf(docs', w) = AcceptedOf(docs, w)
                                 /\ VerdictOf(docs', w) = VerdictOf(docs, w)
    BY <1>1, <1>4, OtherFiles DEF IInv
  <1>6. SameWaits
    BY RewritingWaits DEF Accepts, IInv
  <1>7. /\ served' = None /\ UNCHANGED <<lifecycle, shown>>
        /\ pc # "stopped" /\ pc' # "stopped" /\ lifecycle = "Running"
    BY DEF Accepts, Live
  <1>8. [w \in Uris |-> VerdictOf(docs', w)]
          = [[w \in Uris |-> VerdictOf(docs, w)] EXCEPT ![u] = "Pending"]
    BY <1>1, <1>3, <1>5
  <1>9. [w \in Uris |-> AcceptedOf(docs', w)]
          = [[w \in Uris |-> AcceptedOf(docs, w)]
                EXCEPT ![u] = [spelling |-> sp, version |-> v, text |-> t]]
    BY <1>1, <1>3, <1>5
  <1>10. [id \in Ids |-> WaitsFor(queue', id)] = [id \in Ids |-> WaitsFor(queue, id)]
    BY <1>6 DEF SameWaits
  <1>11. QED
    BY <1>7, <1>8, <1>9, <1>10 DEF Service!Take, u

\* A close: those that wait for the file are the requests of its slot.
LEMMA CloseMaps ==
  ASSUME NEW L, IInv, QueueInv, NEW s \in Slots, NEW sp \in Spellings, Closes(L, s, sp)
  PROVE  Service!Close(sp)
  <1> DEFINE u == Canonical[sp]
             R == {r \in queue : r.slot = s}
  <1>1. /\ docs[s].open /\ docs[s].uri = u /\ u \in Uris /\ u # None
        /\ ~ docs'[s].open
        /\ \A r \in Slots : r # s => docs'[r].open = docs[r].open /\ docs'[r].uri = docs[r].uri
    BY SchedulerAssumption DEF Closes, Has, CalmDocument, SameIdentity
  <1>2. \A r \in Slots : docs[r].open /\ docs[r].uri = u => r = s
    BY <1>1 DEF IInv, OneSlotPerUri
  <1>3. AcceptedOf(docs, u) = [spelling |-> docs[s].spelling,
                               version |-> docs[s].version, text |-> docs[s].text]
    BY <1>1, <1>2, ViewOpen
  <1>4. AcceptedOf(docs', u) = None /\ VerdictOf(docs', u) = "none"
    BY <1>1, <1>2, ViewClosed
  <1>5. /\ queue' = Reindexed(queue \ R)
        /\ shown' = [shown EXCEPT ![sp] = EmptyList(docs[s].version)]
        /\ \A r \in Slots : r # s => CalmDocument(L, docs[r], docs'[r])
        /\ served' = None /\ UNCHANGED lifecycle
        /\ pc # "stopped" /\ pc' # "stopped" /\ lifecycle = "Running"
    BY DEF Closes, Live
  <1>6. \A r \in queue : r \in R <=> Canonical[r.spelling] = u
    <2>1. \A r \in queue : Has(r.slot, Canonical[r.spelling]) /\ r.slot \in Slots
      BY DEF IInv, WaitersAreBound, TypeOK, Request
    <2>2. QED
      BY <1>1, <1>2, <2>1 DEF Has
  <1>7. R \in SUBSET queue
    OBVIOUS
  <1> HIDE DEF u, R
  <1>8. \A w \in Uris : w # u => AcceptedOf(docs', w) = AcceptedOf(docs, w)
                                 /\ VerdictOf(docs', w) = VerdictOf(docs, w)
    BY <1>1, <1>5, OtherFiles DEF IInv
  <1>9. \A id \in Ids : WaitsFor(queue', id) =
                          IF WaitsFor(queue, id) = u THEN None ELSE WaitsFor(queue, id)
    <2> SUFFICES ASSUME NEW id \in Ids
                 PROVE  WaitsFor(queue', id) =
                          IF WaitsFor(queue, id) = u THEN None ELSE WaitsFor(queue, id)
      OBVIOUS
    <2>1. WaitsFor(queue', id) =
            IF \E r \in R : r.id = id THEN None ELSE WaitsFor(queue, id)
      BY <1>5, <1>7, RemovalWaits DEF IInv, TypeOK, QueueInv
    <2>2. CASE \E r \in queue : r.id = id
      <3>1. PICK r \in queue : r.id = id
        BY <2>2
      <3>2. WaitsFor(queue, id) = Canonical[r.spelling]
        BY <3>1, WaitsOf DEF QueueInv
      <3>3. (\E x \in R : x.id = id) <=> r \in R
        BY <1>7, <3>1 DEF QueueInv, OncePerId
      <3>4. QED
        BY <1>6, <2>1, <3>1, <3>2, <3>3
    <2>3. CASE \A r \in queue : r.id # id
      <3>1. WaitsFor(queue, id) = None
        BY <2>3, WaitsNot
      <3>2. QED
        BY <1>1, <1>7, <2>1, <2>3, <3>1
    <2>4. QED
      BY <2>2, <2>3
  <1>10. [w \in Uris |-> VerdictOf(docs', w)]
           = [[w \in Uris |-> VerdictOf(docs, w)] EXCEPT ![u] = "none"]
    BY <1>1, <1>4, <1>8
  <1>11. [w \in Uris |-> AcceptedOf(docs', w)]
           = [[w \in Uris |-> AcceptedOf(docs, w)] EXCEPT ![u] = None]
    BY <1>1, <1>4, <1>8
  <1>12. [id \in Ids |-> WaitsFor(queue', id)]
           = [id \in Ids |-> IF [i \in Ids |-> WaitsFor(queue, i)][id] = u THEN None
                             ELSE [i \in Ids |-> WaitsFor(queue, i)][id]]
    BY <1>9
  <1>13. [w \in Uris |-> AcceptedOf(docs, w)][u] = AcceptedOf(docs, u)
    BY <1>1
  <1>14. /\ [w \in Uris |-> AcceptedOf(docs, w)][u] # None
         /\ [w \in Uris |-> AcceptedOf(docs, w)][u].version = docs[s].version
    <2>1. AcceptedOf(docs, u) \in Report
      BY <1>1, <1>3, OpenIsDescribed DEF IInv, Report
    <2>2. AcceptedOf(docs, u).version = docs[s].version
      BY <1>3
    <2>3. QED
      BY <1>13, <2>1, <2>2, NoneAssumption
  <1>15. QED
    BY <1>5, <1>10, <1>11, <1>12, <1>14 DEF Service!Close, EmptyList, u

\* The end of the session.
LEMMA EndMaps ==
  ASSUME IInv, Shutdown \/ Exit \/ Terminate
  PROVE  Service!End
  <1>1. /\ UNCHANGED <<docs, shown>> /\ served' = None /\ pc # "stopped"
        /\ queue' = {} \/ (queue' = queue /\ pc' = "stopped")
        /\ \/ pc' = "stopped"
           \/ pc' # "stopped" /\ lifecycle' = "ShutdownRequested"
    BY DEF Shutdown, Exit, Terminate, Receives
  <1>2. \A id \in Ids : queue' = {} => WaitsFor(queue', id) = None
    BY WaitsNot
  <1>3. \/ [id \in Ids |-> WaitsFor(queue', id)] = [id \in Ids |-> None]
        \/ /\ [id \in Ids |-> WaitsFor(queue', id)] = [id \in Ids |-> WaitsFor(queue, id)]
           /\ pc' = "stopped"
    BY <1>1, <1>2
  <1>4. QED
    BY <1>1, <1>3 DEF Service!End

\* One request leaves the queue: it alone stops waiting.
LEMMA LeavingMaps ==
  ASSUME IInv, QueueInv, NEW r \in queue, queue' = Reindexed(queue \ {r})
  PROVE  /\ WaitsFor(queue, r.id) = Canonical[r.spelling]
         /\ r.id \in Ids /\ Canonical[r.spelling] \in Uris /\ Canonical[r.spelling] # None
         /\ [id \in Ids |-> WaitsFor(queue', id)]
              = [[id \in Ids |-> WaitsFor(queue, id)] EXCEPT ![r.id] = None]
  <1>1. r.id \in Ids /\ r.spelling \in Spellings
    BY DEF IInv, TypeOK, Request
  <1>2. Canonical[r.spelling] \in Uris /\ Canonical[r.spelling] # None
    BY <1>1, SchedulerAssumption
  <1>3. WaitsFor(queue, r.id) = Canonical[r.spelling]
    BY WaitsOf DEF QueueInv
  <1>4. \A id \in Ids : WaitsFor(queue', id) =
                          IF r.id = id THEN None ELSE WaitsFor(queue, id)
    <2>1. \A id : WaitsFor(Reindexed(queue \ {r}), id) =
                    IF \E x \in {r} : x.id = id THEN None ELSE WaitsFor(queue, id)
      BY {r} \in SUBSET queue, RemovalWaits DEF IInv, TypeOK, QueueInv
    <2>2. QED
      BY <2>1
  <1>5. QED
    BY <1>1, <1>2, <1>3, <1>4

\* A refusal.
LEMMA RefusalMaps ==
  ASSUME IInv, QueueInv, SameFiles, NEW r \in queue, queue' = Reindexed(queue \ {r}),
         Live, pc' # "stopped", UNCHANGED <<lifecycle, shown>>, served' = None
  PROVE  \E id \in Ids : Service!Refuse(id)
  <1>1. [id \in Ids |-> WaitsFor(queue, id)][r.id] # None /\ r.id \in Ids
    BY LeavingMaps
  <1>2. [id \in Ids |-> WaitsFor(queue', id)]
          = [[id \in Ids |-> WaitsFor(queue, id)] EXCEPT ![r.id] = None]
    BY LeavingMaps
  <1>3. Service!Refuse(r.id)
    BY <1>1, <1>2 DEF Service!Refuse, SameFiles, Live
  <1>4. QED
    BY <1>1, <1>3

\* A cancellation.
LEMMA CancelMaps ==
  ASSUME IInv, QueueInv, NEW i, Cancel(i)
  PROVE  \E id \in Ids : Service!Refuse(id)
  <1>1. PICK r \in queue : queue' = Reindexed(queue \ {r})
    BY DEF Cancel
  <1>2. /\ UNCHANGED <<docs, lifecycle, shown>> /\ Live /\ pc' # "stopped" /\ served' = None
    BY DEF Cancel, Receives, Live
  <1>3. SameFiles
    BY <1>2 DEF SameFiles
  <1>4. QED
    BY <1>1, <1>2, <1>3, RefusalMaps

\* A request that joins the queue waits for its file, which has no verdict.
LEMMA JoiningMaps ==
  ASSUME IInv, QueueInv, QueueInv', SameFiles, NEW id \in Ids, NEW sp \in Spellings, NEW m,
         NEW s \in Slots, Defers(sp, m, s), \A r \in queue : r.id # id,
         queue' = queue \cup {NewRequest(id, sp, m, s, queue)},
         Live, pc' # "stopped", UNCHANGED <<lifecycle, shown>>, served' = None
  PROVE  Service!Wait(id, Canonical[sp])
  <1> DEFINE new == NewRequest(id, sp, m, s, queue)
             u == Canonical[sp]
  <1>1. new.id = id /\ new.spelling = sp /\ queue' = queue \cup {new}
    BY DEF NewRequest
  <1> HIDE DEF new
  <1>2. WaitsFor(queue, id) = None
    BY WaitsNot
  <1>3. WaitsFor(queue', id) = u
    BY <1>1, WaitsOf DEF QueueInv
  <1>4. \A i \in Ids : i # id => WaitsFor(queue', i) = WaitsFor(queue, i)
    <2> SUFFICES ASSUME NEW i \in Ids, i # id
                 PROVE  WaitsFor(queue', i) = WaitsFor(queue, i)
      OBVIOUS
    <2>1. \A x \in queue' : x.id = i => x \in queue
      BY <1>1
    <2>2. \A y \in queue : y \in queue'
      BY <1>1
    <2>3. QED
      BY <2>1, <2>2, WaitsAlike DEF QueueInv
  <1>5. docs[s].open /\ docs[s].uri = u /\ docs[s].state = "Pending" /\ u \in Uris
    BY DEF Defers, Has, Uris
  <1>6. \A r \in Slots : docs[r].open /\ docs[r].uri = u => r = s
    BY <1>5 DEF IInv, OneSlotPerUri
  <1>7. VerdictOf(docs, u) = "Pending"
    BY <1>5, <1>6, ViewOpen
  <1> HIDE DEF u
  <1>8. [i \in Ids |-> WaitsFor(queue', i)]
          = [[i \in Ids |-> WaitsFor(queue, i)] EXCEPT ![id] = u]
    BY <1>3, <1>4
  <1>9. Service!Wait(id, u)
    BY <1>2, <1>5, <1>7, <1>8 DEF Service!Wait, SameFiles, Live
  <1>10. QED
    BY <1>9 DEF u

\* A request about an open document has its slot, and the slot its verdict.
LEMMA ServedVerdict ==
  ASSUME IInv, NEW sp \in Spellings, NEW s \in Slots, Has(s, Canonical[sp]),
         docs[s].state # "Pending"
  PROVE  VerdictOf(docs, Canonical[sp]) \in {"Ready", "Failed"}
  <1>1. docs[s].state \in {"Ready", "Failed"} /\ docs[s].open /\ docs[s].uri = Canonical[sp]
    BY DEF IInv, TypeOK, Document, Has
  <1>2. \A r \in Slots : docs[r].open /\ docs[r].uri = Canonical[sp] => r = s
    BY <1>1 DEF IInv, OneSlotPerUri
  <1>3. VerdictOf(docs, Canonical[sp]) = docs[s].state
    BY <1>1, <1>2, ViewOpen
  <1>4. QED
    BY <1>1, <1>3

\* A new request joins, is refused or is answered.
LEMMA AskMaps ==
  ASSUME NEW L, IInv, RoomInv(L), QueueInv, QueueInv',
         NEW id \in Ids, NEW sp \in Spellings, NEW m, Ask(id, sp, m)
  PROVE  \/ Service!Rest
         \/ \E i \in Ids : Service!Refuse(i)
         \/ \E i \in Ids, u \in Uris : Service!Wait(i, u)
         \/ \E u \in Uris : Service!AnswerAtOnce(u)
  <1> DEFINE o == [owed EXCEPT ![id] = @ + 1]
  <1>1. /\ Dispatch(id, sp, m, queue, o) /\ Live /\ pc # "stopped" /\ pc' # "stopped"
        /\ UNCHANGED <<lifecycle, shown>> /\ Canonical[sp] \in Uris
    BY DEF Ask, Receives, Live, Uris
  <1> HIDE DEF o
  <1>2. SameFiles
    BY <1>1, DispatchIsCalm, CalmFiles
  <1>3. CASE UNCHANGED queue /\ served' = None
    <2>1. SameWaits
      BY <1>3 DEF SameWaits
    <2>2. QED
      BY <1>1, <1>2, <1>3, <2>1, RestMaps
  <1>4. ASSUME NEW r \in queue, queue' = Reindexed(queue \ {r}), served' = None
        PROVE  \E i \in Ids : Service!Refuse(i)
    BY <1>1, <1>2, <1>4, RefusalMaps
  <1>5. ASSUME NEW s \in Slots, Defers(sp, m, s), \A r \in queue : r.id # id,
               queue' = queue \cup {NewRequest(id, sp, m, s, queue)}, served' = None
        PROVE  Service!Wait(id, Canonical[sp])
    BY <1>1, <1>2, <1>5, JoiningMaps
  <1>6. CASE UNCHANGED queue /\ served' # None
    <2>1. /\ served' = Canonical[sp]
          /\ \A s \in Slots : Has(s, Canonical[sp]) => docs[s].state # "Pending"
      BY <1>1, <1>6, DispatchServes
    <2>2. \E s \in Slots : Has(s, Canonical[sp])
      BY <1>1, <1>6 DEF Dispatch
    <2>3. VerdictOf(docs, Canonical[sp]) \in {"Ready", "Failed"}
      BY <2>1, <2>2, ServedVerdict
    <2>4. Service!AnswerAtOnce(Canonical[sp])
      BY <1>1, <1>2, <1>6, <2>1, <2>3 DEF Service!AnswerAtOnce, SameFiles, Live
    <2>5. QED
      BY <1>1, <2>4
  <1>7. \/ UNCHANGED queue
        \/ served' = None /\ \E r \in queue : queue' = Reindexed(queue \ {r})
        \/ served' = None /\ \E s \in Slots :
              /\ Defers(sp, m, s) /\ \A r \in queue : r.id # id
              /\ queue' = queue \cup {NewRequest(id, sp, m, s, queue)}
    BY <1>1 DEF Dispatch
  <1>8. QED
    BY <1>1, <1>3, <1>4, <1>5, <1>6, <1>7

\* A replayed request is answered: its document has its verdict.
LEMMA ReplayMaps ==
  ASSUME NEW L, IInv, RoomInv(L), QueueInv, Replay
  PROVE  \E id \in Ids : Service!Answer(id)
  <1>1. PICK r \in queue :
            /\ FirstReady(r)
            /\ Dispatch(r.id, r.spelling, r.method, Reindexed(queue \ {r}), owed)
    BY DEF Replay
  <1>2. Live /\ pc' # "stopped" /\ UNCHANGED <<lifecycle, shown>>
    BY <1>1 DEF Replay, Live, IInv, TypeOK, AfterShutdown
  <1>3. SameFiles
    BY <1>1, DispatchIsCalm, CalmFiles
  <1> DEFINE u == Canonical[r.spelling]
             s == r.slot
  <1>4. r.spelling \in Spellings /\ s \in Slots /\ Has(s, u) /\ ~ Scheduled(s)
        /\ WaitsForAnalysis(r.method)
    BY <1>1 DEF IInv, WaitersAreBound, ReadyMeansSettled, FirstReady, Ready, TypeOK, Request
  <1>5. \A x \in Slots : Has(x, u) => x = s
    BY <1>4 DEF Has, IInv, OneSlotPerUri
  <1>6. \A x \in Slots : ~ Defers(r.spelling, r.method, x)
    BY <1>4, <1>5 DEF Defers
  <1>7. queue' = Reindexed(queue \ {r}) /\ served' = u
    BY <1>1, <1>4, <1>6 DEF Dispatch
  <1>8. docs[s].state # "Pending"
    BY <1>2, <1>4 DEF RoomInv, PendingIsScheduled, Has
  <1>9. VerdictOf(docs, u) # "Pending"
    BY <1>4, <1>8, ServedVerdict
  <1>10. /\ [id \in Ids |-> WaitsFor(queue, id)][r.id] = u
         /\ r.id \in Ids /\ u \in Uris /\ u # None
    BY <1>7, LeavingMaps
  <1>11. [id \in Ids |-> WaitsFor(queue', id)]
           = [[id \in Ids |-> WaitsFor(queue, id)] EXCEPT ![r.id] = None]
    BY <1>7, LeavingMaps
  <1>12. [w \in Uris |-> VerdictOf(docs, w)][[id \in Ids |-> WaitsFor(queue, id)][r.id]]
           # "Pending"
    BY <1>9, <1>10
  <1>13. served' = [id \in Ids |-> WaitsFor(queue, id)][r.id]
    BY <1>7, <1>10
  <1> HIDE DEF u, s
  <1>14. Service!Answer(r.id)
    BY <1>2, <1>3, <1>10, <1>11, <1>12, <1>13 DEF Service!Answer, SameFiles, Live
  <1>15. QED
    BY <1>10, <1>14

\* The steps of the loop that touch neither a file nor a request.
LEMMA LoopMaps ==
  ASSUME NEW L, Ample(L), IInv, RoomInv(L),
         \/ \E s \in Slots : StartWorker(s)
         \/ NothingToStart \/ IgnoredMessage \/ IgnoredUpdate \/ BlockOnInput \/ Wake
  PROVE  Service!Rest
  <1>1. /\ UNCHANGED <<queue, lifecycle, shown>> /\ served' = None
        /\ pc # "stopped" /\ pc' # "stopped"
    BY DEF StartWorker, MayStart, NothingToStart, IgnoredMessage, IgnoredUpdate, Receives,
           BlockOnInput, Wake, serverVars
  <1>2. SameWaits
    BY <1>1 DEF SameWaits
  <1>3. ASSUME \E s \in Slots : StartWorker(s)
        PROVE  SameFiles
    <2>1. \A r \in Slots : /\ docs'[r].open = docs[r].open
                           /\ docs'[r].uri = docs[r].uri
                           /\ docs'[r].spelling = docs[r].spelling
                           /\ docs'[r].version = docs[r].version
                           /\ docs'[r].text = docs[r].text
                           /\ docs'[r].state = docs[r].state
      BY <1>3 DEF StartWorker, IInv, TypeOK, Document
    <2>2. QED
      BY <2>1, ViewSame DEF SameFiles
  <1>4. ASSUME NothingToStart \/ IgnoredMessage \/ IgnoredUpdate \/ BlockOnInput \/ Wake
        PROVE  SameFiles
    <2>1. Rests(L)
      BY <1>4, LoopRests
    <2>2. QED
      BY <2>1, CalmFiles DEF Rests
  <1>5. SameFiles
    BY <1>3, <1>4
  <1>6. QED
    BY <1>1, <1>2, <1>5, RestMaps

\* Every step of the scheduler is a step of the service or a stutter.
LEMMA StepMaps ==
  ASSUME NEW L, Ample(L), IInv, IInv', RoomInv(L), QueueInv, QueueInv', [Next]_vars
  PROVE  [Service!Next]_(Service!vars)
  <1>1. CASE StartTurn
    <2>1. ASSUME NEW s \in Slots, StartFails(s)
          PROVE  \E u \in Uris : Service!Settle(u, "Failed")
      BY <2>1, StartFailsSettles, SettleMaps
    <2>2. ASSUME NEW s \in Slots, StartWorker(s)
          PROVE  Service!Rest
      BY <2>2, LoopMaps
    <2>3. NothingToStart => Service!Rest
      BY LoopMaps
    <2>4. QED
      BY <1>1, <2>1, <2>2, <2>3 DEF StartTurn, Service!Next, Service!Uris, Uris
  <1>2. CASE ClientMessage
    <2>1. ASSUME NEW sp \in Spellings, NEW v \in Versions, NEW t \in Texts,
                 DidOpen(sp, v, t) \/ DidChange(sp, v, t)
          PROVE  Service!Take(sp, v, t)
      BY <2>1, UpdateAccepts, AcceptMaps
    <2>2. ASSUME NEW sp \in Spellings, DidClose(sp)
          PROVE  Service!Close(sp)
      BY <2>2, ClosureCloses, CloseMaps
    <2>3. ASSUME NEW id \in Ids, NEW sp \in Spellings, NEW m \in Methods, Ask(id, sp, m)
          PROVE  Service!Next
      BY <2>3, AskMaps DEF Service!Next, Service!Uris, Uris
    <2>4. ASSUME NEW id \in Ids, Cancel(id)
          PROVE  Service!Next
      BY <2>4, CancelMaps DEF Service!Next
    <2>5. CASE Shutdown \/ Exit
      BY <2>5, EndMaps DEF Service!Next
    <2>6. CASE IgnoredUpdate \/ IgnoredMessage
      BY <2>6, LoopMaps DEF Service!Next
    <2>7. QED
      BY <1>2, <2>1, <2>2, <2>3, <2>4, <2>5, <2>6 DEF ClientMessage, Service!Next
  <1>3. CASE NoFrame
    BY <1>3, ReplayMaps, LoopMaps DEF NoFrame, Service!Next
  <1>4. CASE Wake
    BY <1>4, LoopMaps DEF Service!Next
  <1>5. CASE WorkerOutcome
    BY <1>5, CommitSettles, FailureSettles, SettleMaps
       DEF WorkerOutcome, Service!Next, Service!Uris, Uris
  <1>6. CASE Terminate
    BY <1>6, EndMaps DEF Service!Next
  <1>7. CASE UNCHANGED vars
    BY <1>7 DEF vars, serverVars, Service!vars
  <1>8. QED
    BY <1>1, <1>2, <1>3, <1>4, <1>5, <1>6, <1>7 DEF Next, Stopped

\* The scheduler starts as the service does.
LEMMA InitMaps ==
  ASSUME Init
  PROVE  Service!Init
  <1>1. \A s \in Slots : ~ docs[s].open
    BY DEF Init, FreeDocument
  <1>2. \A u \in Uris : AcceptedOf(docs, u) = None /\ VerdictOf(docs, u) = "none"
    BY <1>1, ViewClosed
  <1>3. \A id \in Ids : WaitsFor(queue, id) = None
    BY WaitsNot DEF Init
  <1>4. QED
    BY <1>2, <1>3 DEF Init, Service!Init, Service!Uris, Uris

\* With room for all, the scheduler implements the service: to the client there
\* are no worker, no queue and no cache, only snapshots, verdicts that come with
\* what is shown, and requests that wait for a verdict or are refused.
THEOREM ImplementsSnapshotService ==
  ASSUME NEW L, Ample(L)
  PROVE  Spec => ImplementsService
  <1>1. Init => Service!Init
    BY InitMaps
  <1>2. Init => QueueInv
    BY EmptyQueue DEF Init, QueueInv
  <1>3. IInv /\ QueueInv /\ [Next]_vars => QueueInv'
    BY NextQueue DEF IInv
  <1>4. IInv /\ IInv' /\ RoomInv(L) /\ QueueInv /\ QueueInv' /\ [Next]_vars
            => [Service!Next]_(Service!vars)
    BY StepMaps
  <1>5. QED
    BY <1>1, <1>2, <1>3, <1>4, InvariantHolds, RoomHolds, PTL
       DEF Spec, ImplementsService, Service!Spec

=============================================================================
