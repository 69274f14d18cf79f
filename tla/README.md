# Elisa LSP: specification and proofs

This directory holds TLA+ models of the Elisa language server and of the scripts
that build, check and release it, the TLC configurations that check them on
small instances, and TLAPS proofs of what matters most for every instance. Source paths are relative to the repository
(`src/main.elisa`, `docs/development.md`, ...).

## The system

### The server

`elisa-lsp` is one process with one thread. `main()` (`src/main.elisa`) turns
a loop: start the next queued analysis if no worker runs, take one complete
JSON-RPC frame from the input buffer and handle it, or, if there is none, replay
one deferred request that became ready, or else block in `poll` until the
client sends bytes, the worker's pipe has bytes, or the worker's deadline
passes. Parsing and type checking run in a forked child, one per accepted
snapshot; everything else runs on the loop's thread between two polls.

| Component | State it keeps | Operations | Talks to |
|---|---|---|---|
| Event loop and dispatch (`main`, `process_next_message`) | lifecycle, position in the loop | one frame, one replay, one wait | everything below |
| Document table (`src/documents.elisa`) | 1 slot per open URI: spelling, version, generation, job, state, source, caches, last report | open, change, close, evict, compact | dispatch, scheduler, budget |
| Analysis scheduler (`analysis_worker_start_*`, `..._commit_packet`, `..._fail_current`) | the running job, the job sequence | start, abort, fail, commit | document table, worker process, deferred queue, diagnostics |
| Deferred requests (`pending_analysis_request*`) | array of requests with copies of their bodies | enqueue, rebind, release, replay, cancel | dispatch, scheduler |
| Derived-cache budget (`enforce_derived_cache_budget`) | capacity per blob, access clock | touch, evict | document table |
| Diagnostics publication | last report per document | publish, suppress a repeat, empty | scheduler, output |
| Worker process (`src/analysis_worker_posix.c`) | pipe, pid, packet buffer, deadline | fork, poll, read, reap, abort | scheduler |
| Input framing (`frame_decoder_step`) | partial header and body | one step per chunk | dispatch |
| Output transport (`src/transport_posix.c`) | deadline, blocking mode, failure latch | begin, write, end | everything that answers |
| URI index, byte storage, line index (`src/documents.elisa`) | hash chains, spans, tombstones, sidecar | insert, remove, rebuild, store, reclaim | document table |
| Positions and edits (`src/positions.elisa`, `apply_content_changes`) | none | functions | dispatch |
| Session and settings | negotiated capabilities, settings | initialize, initialized, settings, shutdown, exit | dispatch |
| Semantic tokens, features, JSON, URI, front-end adapter | none | functions of one snapshot | dispatch, worker |

### The release tooling

`build.sh` (with `scripts/build_hashes.py`) builds the server and publishes it in
`build/`; `scripts/check_build_freshness.py` says whether what is published is
what the sources give; `scripts/platform_validation.py` runs both and the test
suite and writes a report; `scripts/compiler_upgrade_gate.py` compares two
compilers; two audit tools derive committed files from the compiler's
sources. They are processes that share the file system with one another and
with whoever edits it. Only builds take a lock.

| Component | State it keeps | Operations | Talks to |
|---|---|---|---|
| Build (`build.sh`) | lock, shell variables of one build, a private staging directory | capture, stage, validate, compile, recheck, three renames | live trees, snapshots, `build/` |
| Source snapshots (`build/.elisa-lsp-source-v1.*`) | read-only copies of both trees, named after two fingerprints | stage, reuse, seal | build, freshness check |
| Input fingerprints (`build_hashes.py`) | none | hashes of trees, include closure of the entry | build, freshness check |
| Freshness check | what it has read so far | seven reads, each a test | `build/`, live trees, snapshots |
| Platform validation | results of its commands | build, check, test, report | the three above |
| Upgrade gate | one record per compiler | copy, build, test, measure, compare | live checkout, compilers, report file |
| Audit tools | what one run has read | read the enum, scan, write or compare | the compiler's sources, committed files |

### What is hard here

* **Interleaving of the client with the worker.** A client frame is always
  handled before a finished worker is looked at, so an edit, a reopen or a
  close may come between the start of an analysis and its commit, and even
  between the last byte of the packet and its commit.
* **Identity.** A result is recognised by slot, job, generation and version; a
  deferred request by the same four, and these must follow the document through
  edits and reopens, while the slot may be taken over by another file.
* **Release.** A deferred request is answered only if one of the ways its job can
  end marks it ready, and is replayed only when the input is quiet.
* **Budgets.** Eviction takes verdicts away from documents that other parts of
  the code rely on.
* **Suppression.** An unchanged report is not published again, so what the
  client shows depends on every report since the file was opened.
* **Limits and restarts** of queue, clock and job sequence.
* **Failure** of pipe, fork, child, packet, write; signals.
* **Framing.** The decoder keeps its state over pieces that end anywhere.
* **Time of check and time of use.** Sources, compiler and snapshots may be
  edited between any two steps of a build, and be put back before anyone looks
  again; the freshness check reads seven things one after the other, without a
  lock, while builds publish; a validation hands over between three commands.
* **Crashes of a build** between two renames, and **time limits** that kill the
  command but not the build behind it.
* **Graphs.** An include closure must be complete on every graph, with cycles and
  paths to nowhere.

### What makes the components correct

* Document table: one slot per canonical URI; a free slot has nothing to analyse.
* Scheduler: the worker always works on the current snapshot of an open
  document; every accepted snapshot gets a verdict.
* Deferred requests: exactly one response each; bound to the current
  snapshot; a replay is final; nothing waits for an analysis that never comes.
* Budget: retained capacity stays within its limit.
* Diagnostics: under the spelling a file was sent with, the client shows the
  findings of its current text.
* Shutdown: quiet afterwards.
* Worker process: reaped once, never signalled after that, always within its
  deadline. Framing: independent of how the input is split. Output: no frame
  after a partial one. Storage: no span reads another document's bytes. Edits:
  equal to the reference definition on UTF-16 text.
* Build: object, executable and manifest belong together, and the manifest
  describes what the executable was compiled from. Freshness check: no verdict
  of fresh about anything but what it has read, and no rejection of a complete
  build that was left alone. Validation: a report is about the executable that
  was tested. Closure: exactly what the entry reaches. Gate: a pass means both
  compilers got through and no scenario became too slow. Audit tools: the
  committed file is what the sources say, and every constructor is counted once.

The hazards behind these, each with its line and its properties, are in
`PROJECT.json`.

## Modules

| Module | What it is |
|---|---|
| `AnalysisScheduler` | loop, document table, scheduler, deferred requests, budget and diagnostics; client and worker outcomes are its environment |
| `SnapshotService` | what these promise to a client, without worker, queue or cache |
| `MCScheduler` | constants of the finite instances |
| `WorkerProcess` | parent, forked child, pipe, deadline, signal and client at the process boundary, where `AnalysisScheduler` knows outcomes only |
| `OneShotWorker` | what `WorkerProcess` promises to the scheduler |
| `MCWorker` | finite instances of `WorkerProcess` |
| `OutputTransport` | frames written to a client that may stall or close, byte by byte, and the turn that ends the server when that fails |
| `MCOutput` | finite instances of `OutputTransport` |
| `FrameDecoder` | the input framing, over a stream that arrives in pieces |
| `BuildPublication` | builds that run in parallel, the files they read and publish, edits, damage and stops |
| `FreshnessCheck` | extends it by one run of the freshness check |
| `PlatformValidation` | extends both by one validation, which starts a build, runs the check and the suite and reports |
| `MCRelease` | finite instances of `PlatformValidation` |
| `IncludeClosure` | the search for the files that the compiler reads from one entry |
| `UpgradeGate` | two compilers through the phases of the gate, and the comparison |
| `ConstructorScan` | the lexer and the field splitter of the span inventory, on one constructor |
| `DiagnosticAudit` | both audit tools and their `--check` modes, while the sources are edited |
| `MCAlgorithms` | finite instances of `FrameDecoder`, `IncludeClosure`, `UpgradeGate`, `ConstructorScan` and `DiagnosticAudit`, one of them in each behaviour |
| `RecursionTheorems` | induction and recursion, for instantiation (proofs) |
| `FoldLemmas` | sums over sets and folds over sequences (proofs) |
| `AnalysisSchedulerProofs` | what the operators of `AnalysisScheduler` preserve, the inductive invariant and its consequences, the cache budget (proofs) |
| `AnsweringProofs` | exactly one response per request, the queue as an array, and the refinement of `SnapshotService` where nothing is evicted (proofs) |
| `WorkerProcessProofs` | the life of every child, whole packets, refinement of `OneShotWorker` (proofs) |
| `TransportProofs` | output: whole frames, honest exit status, mode of stdout; input: the frames of the stream (proofs) |
| `ReleaseProofs` | what every build, edit and stop preserves, what is published, what the check says and what a validation reports (proofs) |
| `ToolProofs` | the include closure, the upgrade gate, the audit tools and the scan of one constructor (proofs) |

### State and actions of `AnalysisScheduler`

`docs[s]` is a slot of the document table with the fields the code keeps
(`analysis_job_id` is `job`, `analysis_queued` is `queued`, and so on); the four
derived blobs are one `cache`, because each operation treats the four alike, and
its `capacity` is the reserved length in bytes. A text is an abstract value with
a size. `queue` is the array of deferred requests, as a set of records with
their index. `worker` is the running job or `None`. `pc` is the place in
the loop: `start` (before the worker is started), `frame` (before a message is
taken), `wait` (in `poll`), `stopped`. Three variables observe: `owed` counts
answers due per id, `shown` what the client displays per spelling, `served` the
file a provider answered about in the last step.

| Action | Code |
|---|---|
| `StartWorker`, `StartFails`, `NothingToStart` | `analysis_worker_start_next_pending`, `analysis_worker_start_slot` |
| `DidOpen`, `DidChange` (by `Accept`) | `check_and_publish` and the housekeeping of its arm |
| `DidClose` | `handle_did_close` and what it calls |
| `Ask`, `Replay` (by `Dispatch`) | the request arms of `process_next_message`, first time and replayed |
| `Cancel`, `Shutdown`, `Exit` | the arms of the same name |
| `IgnoredUpdate`, `IgnoredMessage` | updates refused as stale or inadmissible, other messages |
| `BlockOnInput`, `Wake` | the wait, and input or a part of a packet |
| `WorkerDone`, `WorkerFails`, `PacketRejected` | `analysis_worker_complete` by commit; by deadline, exit or overrun; by rejected framing or identity |
| `Terminate` | `transport_finish`, from anywhere |

Every action is the whole handler: an edit aborts the worker, rebinds and
unmarks the waiting requests, enforces the cache budget and may compact, in one
step, as the code does between two polls. Whether `storage_reclaim` compacts
depends on dead bytes that are not modelled, so both outcomes are allowed.
The failure of writing an answer ends the session and is `Terminate`; that the
answer counts as given in the step before it makes no difference to a property,
as none looks at a stopped session. `OutputTransport` has the writing, and the
one case in which the failed session lives on (finding 5).

### State and actions of `WorkerProcess`

Documents are reduced to their jobs, numbered as `lsp_analysis_job_sequence`
does. A child is named by its job, and so is the pipe it writes to. `pc` is the
place in the loop, at the resolution of the system calls whose result depends on
another process, the clock or a signal: `turn`, `start`, `frame`; `check`, `arm`
and `poll` in `wait_event`; `drain` and `finish` in
`analysis_worker_process_events`; `fail` and `clear` in the failure path; `reap`,
`kill`, `reapKilled` and `close` in an abort, with `victim` the child it is at
work on and `after` the place where it was called from; `leave`, `stopped`.
`active`, `pid`, `fd`, `eofSeen` and `late` are the static variables of
`src/analysis_worker_posix.c` (`late`: the deadline has passed), `running` and
`packet` those of `LspAnalysisWorkerRuntime`. `procs[j]` is the child as the
kernel sees it: its state, the bytes of its packet it has still to write, those
in the pipe, and whether it exited with 0. `verdict[j]` observes what becomes of
a job.

| Action | Code |
|---|---|
| `StartWorker`, `StartFails`, `StartUndone` | `elisa_lsp_analysis_worker_begin`: fork; no pipe or no child; a child that must be killed again |
| `Update`, `CloseDocument`, `Shutdown`, `Exit`, `IgnoredMessage` | client frames, as far as they concern jobs |
| `CheckSignal`, `Arm`, `PollTimesOut`, `WorkerReady`, `InputReady`, `InputFails` | `wait_event`, and `transport_fill` |
| `ReadBytes`, `ReadEof`, `NothingToRead`, `ReadFails` | the loop over `read_available` |
| `StillRunning`, `Finished`, `FinishFails` | `try_finish`, and the commit |
| `Fail`, `Clear` | `analysis_worker_fail_current`, `analysis_worker_abort_runtime` |
| `Reap`, `Kill`, `ReapKilled`, `CloseWorker` | `elisa_lsp_analysis_worker_abort` and `kill_and_reap` |
| `Leave` | `transport_finish` |
| `ChildWrites`, `ChildCloses`, `ChildExits`, `ChildCrashes`, `KilledChildDies` | the child |
| `Signal`, `Tick` | `record_termination_signal`, the clock |

The signal handlers run with the signals unblocked, so a signal is recorded at
once and interrupts a poll that is under way. A frame's handler runs to its end
before the loop looks for signals again, as in the code. Whether the rejection of
a whole packet is due to its header or its payload makes no difference here.

### State and actions of `OutputTransport`

A handler is reduced to the number of messages it sends (`todo`), the deferred
requests to how many there are, the documents to how many are queued and whether
a worker runs. `pc` is the place in the turn (`turn`, `start`, `message`, `idle`),
in `send_message` (`send`, `end`), in `elisa_lsp_write_all` (`write`) and in
`wait_stdout_writable` (`wait` before its checks, `select` from there to the end of
`pselect`); `leave` is `transport_finish`. `after` is where the loop goes on when
all is sent. `failed` is the latch `lsp_transport_output_failed`, `frame` and
`saved` are `output_frame_fd` and the mode in `output_frame_flags`, `late` says
that `output_frame_deadline` has passed. `mode` is O_NONBLOCK of stdout and `given`
what it was when the server was started; `partial` observes how many bytes of
an incomplete frame the client was sent.

| Action | Code |
|---|---|
| `Turn` | the two checks at the top of the turn |
| `StartNone`, `StartWorker`, `StartFails` | `analysis_worker_start_next_pending` |
| `Handle`, `Defer`, `Shutdown`, `Exit`, `EndOfInput`, `Interrupted`, `WaitInput` | `process_next_message`, by what it sends and returns |
| `Input`, `WorkerEvent`, `WaitEnds` | what ends the wait for input |
| `SendsNothing`, `Begin`, `BeginFails`, `PartDone`, `End`, `HandlerEnds` | `send_message`, `elisa_lsp_output_begin`, `elisa_lsp_output_end` |
| `WriteSome`, `WouldBlock`, `WriteFails` | `elisa_lsp_write_all`, `elisa_lsp_write_retry` |
| `Wait`, `Writable`, `SelectExpires` | `wait_stdout_writable` |
| `Leave` | `transport_finish` |
| `Signal`, `Tick`, `ClientReads`, `ClientCloses` | the handler, the clock, the client |

A signal in `select` may come before `pselect` is entered and then does not
interrupt it. Every system call may fail. How documents are queued and workers
end is left open (`AnalysisScheduler` and `WorkerProcess` have it); only
what the output relies on is kept: the loop over the queued documents ends with
a worker or without a queued document.

### State and actions of `BuildPublication`, `FreshnessCheck` and `PlatformValidation`

The files a build reads are six parts: `src` and `project` (`project.json`, which also
holds the optimization level), `dep` and `other` (the compiler checkout inside and
outside the closure of the entry), `tool` (the stage0 compiler) and `script` (the
rest of the pipeline). `live` has what each holds; a SHA-256 is the content it was
taken of, so that two fingerprints are equal exactly when the contents are.
`cached`, `altered` and `loose` are the snapshots, by name: those that exist, whose
files no longer match, that have something writable. `job[b]` is what the shell
variables of build `b` hold: the level, the fingerprints before, the closure, the
artifact. An artifact is what fixes the compiler's output: the tree it read, whether
the tree was what its name says, level and compiler. Three variables observe:
`torn` (a build ended between two renames), `disturbed` (something happened since
the last snapshot was sealed), and in a job `raced`, which of three intervals
somebody has used that the script does not look into: the `level`, changed between its reading
and the capture; the `tool`, put back after it was used and before it was hashed
again; the `snapshot`, mended or put back in the same interval. `Faithful` excuses one field of
a manifest for each of them and nothing else. The interval is recorded, not the
damage: a compiler that was put back and had not been another is raced, too.
`Compile` is one step, which stands at the read that finds the snapshot damaged, if one does.

| Action | Code |
|---|---|
| `Start`, `Lock`, `Leave` | `build.sh` re-executed under the lock; its end, with its locks and directories |
| `ReadConfig`, `Capture`, `ReportClosure` | level and configuration; `capture_inputs` before; `include_closure` |
| `Stage`, `Validate` | the snapshot, copied or reused; verified and made read-only |
| `Compile`, `Recheck` | the compiler; `capture_inputs` after, and the comparison |
| `PromoteObject`, `PromoteExecutable`, `PromoteManifest` | the three renames |
| `Refuse`, `Stop` | a check of the script that fails; a tool that fails, or a signal |
| `Edit`, `Loosen`, `Alter`, `Discard`, `Restore`, `PutBack` | whoever else writes to the files: a part is edited; a snapshot is made writable, written to (and left writable or not), removed or moved aside, mended, put back |
| `ReadManifest`, `HashBinary`, `HashInputs`, `HashPipeline`, `VerifySnapshot`, `VerifyClosure`, `HashToolchain` | `check_build_freshness.py`, one read after the other |
| `Begin`, `BuildReturns`, `BuildTimesOut`, `ReadsManifest`, `CheckReturns`, `CheckTimesOut`, `RunsTests`, `WritesReport` | `platform_validation.py` |

Every step of a build, of the check and of the validation interleaves with
everything else. The two observers `calm`, of check and validation, say that they
had the files to themselves since they began. A step of the check reads all it
compares at once: the fingerprint of a tree is computed file by file, but a mix
of two states differs from the fingerprint of either.

### State and actions of the other tools

`IncludeClosure`: `tier` is how the search goes on (ask the compiler, parse, take the
trees, record), `active` the chain of files being parsed with `todo` their
includes, which is the recursion of `visit` (`build_hashes.py:268`); `seen` what was found.
`UpgradeGate`: `record` per compiler with status and p95 per scenario, `ran` the
commands that succeeded, `out` the report file, which an earlier run may have
left. `OpenReport` empties it, `WriteReport` completes it and `Exit` sets the status after the summary and
the removal of the copies; `Dies` may come before any of them. `EditRoot` changes the live checkout between the two copies. `ConstructorScan`:
`index` runs over one text twice, to blank comments and literals and to split the
fields. `DiagnosticAudit`: `tool` is one run of one of the tools, which reads the enum
and then one file after the other; `Touch` edits them. `FrameDecoder`: `arrived` and
`pos` are how far the bytes have been read and consumed, `decoder` the fields of
`LspFrameDecoder`; one action is one call of `frame_decoder_step`, or one return of the
wait.

### Refinement

`OneShotWorker` has the verdicts of the jobs and whether the session is over:
one job runs at a time, each gets one final verdict, and a running job ends unless
the session does. `WorkerProcess` implements it (`ImplementsOutcome`), liveness
included. That is what `AnalysisScheduler` assumes of the worker: its
`StartWorker`, `StartFails`, `WorkerDone`, `WorkerFails`, `PacketRejected` and
aborts are the steps of `OneShotWorker`, and `SF(WorkerOutcome)` is its fairness.

`SnapshotService` has, per file, the snapshot the client sent last and its
verdict, and says when a verdict may appear, what is shown at that moment,
when a deferred request may be answered or refused, and that providers answer
after the verdict only. `AnalysisScheduler` implements it (`ImplementsService`,
with the mapping at the end of the module) as long as nothing is evicted; this is
both checked and proved.
Eviction takes a verdict back, which the service does not do.

## Runs

| Run | Instance | Question |
|---|---|---|
| `scheduler` | 2 spellings of one file and a second file, 2 versions, 3 ids, queue of 2, clock that restarts at 1, 3 jobs, no eviction | consistency of table, worker, queue, ledger of answers, failed verdicts and shutdown, in every interleaving |
| `eviction` | 2 files, 2 texts of different sizes that exceed the budget together, 1 id that may be reused in flight, queue of 1 | the budget, and that the client is shown what the verdicts say although they are evicted |
| `service` | 2 files, 1 id, no eviction, fairness | refinement, and that every request completes and every snapshot settles |
| `worker_process` | 2 jobs, packets of 1 to 3 bytes against a cap of 2, a pipe of 1 byte, 1 frame per read | children, pipes, agreement of loop and process layer, whole packets, refinement of `OneShotWorker`, and that a signal while a worker runs ends the server |
| `lost_signal` | the same | finding, below |
| `output` | header of 2 bytes, bodies of 1 or 2, a pipe of 2, 1 deferred request, 2 queued documents, fairness | framing, exit status, mode of stdout, and that a client that does not read and a signal end the server |
| `stalled_client` | 1 byte of everything, 1 queued document, fairness | finding, below |
| `release` | 2 builders, 2 contents per part, 2 edits, 2 builds, 1 stop, 1 check, 1 validation | publication, faithful manifests, soundness and completeness of the check, honest reports |
| `algorithms` | one of five machines, below | exact closure, gate, constructor scan, audit files, framing |
| `lost_request` | 2 files that exceed the budget, fairness | finding, below |
| `forgotten_failure` | the same | finding, below |
| `close_spelling` | 1 file with 2 spellings | finding, below |

Each passing run fires its share of the actions; together they fire all of
them, branches included. `release` and `algorithms` check safety only.

**Bounds.** `MaxJobs` bounds the snapshots accepted in a behaviour: with three,
two documents can both be open and one of them edited, reopened or replaced
in its slot while the other's job runs, waits or is being committed. More
snapshots repeat these situations: identities are compared for equality only.
`MaxVersion = 2` gives stale, equal and newer versions. Three ids and a queue of
two reach the limit, with requests for the same and for different documents
before and behind each other. `MaxDocs = 2` reaches the table's limit in
`scheduler` (three spellings but two URIs; the source limit is reached as well)
and the reuse of a slot by another file. The clock restarts within every
behaviour (`AccessWrap` 1 or 2). In `scheduler` ids are symmetric, and it
checks no liveness. The bounds are in guards, so that a behaviour that has used
up its jobs goes on with everything else. Deadlock is checked everywhere: the
only state without another step is a stopped session, which stutters by an
action of its own.

In `worker_process` two jobs give a child that is replaced by that of the next
job, one that is being aborted while the next job is queued, and a start that
fails while another is queued; a job more repeats them, since only one child
exists at a time (`NoStrayChild`). A cap of 2 with sizes 1 to 3 gives packets
below, at and above the cap; a pipe of 1 byte makes the child wait for the parent
after every byte. One frame per read, or none: a frame may be split anywhere.

In `output` a header of 2 bytes and a pipe of 2 let a frame stop within the header,
between the parts and within the body; a handler sends up to two messages, so one may
fail with another to come; two queued documents are needed for a second start
after a first has failed. A larger pipe or body adds steps of the same kinds.

In `release` two edits are an edit that is put back, an edit before and one after a
read, a snapshot that is written to and mended, or moved aside and put back, on either side
of the compiler's read, or one that is made writable and another thing; a snapshot is put back only under a name
that a build or the manifest has, since nothing looks for another. Two builders with two
builds are a build after a build, a build that waits for the lock, a build that goes on
after the validation has given it up, or one that publishes between two reads of
the check; one stop lets the first of the two builds end between its renames.
Contents are compared for equality only. Deadlock is allowed: with the bounds
used up and everything over, there is nothing left to do.

In `algorithms` the closure is sought on every include graph of three files, one
of which leads to no file, with every placement of two of them; the gate has two
scenarios, p95 values of 0 (not usable) and of 2, 3, 4 against an allowance of
50 percent (at, below and above the limit), skipped phases and one edit of the
checkout; the scan is given every text of up to 6 characters over those that open and end
comments and literals, and every text of up to 5 over those that split fields; the
audit has two kinds, two files, lists with a duplicate and empty lists, an unknown kind, a file
that cannot be scanned and one edit; the decoder is given streams of up to two frames and a
third begun, with up to two header fields (three for the limits of lines and bytes),
every split of each into pieces, and an end or a failure at every byte. All of these end, so
deadlock is allowed.

**Fairness of `AnalysisScheduler`** (`FairSpec`). `WF(StartTurn)`: the loop never
stalls between two polls. `SF(NoFrame)`: the loop takes a message of the buffer as
long as there is one, but a chunk of the input (`TRANSPORT_CHUNK`, 8192 bytes) holds
finitely many, and `transport_fill` reads the next chunk only when none is
left and no deferred request is ready; so even a client that floods the server
cannot starve deferred requests. `SF(WorkerOutcome)`: a running worker ends.
`wait_event` looks at the deadline before it looks at the input, so a worker that
runs while the loop waits again and again is reported at its deadline at the
latest, however busy the input is; `worker_process` checks this against the
process layer. Nothing is assumed of the client: it may never send anything again.

**Fairness of `WorkerProcess`**. `WF(Parent)`: the thread runs, whenever it is not
blocked in a poll for input or in `waitpid`. `WF(Tick)`: time passes.
`WF(KilledChildDies)`: a process that was sent SIGKILL dies. The child may hang at
any point and the client may be silent for ever. Input is not part of `Parent`,
so no progress is due to it.

**Fairness of `OutputTransport`**. `WF(Server)`: the thread runs unless it is blocked
in `pselect` or in the wait for input, and a running worker ends the wait at its
deadline. `WF(Tick)`: time passes. The client need not read, send or close.

## What is proved

For any sets of files, spellings, texts and ids and any limits, from
`SchedulerAssumption` (the canonical form of a spelling is a URI, sizes and
limits are natural numbers, a table, budget and clock are not zero) and
`NoneAssumption` (the absent value is unlike any other):

| Theorem | Statement |
|---|---|
| `TypeCorrect` | `Spec => []TypeOK` |
| `SlotsAreUnique` | `Spec => []OneSlotPerUri` |
| `WorkerNeverStale` | `Spec => []WorkerIsCurrent` |
| `WaitersStayBound` | `Spec => []WaitersAreBound` |
| `ReplaysAreFinal` | `Spec => []ReadyMeansSettled` |
| `DiagnosticsAreCurrent` | `Spec => []ShownMatchesVerdict` |
| `ShutdownIsQuiet` | `Spec => QuietAfterShutdown` |
| `ExactlyOneResponse` | `Spec => []AnsweredExactlyOnce`, if the client does not reuse an id in flight (`MaxOutstanding = 1`) |
| `BudgetIsKept` | `Spec => []CacheBudget` |
| `QueueStaysAnArray` | `Spec => []QueueIsArray`, for every client |
| `NobodyWaitsInVain` | `Spec => []NoOrphanedWaiter`, if the budget is ample |
| `EveryPendingIsScheduled` | `Spec => []PendingIsScheduled`, if the budget is ample |
| `NoEarlyAnswer` | `Spec => []ServedAfterVerdict`, if the budget is ample |
| `FailuresAreKept` | `Spec => FailedUntilEdit`, if the budget is ample |
| `ImplementsSnapshotService` | `Spec => ImplementsService`, the whole refinement, if the budget is ample |

The last five are false where documents are evicted (findings 1 and 2), so they
have the hypothesis `Ample(L)` for some number `L` of bytes: twice the size of a text,
the room that is reserved for it, is at most `L`, and the budget is at least `MaxDocs * L`. With the
defaults (64 MiB, 1024 documents) that is 64 KiB a document, spare room included; a table limit or
a budget set for larger documents meets it as well. The budgets of the
`scheduler` and `service` runs are ample, so they show the same statements on their instances.

From `WorkerAssumption` (the bounds are natural numbers, the absent value is no
job) for any number of jobs and any size of packet and pipe, in
`WorkerProcessProofs`:

| Theorem | Statement |
|---|---|
| `TypeCorrect` | `Spec => []TypeOK`: among others, the packet never exceeds its cap |
| `NoChildIsLost` | `Spec => []NoStrayChild` |
| `SignalsOwnChild` | `Spec => []KillsOwnChild` |
| `LoopAndProcessAgree` | `Spec => []RuntimeAgrees` |
| `OnlyWholePackets` | `Spec => CommitIsWhole` |
| `ImplementsOneShotWorker` | `Spec => Outcome!Safety`, the refinement without its liveness |

From `OutputAssumption` (header and body are not empty, the bounds are natural
numbers) for the first four, and from `FrameAssumption` (a stream is a finite
sequence, the limits of lines and bytes are natural numbers) for any stream and any division of it into
pieces for the last, in `TransportProofs`:

| Theorem | Statement |
|---|---|
| `TypeCorrect` | `Spec => []TypeOK` |
| `FramesAreWhole` | `Spec => []StreamIsFramed` |
| `ZeroIsHonest` | `Spec => []ZeroMeansWhole` |
| `ModeIsTheCallers` | `Spec => []ModeIsRestored` |
| `FramesAreRight` | `FrameSpec => []FramesAreTheStream` |

From `BuildAssumption`, `AbsentAssumption` and `OwnAssumption` (bounds are natural
numbers, the absent value is neither a content, a builder, an artifact nor a
manifest, the validation's builder is one of the builders) for any builders, contents and
any number of edits, builds and stops, in `ReleaseProofs`:

| Theorem | Statement |
|---|---|
| `TypeCorrect` | `Spec => []TypeOK`: no step works with a fingerprint it has not read |
| `PublicationIsAtomic` | `Spec => []PublishedTogether` |
| `ManifestsAreFaithful` | `Spec => []ManifestIsFaithful`: among all edits and damage, only the three races spoil a field |
| `FreshnessIsSound` | `Spec => []FreshIsSound`, with the same three exceptions |
| `BuildsAreFresh` | `Spec => []FreshAfterBuild` |
| `ReportsAreHonest` | `Spec => []ValidatedReportIsHonest` |

In `ToolProofs`: from `ClosureAssumption` (the entry is a file, the path to nowhere is
not) for any set of files and any include graph; from `GateAssumption` (the
allowance is a natural number, latencies are integers) for any scenarios and any
figures; from `AuditAssumption` (there are finitely many kinds and files, `Unknown` and
`Broken` are none of the kinds and contents) and `AbsentAssumption` (a missing inventory is
unlike any inventory) for any lists of kinds and any contents; from `ScanAssumption` (a
text is a finite sequence) for any texts:

| Theorem | Statement |
|---|---|
| `ClosureTypeCorrect` | `ClosureSpec => []ClosureTypeOK` |
| `ClosureIsExact` | `ClosureSpec => []ClosureIsReachable` |
| `GateQualifies` | `GateSpec => []QualifiedMeansCompared`, however a run ends |
| `AuditIsRight` | `AuditSpec => []AuditMatchesSources` |
| `FieldsAreRight` | `ScanSpec => []FieldsAreExact` |

Two lemmas are general facts, not results about this code, and are not listed as such; several proofs
rest on them. `RecursiveFunction` (in `RecursionTheorems`): an equation that recurs along a falling rank has exactly one
solution, and it is the one that a recursive definition of a model chooses. `FoldIsChain` (in `FoldLemmas`):
a fold over a sequence of any length is the last of a chain of values, each one step from the one before.
The provers cannot apply a theorem that takes an operator as a parameter, so both
modules declare the equation (`Value`), the step and the weight as constants, and are instantiated with
those of a model; induction itself is by least elements of sets (`SmallestSet`,
`SmallestNumber`).

**Argument for the scheduler.** None of these is inductive alone. `IInv` is the conjunction of
the first six with three facts: the report kept for a document is what the
client still shows under the report's spelling (`DiagIsShown`; without it a
suppressed repeat could leave an older list on display), a queued document has
no verdict (`QueuedIsPending`), and after shutdown nothing waits or runs
(`AfterShutdown`). The uniqueness of slots carries the diagnostics: a list
emptied for one file touches no other file's, because spellings of different
files differ. The currency of the worker carries the release: the document of a
worker that ends has no other analysis queued, so the requests it releases are
settled. There is one lemma per action; most of an action is housekeeping
(`Kept`: eviction, compaction, access stamps), which is handled once and for
any choice of victims. The theorems of this module hold with eviction. The checks of the commit
path for an obsolete job turn out never to fail: the worker of an obsolete job
has always been ended before (`WorkerFacts`).

`AnsweringProofs` adds `LedgerInv`: ids in the queue are distinct, and one
answer is owed exactly under the ids that wait. Each rewriting of the queue is
the image under a function that keeps ids (`ImageRewrites`), so counts are
preserved. `QueueInv` is the part about the queue alone, and needs no
assumption on the client. For the indexes 1, 2, 3, ... it says that they are distinct and
used up (`Indexed`): a renumbering that is injective and stays within the
length uses every number (`NumbersAreUsedUp`), and the one after a removal, by rank, is
injective because ranks of different indexes differ.

`BudgetInv` carries `CacheBudget`. The capacities that may be evicted add up to no
more than the budget (`InBudget`), and what is stored has room (`Fitting`); without
the second, compaction, which cuts the capacity of every document to the size of what it stores,
might raise the sum. Every step but a commit leaves each capacity alone or lowers it (`RetainedIsLess`);
a commit raises one, and enforces the budget afterwards, and eviction stops only when the sum
is within the budget or nothing is left that may be evicted.

With an ample budget the sum of all capacities is within it (`RoomForAll`), so `EnforceBudget` is
the identity on the tables that occur
(`NobodyIsEvicted`), and `RoomInv` holds: jobs are numbered up to the sequence,
only open documents have a verdict, and each open document without one, and
each request that waits, has its analysis queued or running. Every step is then of one
of five kinds (`StepKinds`): it starts a worker, settles one document
(`Settles`), accepts a snapshot (`Accepts`), closes a document (`Closes`), or leaves
all files alone (`Rests`). The invariants and the refinement are proved from the
kinds: what a file is for the service is what its only slot says (`ViewOpen`, which rests on
`OneSlotPerUri`), and the requests that a close removes from a slot are those that
wait for its file (`WaitersAreBound`). A replayed request is answered and not deferred
again because of `ReadyMeansSettled`, and answered after the verdict because of
`PendingIsScheduled`.

**Argument for the worker process.** `IInv` says who owns the child and the pipe
at each place of loop and abort (`Handles`), that every child that is not reaped has
an owner and every owner its child (`Children`), that the bytes in packet and
pipe and those still to be written add up to the size of the packet (`Bytes`), and
which verdicts are open (`Verdicts`). `Bytes` carries `CommitIsWhole`: after the
end of file the pipe is empty, and a child that exited with 0 has nothing left
to write, so the packet has every byte. `Children` holds at the victim until
it is reaped, which is why it is never killed after that. The commands of a
process are described by its fields first (`Replaced`), then there is one lemma per
action, and one per conjunct below it.

**Argument for the output.** `FrameBytes` counts: while a frame is written, the bytes
the client holds of it are those written, and otherwise a partial frame implies the
latch. With `MaySend` that is `FramesAreWhole`. `ZeroIsHonest` needs more than the
latch, because a failed start may set it after the turn has looked at it
(`StartFails`). Status 0 has two sources. After shutdown nothing is started and
nothing is deferred, so `exit` sends nothing and follows a fresh look at the latch
(`LatchIsFresh`). At the end of the input nothing is queued without a worker, because
the turn before it has tried all documents (`NothingQueued`): if
`analysis_worker_start_next_pending` tried one document only, a server whose output
was cut could report success, and the mutant of that property does.

**Argument for the input.** The reference cuts the whole stream; the decoder has it in
pieces and forgets the bytes it has read. `FrameInv` therefore relates three things (`Standing`): the
dispatched frames are those between successive cuts of the stream (`FramesRead`); what the
decoder holds is what its bytes since the last cut amount to, in the header the lines so far, their
limits and the length declared (`HeaderRead`), in the body how much of it is there (`BodyRead`); and it
waits only when the bytes that have arrived hold no further frame. One call of the decoder is a fold over the
new bytes, so it is followed one byte at a time along the chain of `FoldIsChain`; the step of one byte
is a lemma about the grammar alone. That a frame is cut at one
place only (`FrameIsUnique`) makes the reference a function of the stream, and `CompleteStays` says that later
bytes do not move an earlier cut. A second induction, from the last frame back to the first, identifies
the frames between the cuts with the recursion of the reference (`CutsAreComplete`).

**Argument for builds.** `BuildInv` says what a build has read by each step
(`JobIsRead`), and four things about what it has made. An artifact that was compiled
from a damaged snapshot finds that snapshot still damaged, or gone, at the recheck, unless somebody has
mended it or put it back after it was used, which is recorded (`JobIsClean`). One that was
compiled by another compiler finds another compiler there still, with the same
exception (`JobIsCompiled`). The level is the recorded one unless `project.json` was changed
before the capture (`JobIsExact`). And what was renamed so far is this build's (`JobIsPartlyOut`). All of it is about the
holder of the lock, since the others are waiting (`HolderIsAlone`). `QuietInv` carries
`FreshAfterBuild`: from the moment a snapshot is sealed nothing can touch it without
setting `disturbed`, and after the recheck the live trees are those of the manifest, so each
test of the check holds.

**Argument for check and validation.** `CheckFacts` says what has been established
at each read, about the manifest in memory and not the one on disk, which may have
been replaced; `CalmFacts` says that the two are the same while the files are
settled, because nothing is published then (`SettledKeeps`). `ValKnows` and
`ValReads` do the same for the validation: its build has succeeded and nobody else
builds for it, so its outcome stays; and what it read, what the check read and
what the suite ran are of one publication as long as nothing else happens.

**Argument for the closure.** The chain of files being parsed is a path
(`ActiveIsPath`, `PathIsFollowed`), and whatever was followed is finished or next on it
(`FollowedIsFinished`). When a file is left, the finished files are closed under
includes and do not hold it, so it does not lead to itself; when the chain is
empty, what was seen is closed, so it holds all that is reached; and a file on
the chain that is met again is on a cycle. Reachability is defined by closed
sets, which needs no induction.

**Argument for the gate.** `GateInv` says that whatever is behind the current turn has been done for
its compiler (`Behind`), that a record of "passed" stands for a build, tests and figures
of that compiler (`StandsFor`), and what report and status say (`ReportFits`): up to the end of the write the
file is that of an earlier run or cut off; afterwards a report of this run that says
passed means that the gate has passed, however the run ends; and status 0 is only
reached with such a report. A passed gate is then traced back to the two records
(`PassedIsCompared`). That the same sources were copied for both while nobody edited them needs that no copy is newer than
the checkout; that the limit of the percentage is the one reported is a fact of integer division
(`WithinAllowance`).

**Argument for the audits.** `AuditInv` says what a run holds in memory at each step: the
variants of the enum as it is, and the counts of exactly the files it has scanned
(`CountedSoFar`), as long as nobody edits the sources (`steady`). The tool's counts of one file are a fold
over its constructors, followed along the chain of `FoldIsChain` (`OneMoreSite`, `OneMoreFile`); the totals of
the summary are sums over kinds, which `FoldLemmas` equates with the cardinalities of the sets of places that the reference
counts (`SitesAddUp`), and the splits into known and unknown, precise and vague, are disjoint unions.

**Argument for the scan.** The scanner leaps over literals and comments and keeps a stack; the reference
is a lexer that takes one character after the other, and the depth of the brackets before a place. `ScanInv`
relates the two. While the mask is made it is right up to the index, and there the lexer is in code, or at
the line end of a comment (`Ready`): a leap over a literal ends where the lexer leaves it
(`LiteralScanned`, by induction along the literal; the recursive `LiteralEnd` and the lexer are unfolded by
`RecursionTheorems`). While fields are split, the stack holds the open brackets, the n-th at depth n - 1, and no
later place is shallower (`Stacked`), so its last is the one partner of a bracket that closes
(`LastIsPartner`); all brackets before the index have their partners (`ClosedBefore`); and the fields so far lie
between successive outer commas (`FieldsBefore`), so that a field that names the position and a name at the
beginning of a field are the same (`NamingIsName`, `NameIsNaming`).

**Only model-checked.** All 30 invariants of the passing runs are proved, and so are the action
properties and the safety of both refinements. Liveness is not: fairness and ENABLED are out of the prover's reach.

## Findings

1. **A deferred request can be lost** (`lost_request`; `src/documents.elisa:231`).
   Eviction clears `analysis_queued`. A document that was edited while another
   one is being analysed keeps the capacity of its old caches; when the other
   analysis commits, the budget may evict the edited document, whose queued
   analysis is then forgotten, and the requests that wait for it with it.
   `src/main.elisa:4103` states that every valid request completes exactly once.
2. **Eviction forgets a failure** (`forgotten_failure`; `src/documents.elisa:230`).
   `docs/development.md:1036` says providers report `InternalError` until a
   later edit succeeds; after eviction they answer empty results.
3. **A close under another spelling leaves findings on display**
   (`close_spelling`; `src/main.elisa:3770`), against
   `docs/workspace-and-configuration.md:86`.
4. **A signal can go unnoticed** (`lost_signal`;
   `src/analysis_worker_posix.c:411-455`). `wait_event` looks for a termination
   signal and then calls `poll`, which waits without a timeout while no worker runs.
   A signal between the two is recorded, but the server sleeps on until the client
   sends something. The comment at `src/analysis_worker_posix.c:393-394` says
   signals remain observable while the input is idle, and
   `docs/development.md:936` that a blocked wait is interruptible. The read in
   `src/transport_posix.c` closes this window with `pselect`, but the loop reaches
   it only after the poll. While a worker runs, the slices of 25 ms bound the
   delay (`SignalWhileBusy`).

5. **A stalled client can keep a failed server alive** (`stalled_client`;
   `src/main.elisa:4983-4986`). The latch is looked at before the next analysis is
   started, not after. If the worker cannot be started and the client has stopped
   reading, publishing the empty list runs into the deadline and sets the latch; the
   turn goes on, finds no message and waits for input without a timeout.
   `docs/development.md:1025` says that a stalled client causes a controlled nonzero
   exit when the deadline expires. A handler that meets a stalled client does
   end the server (`BlockedHandlerEnds`).

Other places where words and code differ, met on the way and not given a run:

* `docs/development.md:900-902` says requests are answered before the next
  message is handled; deferred requests are not.
* `docs/development.md:1060-1061` says deferred requests replay only after a
  matching snapshot is committed; a failed job releases them as well.
* `docs/development.md:1041-1042` says sources above 64 MiB enter the failed state;
  they are refused at admission (`src/main.elisa:2649`).
* `build.sh:77-79` says a stale build description must fail and never silently build
  a different optimization level. The level is read from `project.json` (80-143) before
  anything is hashed (331-335): after an edit in between, the old level is compiled
  and the new `project.json` recorded, and the freshness check passes. This is why
  `ManifestIsFaithful` excepts the level where `raced` has `level`.
* The compiler binary is hashed before and after the compilation. If it is replaced
  and put back in between, the manifest names a compiler that did not compile
  the artifact, and the freshness check passes (`raced` has `tool`).
* `build.sh:348-350` says the closure is rechecked against the immutable staged tree. Its owner can
  still write to it: a snapshot that is changed after the seal (491-492), read
  by `elisac` or `clang` (500-505) and mended before it is hashed again (575-576 and
  602-606) is published with a manifest whose fingerprints are not those of what was
  compiled, and the freshness check, which hashes the mended snapshot, passes (`raced` has `snapshot`).
* The comment at `scripts/check_build_freshness.py:208-210` wants the closure
  verified against a present checkout; without the compiler binary
  `verify_live_include_closure` returns as if it had held (139-143), and a changed
  checkout passes.
* A build that ends after the first rename leaves an object that is not the
  manifest's; the freshness check never looks at the object.
* A snapshot that is made writable between seal and promotion is published, and the
  freshness check then rejects it until the next build.
* A validation that gives up its build does not stop it: the time limit kills the
  process that waits for the lock holder, and the build publishes later. A
  concurrent build may publish between the manifest that a report names and the suite.
* The two compilers of the upgrade gate may be given different sources of this
  repository (the copies are taken one after the other), and a run that dies
  leaves the report of an earlier run in place, or one that is cut off. A run that ends after line 344,
  because the summary cannot be printed (345) or the copies cannot be removed, leaves a report that
  says `gate_passed` and a status other than 0: the status alone does not say
  that the gate failed. What the report says is still so (`QualifiedMeansCompared`).
* `docs/development.md:459-460` and the README name three files of the pipeline
  fingerprint; the code also hashes `generate_diagnostic_codes.py`.
* The span inventory takes its fingerprint after the scan
  (`diagnostic_span_inventory.py:207`): an edit in between gives the fingerprint of the new
  sources with the counts of the old. `AuditMatchesSources` excepts that run (`steady`) and
  shows that a later `--check` beside which nobody edits does not accept files that are not those of the sources.
* A second request under the id of a deferred one is answered by one error for
  the two (`src/main.elisa:2801`). Clients must not do this; in the `eviction`
  run one does.

## Not modelled

* The compiler front end (not in this repository), JSON, formatting, the
  generated table of diagnostic codes, the contents of answers.
* The handshake and the messages that leave no trace on the modelled state, all
  in `IgnoredMessage`; requests before `initialize` are answered by an error on
  the spot.
* Wrap-around of the job sequence at 2^63-2.
* Of the documents: the byte budgets of deferred requests and the shifting of their
  bytes, hash chains, spans, compaction and line index of the storage, the
  application of incremental edits, session settings. Semantic tokens and features are
  functions of one snapshot.
* Of the build: that the list of included files is resolved by whichever compiler is there at
  that moment, which is not hashed then; what compiler and linker write, the metadata of the stage0 binary and
  the identities of host and toolchain, which are recorded and not compared; bytes of
  manifests, whose layout and types are those `build.sh` writes; file systems
  that reorder renames after a power failure.
* Of the tools: their regular expressions, reduced to what they find; the figures
  of a benchmark but the p95; command lines.
* Of the output: a stdin that shares its file description, and so its blocking mode,
  with stdout; the log on stderr, which is written blocking within a budget of bytes;
  installing the signal handlers.
* At the process boundary: `SIGCHLD` inherited as ignored (`waitpid` would then
  find no child of ours), a server that is killed while its child hangs, the
  blocking `elisa_lsp_analysis_worker_read` and `..._finish`, which the server
  does not call, and the closing of inherited descriptors in the child.

## What could follow

In this order:

1. `RetainedStorage` (`src/documents.elisa:245-736`): URI chains with colliding
   hashes, spans in place and appended, compaction, line index budget. Abstract
   specification: a map from URI to bytes. Proof: reachability of every open URI.
2. The byte storage of deferred requests (`src/main.elisa:2690-2825`).
3. `TextEdits` (`src/positions.elisa`, `src/main.elisa:1543-1635`) and the delta
   encoding of semantic tokens: functions against reference definitions.
4. `Session`: handshake and settings, composed with the scheduler's lifecycle.
5. Liveness of a validation: that each of its phases ends within its limit.
