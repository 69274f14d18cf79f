--------------------------- MODULE BuildPublication ---------------------------
(***************************************************************************)
(* build.sh: one build captures the fingerprints of its inputs, stages     *)
(* them as a read-only snapshot named after the fingerprints, compiles     *)
(* from the snapshot, checks that nothing has moved and publishes object,  *)
(* executable and manifest with three renames.  Builds are serialised by   *)
(* an advisory lock that the kernel gives back when its holder ends.       *)
(*                                                                         *)
(* The files a build reads are six parts, and what a part holds is a       *)
(* content; a SHA-256 is the content it was taken of.  The environment     *)
(* edits the parts, and damages, removes, mends or puts back snapshots,    *)
(* between any two steps, and a build may end at any step.                 *)
(***************************************************************************)
EXTENDS Integers

CONSTANTS
    Builders,   \* processes that run build.sh
    Contents,   \* what a part can hold
    First,      \* what every part holds at the start
    Absent,     \* no file, no holder, nothing read
    MaxEdits,   \* bound: edits of parts and what is done to snapshots
    MaxBuilds,  \* bound: builds started
    MaxStops    \* bound: builds killed, or ended by a tool that fails

ASSUME BuildAssumption ==
    /\ First \in Contents /\ Absent \notin Contents /\ Absent \notin Builders
    /\ MaxEdits \in Nat /\ MaxBuilds \in Nat /\ MaxStops \in Nat

(***************************************************************************)
(* src and project are the inputs of this repository (src/**, which the    *)
(* entry is part of, and project.json, which holds the optimization        *)
(* level); dep and other are the files of the compiler checkout inside and *)
(* outside the include closure of the entry; tool is the stage0 binary;    *)
(* script is the rest of the build pipeline.                               *)
(***************************************************************************)
Parts == {"src", "project", "dep", "other", "tool", "script"}
Removable == {"dep", "tool"}

VARIABLES
    live,      \* what every part holds now
    cached,    \* snapshots below build/
    altered,   \* those whose files no longer match their name
    loose,     \* those with a writable file or directory
    pub,       \* the published object, executable and manifest
    lock,      \* who holds build/.elisa-lsp-build.lock
    pc,        \* the next step of each builder
    job,       \* what its shell variables hold
    outcome,   \* how its last build ended
    torn,      \* a build ended between two of its renames
    disturbed, \* something happened since the last build sealed its snapshot
    spent      \* the bounds: edits, builds and stops so far

world   == <<live, cached, altered, loose>>
process == <<lock, pc, job, outcome>>
ghosts  == <<torn, disturbed, spent>>
buildVars == <<world, pub, process, ghosts>>

\* lsp_inputs_sha256 and compiler_sources_sha256, which name a snapshot.
Key(l) == [src |-> l["src"], project |-> l["project"],
           dep |-> l["dep"], other |-> l["other"]]

Keys == [src : Contents, project : Contents, dep : Contents, other : Contents]

\* The digest of the include closure: the sources that are reached, from
\* either root.
Closure(k) == <<k.src, k.dep>>

\* What the compiler writes: fixed by the tree it reads, whether that tree
\* was the one its name says, the level and the compiler.
Artifacts == [key : Keys, clean : BOOLEAN, opt : Contents, tool : Contents]

\* What happened behind the back of a build, in one of the intervals it does
\* not look into: the level was changed between its reading and the capture,
\* or the compiler or the snapshot was put back after it had been used and
\* before it was hashed again.
Windows == {"level", "tool", "snapshot"}

Manifests == [artifact : Artifacts, object : Artifacts, key : Keys,
              closure : Contents \X Contents, tool : Contents,
              script : Contents, raced : SUBSET Windows]

\* No file is not a file.
ASSUME AbsentAssumption == Absent \notin Artifacts /\ Absent \notin Manifests

Steps == {"idle", "waiting", "configure", "capture", "report", "stage",
          "validate", "compile", "recheck", "object", "executable", "manifest"}

Blank == [opt |-> Absent, before |-> Absent, tool |-> Absent,
          script |-> Absent, closure |-> Absent, bytes |-> Absent,
          raced |-> {}]

JobsOf ==
    [opt : Contents \cup {Absent}, before : Keys \cup {Absent},
     tool : Contents \cup {Absent}, script : Contents \cup {Absent},
     closure : (Contents \X Contents) \cup {Absent},
     bytes : Artifacts \cup {Absent}, raced : SUBSET Windows]

\* Every variable stays within its type: no build holds a half-read
\* fingerprint, and damage is only recorded of snapshots that exist.
BuildTypeOK ==
    /\ live \in [Parts -> Contents \cup {Absent}]
    /\ \A p \in Parts \ Removable : live[p] # Absent
    /\ cached \subseteq Keys /\ altered \subseteq cached /\ loose \subseteq cached
    /\ pub \in [object : Artifacts \cup {Absent},
                executable : Artifacts \cup {Absent},
                manifest : Manifests \cup {Absent}]
    /\ lock \in Builders \cup {Absent}
    /\ pc \in [Builders -> Steps]
    /\ job \in [Builders -> JobsOf]
    /\ outcome \in [Builders -> {"none", "built", "failed"}]
    /\ torn \in BOOLEAN /\ disturbed \in BOOLEAN
    /\ spent \in [edits : 0 .. MaxEdits, builds : 0 .. MaxBuilds,
                  stops : 0 .. MaxStops]

BuildInit ==
    /\ live = [p \in Parts |-> First]
    /\ cached = {} /\ altered = {} /\ loose = {}
    /\ pub = [object |-> Absent, executable |-> Absent, manifest |-> Absent]
    /\ lock = Absent
    /\ pc = [b \in Builders |-> "idle"]
    /\ job = [b \in Builders |-> Blank]
    /\ outcome = [b \in Builders |-> "none"]
    /\ torn = FALSE /\ disturbed = TRUE
    /\ spent = [edits |-> 0, builds |-> 0, stops |-> 0]

Goto(b, step) == pc' = [pc EXCEPT ![b] = step]

(***************************************************************************)
(* A build, step by step.                                                  *)
(***************************************************************************)
Start(b) ==
    /\ pc[b] = "idle" /\ spent.builds < MaxBuilds
    /\ Goto(b, "waiting")
    /\ outcome' = [outcome EXCEPT ![b] = "none"]
    /\ spent' = [spent EXCEPT !.builds = @ + 1]
    /\ UNCHANGED <<world, pub, lock, job, torn, disturbed>>

Lock(b) ==
    /\ pc[b] = "waiting" /\ lock = Absent
    /\ lock' = b
    /\ Goto(b, "configure")
    /\ disturbed' = TRUE
    /\ UNCHANGED <<world, pub, job, outcome, torn, spent>>

\* The level comes from project.json before anything is hashed.
ReadConfig(b) ==
    /\ pc[b] = "configure"
    /\ job' = [job EXCEPT ![b].opt = live["project"]]
    /\ Goto(b, "capture")
    /\ UNCHANGED <<world, pub, lock, outcome, ghosts>>

ToolchainExists == \A p \in Removable : live[p] # Absent

Capture(b) ==
    /\ pc[b] = "capture" /\ ToolchainExists
    /\ job' = [job EXCEPT ![b].before = Key(live),
                          ![b].tool = live["tool"],
                          ![b].script = live["script"]]
    /\ Goto(b, "report")
    /\ UNCHANGED <<world, pub, lock, outcome, ghosts>>

\* The closure is read from the live trees; IncludeClosure has how.
ReportClosure(b) ==
    /\ pc[b] = "report" /\ live["dep"] # Absent
    /\ job' = [job EXCEPT ![b].closure = Closure(Key(live))]
    /\ Goto(b, "stage")
    /\ UNCHANGED <<world, pub, lock, outcome, ghosts>>

\* A snapshot of that name is reused.  Otherwise the live trees are copied,
\* the copy is hashed and, when the hashes are those captured, renamed into
\* place.  A copy that mixes two states of a tree differs in its hash.
Stageable(b) == job[b].before \in cached \/ Key(live) = job[b].before

Stage(b) ==
    /\ pc[b] = "stage" /\ Stageable(b)
    /\ cached' = cached \cup {job[b].before}
    /\ Goto(b, "validate")
    /\ UNCHANGED <<live, altered, loose, pub, lock, job, outcome, ghosts>>

\* Mutant: a snapshot that exists is taken at its name.
SnapshotNamed(b) == job[b].before \in cached

SnapshotIntact(b) == job[b].before \in cached \ altered

\* Mutant: a snapshot that is reused keeps its permissions.
LeftLoose(k) == loose

\* Once it has been verified, every file and directory of the snapshot is
\* made read-only again.
Sealed(k) == loose \ {k}

Validate(b) ==
    /\ pc[b] = "validate"
    /\ SnapshotIntact(b) /\ job[b].closure = Closure(job[b].before)
    /\ loose' = Sealed(job[b].before)
    /\ disturbed' = FALSE
    /\ Goto(b, "compile")
    /\ UNCHANGED <<live, cached, altered, pub, lock, job, outcome, torn, spent>>

\* elisac and clang read the snapshot; the step stands at the read that
\* finds it damaged, if one does.
Compile(b) ==
    /\ pc[b] = "compile"
    /\ job[b].before \in cached /\ live["tool"] # Absent
    /\ job' = [job EXCEPT ![b].bytes =
           [key |-> job[b].before, clean |-> job[b].before \notin altered,
            opt |-> job[b].opt, tool |-> live["tool"]]]
    /\ Goto(b, "recheck")
    /\ UNCHANGED <<world, pub, lock, outcome, ghosts>>

\* Nothing that was captured has moved.
Unmoved(b) ==
    /\ Key(live) = job[b].before
    /\ SnapshotIntact(b)
    /\ live["tool"] = job[b].tool /\ live["script"] = job[b].script
    /\ Closure(Key(live)) = job[b].closure

Recheck(b) ==
    /\ pc[b] = "recheck" /\ Unmoved(b)
    /\ Goto(b, "object")
    /\ UNCHANGED <<world, pub, lock, job, outcome, ghosts>>

PromoteObject(b) ==
    /\ pc[b] = "object"
    /\ pub' = [pub EXCEPT !.object = job[b].bytes]
    /\ Goto(b, "executable")
    /\ UNCHANGED <<world, lock, job, outcome, ghosts>>

\* Mutant: a rename that fails is not noticed.
PromoteNothing(b) ==
    /\ pc[b] = "executable"
    /\ Goto(b, "manifest")
    /\ UNCHANGED <<world, pub, lock, job, outcome, ghosts>>

PromoteExecutable(b) ==
    /\ pc[b] = "executable"
    /\ pub' = [pub EXCEPT !.executable = job[b].bytes]
    /\ Goto(b, "manifest")
    /\ UNCHANGED <<world, lock, job, outcome, ghosts>>

ManifestOf(j) ==
    [artifact |-> j.bytes, object |-> j.bytes, key |-> j.before,
     closure |-> j.closure, tool |-> j.tool, script |-> j.script,
     raced |-> j.raced]

\* The process is gone, and with it its lock and its private directory.
Leave(b, how) ==
    /\ Goto(b, "idle")
    /\ job' = [job EXCEPT ![b] = Blank]
    /\ outcome' = [outcome EXCEPT ![b] = how]
    /\ lock' = IF lock = b THEN Absent ELSE lock

PromoteManifest(b) ==
    /\ pc[b] = "manifest"
    /\ pub' = [pub EXCEPT !.manifest = ManifestOf(job[b])]
    /\ torn' = FALSE
    /\ Leave(b, "built")
    /\ UNCHANGED <<world, disturbed, spent>>

\* A check of the script does not hold: exit 2, or a traceback.
Refused(b) ==
    \/ pc[b] = "capture" /\ ~ToolchainExists
    \/ pc[b] = "report" /\ live["dep"] = Absent
    \/ pc[b] = "stage" /\ ~Stageable(b)
    \/ pc[b] = "validate" /\ ~(SnapshotIntact(b) /\ job[b].closure = Closure(job[b].before))
    \/ pc[b] = "compile" /\ ~(job[b].before \in cached /\ live["tool"] # Absent)
    \/ pc[b] = "recheck" /\ ~Unmoved(b)

Refuse(b) ==
    /\ Refused(b)
    /\ Leave(b, "failed")
    /\ disturbed' = TRUE
    /\ UNCHANGED <<world, pub, torn, spent>>

\* The compiler or the linker fails, or the build is killed.
Stop(b) ==
    /\ pc[b] # "idle" /\ spent.stops < MaxStops
    /\ Leave(b, "failed")
    /\ torn' = (torn \/ pc[b] \in {"executable", "manifest"})
    /\ disturbed' = TRUE
    /\ spent' = [spent EXCEPT !.stops = @ + 1]
    /\ UNCHANGED <<world, pub>>

BuildStep(b) ==
    \/ Lock(b) \/ ReadConfig(b) \/ Capture(b) \/ ReportClosure(b) \/ Stage(b)
    \/ Validate(b) \/ Compile(b) \/ Recheck(b) \/ PromoteObject(b)
    \/ PromoteExecutable(b) \/ PromoteManifest(b) \/ Refuse(b) \/ Stop(b)

(***************************************************************************)
(* The environment.                                                        *)
(***************************************************************************)
Happens ==
    /\ spent.edits < MaxEdits
    /\ spent' = [spent EXCEPT !.edits = @ + 1]
    /\ disturbed' = TRUE

\* What the edit of a part does behind the back of a build: to the level it
\* has read, or to the compiler it has used, which is put back.
Unseen(p, c, b) ==
    IF p = "project" /\ pc[b] = "capture" THEN {"level"}
    ELSE IF p = "tool" /\ pc[b] = "recheck" /\ c = job[b].tool THEN {"tool"}
    ELSE {}

\* Someone edits, replaces or removes a part.
Edit(p, c) ==
    /\ Happens
    /\ c # live[p] /\ (c = Absent => p \in Removable)
    /\ live' = [live EXCEPT ![p] = c]
    /\ job' = [b \in Builders |->
                 [job[b] EXCEPT !.raced = job[b].raced \cup Unseen(p, c, b)]]
    /\ UNCHANGED <<cached, altered, loose, pub, lock, pc, outcome, torn>>

\* Whoever has written to a snapshot leaves it writable or read-only.
LeftEitherWay(k) == loose' \in {loose \cup {k}, loose \ {k}}

\* Someone makes a snapshot writable, or writes to it.
Loosen(k) ==
    /\ Happens
    /\ k \in cached \ loose /\ loose' = loose \cup {k}
    /\ UNCHANGED <<live, cached, altered, pub, process, torn>>

Alter(k) ==
    /\ Happens
    /\ k \in cached \ altered /\ altered' = altered \cup {k}
    /\ LeftEitherWay(k)
    /\ UNCHANGED <<live, cached, pub, process, torn>>

\* Someone removes a snapshot, or moves it aside.
Discard(k) ==
    /\ Happens
    /\ k \in cached /\ cached' = cached \ {k}
    /\ altered' = altered \ {k} /\ loose' = loose \ {k}
    /\ UNCHANGED <<live, pub, process, torn>>

\* A snapshot stands again under its name, and is what its name says.  A
\* build that has compiled from it cannot tell.
StandsAgain(k) ==
    /\ LeftEitherWay(k)
    /\ job' = [b \in Builders |->
                 [job[b] EXCEPT !.raced = job[b].raced \cup
                    (IF pc[b] = "recheck" /\ k = job[b].before THEN {"snapshot"} ELSE {})]]
    /\ UNCHANGED <<live, pub, lock, pc, outcome, torn>>

\* Someone undoes what was written to a snapshot, or puts one back.
Restore(k) ==
    /\ Happens
    /\ k \in altered /\ altered' = altered \ {k}
    /\ StandsAgain(k) /\ UNCHANGED cached

PutBack(k) ==
    /\ Happens
    /\ k \notin cached /\ cached' = cached \cup {k}
    /\ StandsAgain(k) /\ UNCHANGED altered

\* Bound: the snapshots somebody may put back are those that a build or the
\* manifest names; nothing else looks for one.
Named ==
    {k \in Keys : \/ \E b \in Builders : job[b].before = k
                  \/ pub.manifest # Absent /\ pub.manifest.key = k}

Environment ==
    \/ \E p \in Parts, c \in Contents \cup {Absent} : Edit(p, c)
    \/ \E k \in cached : Loosen(k) \/ Alter(k) \/ Discard(k) \/ Restore(k)
    \/ \E k \in Named : PutBack(k)

(***************************************************************************)
(* What a build promises.                                                  *)
(***************************************************************************)
\* Nothing has happened since the last build sealed its snapshot, and no
\* build is under way.
Settled == ~disturbed /\ \A b \in Builders : pc[b] \in {"idle", "waiting"}

\* Object, executable and manifest in build/ are those of one build, except
\* while the holder of the lock renames them and after a build that ended
\* between two renames (build.sh:145-149 and 664-670).
PublishedTogether ==
    (~torn /\ \A b \in Builders : pc[b] \notin {"executable", "manifest"})
    => \/ pub = [object |-> Absent, executable |-> Absent, manifest |-> Absent]
       \/ /\ pub.manifest # Absent
          /\ pub.object = pub.manifest.object
          /\ pub.executable = pub.manifest.artifact

\* A manifest records the fingerprints of the snapshot its executable was
\* compiled from and of the include closure, whatever happened meanwhile.
\* The snapshot was intact then unless it was put back before it was hashed
\* again (build.sh:575-610), the compiler is the recorded one unless it was
\* put back likewise (579), and the level is the recorded one unless it was
\* changed between its reading and the capture (80-143 and 331).
Faithful(m) ==
    /\ m.artifact.key = m.key /\ m.closure = Closure(m.key)
    /\ "snapshot" \notin m.raced => m.artifact.clean
    /\ "tool" \notin m.raced => m.artifact.tool = m.tool
    /\ "level" \notin m.raced => m.artifact.opt = m.key.project

ManifestIsFaithful == pub.manifest # Absent => Faithful(pub.manifest)

=============================================================================
