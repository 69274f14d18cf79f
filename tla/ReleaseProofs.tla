----------------------------- MODULE ReleaseProofs -----------------------------
(***************************************************************************)
(* What is published, what a freshness check says of it and what a         *)
(* validation reports, for any number of builders, edits, builds and stops.*)
(* First what every build, edit and stop preserves, then what the check and*)
(* the validation add to it.                                               *)
(***************************************************************************)
EXTENDS PlatformValidation, TLAPS

\* A build that is given up while it waits for the lock.
GiveUp(b) ==
    /\ pc[b] = "waiting"
    /\ Leave(b, "failed")
    /\ UNCHANGED <<world, pub, ghosts>>

\* Whatever can happen to the files and the builds.
BuildMove ==
    \/ \E b \in Builders : Start(b) \/ BuildStep(b) \/ GiveUp(b)
    \/ Environment
    \/ UNCHANGED buildVars

\* The steps at which the level, the fingerprints and the closure are read,
\* the snapshot is sealed, the artifact is there and has passed the recheck.
HasOpt    == {"capture", "report", "stage", "validate", "compile", "recheck",
              "object", "executable", "manifest"}
HasBefore == HasOpt \ {"capture"}
HasClosed == HasBefore \ {"report"}
HasSealed == {"compile", "recheck", "object", "executable", "manifest"}
HasBytes  == HasSealed \ {"compile"}
Promoting == {"object", "executable", "manifest"}

Away == {"idle", "waiting"}

\* The lock is held by the one build that is past waiting for it.
LockInv == \A b \in Builders : lock = b <=> pc[b] \notin Away

\* An outcome is that of a build that is over.
OutcomeInv == \A b \in Builders : outcome[b] # "none" => pc[b] = "idle"

\* What a build has read by the step it is at, and that the artifact was
\* compiled from what it has read.
JobIsRead(b) ==
    /\ pc[b] \in HasOpt => job[b].opt \in Contents
    /\ pc[b] \in HasBefore => /\ job[b].before \in Keys
                              /\ job[b].tool \in Contents
                              /\ job[b].script \in Contents
    /\ pc[b] \in HasClosed => job[b].closure \in Contents \X Contents
    /\ pc[b] \in HasSealed => job[b].closure = Closure(job[b].before)
    /\ pc[b] \in HasBytes => /\ job[b].bytes \in Artifacts
                             /\ job[b].bytes.key = job[b].before
                             /\ job[b].bytes.opt = job[b].opt

\* An artifact that was compiled from a damaged snapshot does not pass the
\* recheck: the snapshot is still damaged, or gone.  Nor does one that was
\* compiled by another compiler: it is not the captured one.  Whoever puts
\* snapshot or compiler back in time races the build.
JobIsClean(b) ==
    "snapshot" \notin job[b].raced =>
        /\ pc[b] = "recheck" =>
              job[b].bytes.clean \/ job[b].before \notin cached \ altered
        /\ pc[b] \in Promoting => job[b].bytes.clean

JobIsCompiled(b) ==
    "tool" \notin job[b].raced =>
        /\ pc[b] = "recheck" =>
              job[b].bytes.tool = job[b].tool \/ live["tool"] # job[b].tool
        /\ pc[b] \in Promoting => job[b].bytes.tool = job[b].tool

\* The level is the one recorded, unless it was changed before the capture.
JobIsExact(b) ==
    "level" \notin job[b].raced =>
        /\ pc[b] = "capture" => job[b].opt = live["project"]
        /\ pc[b] \in HasBefore => job[b].opt = job[b].before.project

\* What has been renamed so far is that of the build that renames.
JobIsPartlyOut(b) ==
    /\ pc[b] \in {"executable", "manifest"} => pub.object = job[b].bytes
    /\ pc[b] = "manifest" => pub.executable = job[b].bytes

JobInv == \A b \in Builders : /\ JobIsRead(b) /\ JobIsClean(b) /\ JobIsCompiled(b)
                              /\ JobIsExact(b) /\ JobIsPartlyOut(b)

BuildInv == /\ BuildTypeOK /\ LockInv /\ OutcomeInv /\ JobInv
            /\ PublishedTogether /\ ManifestIsFaithful

\* Initially nothing is published and nobody builds.
LEMMA BuildInitHolds == BuildInit => BuildInv
<1> USE BuildAssumption
<1> SUFFICES ASSUME BuildInit PROVE BuildInv
    OBVIOUS
<1>1. BuildTypeOK
  <2>1. live \in [Parts -> Contents \cup {Absent}] /\ \A p \in Parts \ Removable : live[p] # Absent
      BY DEF BuildInit, Parts
  <2>2. job \in [Builders -> JobsOf]
      BY DEF BuildInit, JobsOf, Blank
  <2>3. /\ cached \subseteq Keys /\ altered \subseteq cached /\ loose \subseteq cached
        /\ lock \in Builders \cup {Absent} /\ pc \in [Builders -> Steps]
        /\ outcome \in [Builders -> {"none", "built", "failed"}]
        /\ torn \in BOOLEAN /\ disturbed \in BOOLEAN
      BY DEF BuildInit, Steps
  <2>4. pub \in [object : Artifacts \cup {Absent}, executable : Artifacts \cup {Absent},
                 manifest : Manifests \cup {Absent}]
      BY DEF BuildInit
  <2>5. spent \in [edits : 0 .. MaxEdits, builds : 0 .. MaxBuilds, stops : 0 .. MaxStops]
      BY DEF BuildInit
  <2> QED
      BY <2>1, <2>2, <2>3, <2>4, <2>5 DEF BuildTypeOK
<1>2. LockInv /\ OutcomeInv
    BY DEF BuildInit, LockInv, OutcomeInv, Away
<1>3. JobInv
    BY DEF BuildInit, JobInv, JobIsRead, JobIsClean, JobIsCompiled, JobIsExact, JobIsPartlyOut,
           HasOpt, HasBefore, HasClosed, HasSealed, HasBytes, Promoting
<1>4. PublishedTogether /\ ManifestIsFaithful
    BY DEF BuildInit, PublishedTogether, ManifestIsFaithful
<1> QED
    BY <1>1, <1>2, <1>3, <1>4 DEF BuildInv

-----------------------------------------------------------------------------
\* What the fingerprints of the live trees are.
LEMMA KeyType ==
    ASSUME BuildTypeOK, live["dep"] # Absent
    PROVE  Key(live) \in Keys /\ Closure(Key(live)) \in Contents \X Contents
BY DEF BuildTypeOK, Key, Keys, Closure, Parts, Removable

\* A builder goes to a step, the others stay.
LEMMA GotoSteps ==
    ASSUME BuildTypeOK, NEW b \in Builders, NEW step \in Steps, Goto(b, step)
    PROVE  /\ pc' \in [Builders -> Steps] /\ pc'[b] = step
           /\ \A o \in Builders \ {b} : pc'[o] = pc[o]
BY DEF BuildTypeOK, Goto

\* A builder leaves, the others stay.
LEMMA LeaveSteps ==
    ASSUME BuildTypeOK, NEW b \in Builders,
           NEW how \in {"built", "failed"}, Leave(b, how)
    PROVE  /\ pc' \in [Builders -> Steps] /\ pc'[b] = "idle"
           /\ job' \in [Builders -> JobsOf]
           /\ outcome' \in [Builders -> {"none", "built", "failed"}]
           /\ lock' \in Builders \cup {Absent}
           /\ lock' = IF lock = b THEN Absent ELSE lock
           /\ \A o \in Builders \ {b} : pc'[o] = pc[o] /\ job'[o] = job[o]
                                     /\ outcome'[o] = outcome[o]
<1>1. Blank \in JobsOf
    BY DEF Blank, JobsOf
<1>2. pc' \in [Builders -> Steps] /\ pc'[b] = "idle" /\ \A o \in Builders \ {b} : pc'[o] = pc[o]
    BY GotoSteps DEF Leave, Steps
<1>3. job' \in [Builders -> JobsOf] /\ \A o \in Builders \ {b} : job'[o] = job[o]
    BY <1>1 DEF Leave, BuildTypeOK
<1>4. /\ outcome' \in [Builders -> {"none", "built", "failed"}]
      /\ \A o \in Builders \ {b} : outcome'[o] = outcome[o]
    BY DEF Leave, BuildTypeOK
<1>5. lock' = (IF lock = b THEN Absent ELSE lock) /\ lock' \in Builders \cup {Absent}
    BY DEF Leave, BuildTypeOK
<1> QED
    BY <1>2, <1>3, <1>4, <1>5

\* The types are preserved by the steps that only move a builder on.
LEMMA TypeOfMoves ==
    ASSUME BuildTypeOK, NEW b \in Builders,
           \/ Start(b) \/ Lock(b) \/ Stage(b) \/ Validate(b) \/ Recheck(b),
           JobInv
    PROVE  BuildTypeOK'
<1> USE BuildAssumption
<1>1. CASE Start(b)
  <2>1. pc' \in [Builders -> Steps]
      BY <1>1, GotoSteps DEF Start, Steps
  <2>2. outcome' \in [Builders -> {"none", "built", "failed"}]
      BY <1>1 DEF Start, BuildTypeOK
  <2>3. spent' \in [edits : 0 .. MaxEdits, builds : 0 .. MaxBuilds, stops : 0 .. MaxStops]
      BY <1>1 DEF Start, BuildTypeOK
  <2> QED
      BY <1>1, <2>1, <2>2, <2>3 DEF Start, BuildTypeOK, world
<1>2. CASE Lock(b)
  <2>1. pc' \in [Builders -> Steps]
      BY <1>2, GotoSteps DEF Lock, Steps
  <2> QED
      BY <1>2, <2>1 DEF Lock, BuildTypeOK, world
<1>3. CASE Stage(b)
  <2>1. pc' \in [Builders -> Steps]
      BY <1>3, GotoSteps DEF Stage, Steps
  <2>2. job[b].before \in Keys
      BY <1>3 DEF Stage, JobInv, JobIsRead, HasBefore, HasOpt
  <2> QED
      BY <1>3, <2>1, <2>2 DEF Stage, BuildTypeOK, ghosts
<1>4. CASE Validate(b)
  <2>1. pc' \in [Builders -> Steps]
      BY <1>4, GotoSteps DEF Validate, Steps
  <2> QED
      BY <1>4, <2>1 DEF Validate, BuildTypeOK, Sealed
<1>5. CASE Recheck(b)
  <2>1. pc' \in [Builders -> Steps]
      BY <1>5, GotoSteps DEF Recheck, Steps
  <2> QED
      BY <1>5, <2>1 DEF Recheck, BuildTypeOK, world, ghosts
<1> QED
    BY <1>1, <1>2, <1>3, <1>4, <1>5

\* The types are preserved by the steps that read into the job.
LEMMA TypeOfReads ==
    ASSUME BuildTypeOK, NEW b \in Builders, JobInv,
           ReadConfig(b) \/ Capture(b) \/ ReportClosure(b) \/ Compile(b)
    PROVE  BuildTypeOK'
<1>1. job[b] \in JobsOf /\ job \in [Builders -> JobsOf]
    BY DEF BuildTypeOK
<1>2. CASE ReadConfig(b)
  <2>1. pc' \in [Builders -> Steps]
      BY <1>2, GotoSteps DEF ReadConfig, Steps
  <2>2. live["project"] \in Contents
      BY DEF BuildTypeOK, Parts, Removable
  <2>3. job' \in [Builders -> JobsOf]
      BY <1>1, <1>2, <2>2 DEF ReadConfig, JobsOf
  <2> QED
      BY <1>2, <2>1, <2>3 DEF ReadConfig, BuildTypeOK, world, ghosts
<1>3. CASE Capture(b)
  <2>1. pc' \in [Builders -> Steps]
      BY <1>3, GotoSteps DEF Capture, Steps
  <2>2. Key(live) \in Keys /\ live["tool"] \in Contents /\ live["script"] \in Contents
      BY <1>3, KeyType DEF Capture, ToolchainExists, Removable, BuildTypeOK, Parts
  <2>3. job' \in [Builders -> JobsOf]
      BY <1>1, <1>3, <2>2 DEF Capture, JobsOf
  <2> QED
      BY <1>3, <2>1, <2>3 DEF Capture, BuildTypeOK, world, ghosts
<1>4. CASE ReportClosure(b)
  <2>1. pc' \in [Builders -> Steps]
      BY <1>4, GotoSteps DEF ReportClosure, Steps
  <2>2. Closure(Key(live)) \in Contents \X Contents
      BY <1>4, KeyType DEF ReportClosure
  <2>3. job' \in [Builders -> JobsOf]
      BY <1>1, <1>4, <2>2 DEF ReportClosure, JobsOf
  <2> QED
      BY <1>4, <2>1, <2>3 DEF ReportClosure, BuildTypeOK, world, ghosts
<1>5. CASE Compile(b)
  <2>1. pc' \in [Builders -> Steps]
      BY <1>5, GotoSteps DEF Compile, Steps
  <2> DEFINE bytes == [key |-> job[b].before, clean |-> job[b].before \notin altered,
                       opt |-> job[b].opt, tool |-> live["tool"]]
  <2>2. bytes \in Artifacts
    <3>1. job[b].before \in Keys /\ job[b].opt \in Contents
        BY <1>5 DEF Compile, JobInv, JobIsRead, HasBefore, HasOpt
    <3>2. live["tool"] \in Contents
        BY <1>5 DEF Compile, BuildTypeOK, Parts
    <3> QED
        BY <3>1, <3>2 DEF Artifacts
  <2>3. job' = [job EXCEPT ![b].bytes = bytes]
      BY <1>5 DEF Compile
  <2> HIDE DEF bytes
  <2>4. job' \in [Builders -> JobsOf]
      BY <1>1, <2>2, <2>3 DEF JobsOf
  <2> QED
      BY <1>5, <2>1, <2>4 DEF Compile, BuildTypeOK, world, ghosts
<1> QED
    BY <1>2, <1>3, <1>4, <1>5

\* The manifest that a build writes.
LEMMA ManifestType ==
    ASSUME BuildTypeOK, NEW b \in Builders, JobInv, pc[b] = "manifest"
    PROVE  ManifestOf(job[b]) \in Manifests
<1>1. /\ job[b].before \in Keys /\ job[b].tool \in Contents /\ job[b].script \in Contents
      /\ job[b].closure \in Contents \X Contents /\ job[b].bytes \in Artifacts
    BY DEF JobInv, JobIsRead, HasBytes, HasSealed, HasClosed, HasBefore, HasOpt
<1>2. job[b].raced \in SUBSET Windows
    BY DEF BuildTypeOK, JobsOf
<1> QED
    BY <1>1, <1>2 DEF ManifestOf, Manifests

\* The types are preserved by the renames.
LEMMA TypeOfRenames ==
    ASSUME BuildTypeOK, NEW b \in Builders, JobInv,
           PromoteObject(b) \/ PromoteExecutable(b) \/ PromoteManifest(b)
    PROVE  BuildTypeOK'
<1>1. CASE PromoteObject(b)
  <2>1. pc' \in [Builders -> Steps] /\ job[b].bytes \in Artifacts
      BY <1>1, GotoSteps DEF PromoteObject, Steps, JobInv, JobIsRead, HasBytes, HasSealed
  <2> QED
      BY <1>1, <2>1 DEF PromoteObject, BuildTypeOK, world, ghosts
<1>2. CASE PromoteExecutable(b)
  <2>1. pc' \in [Builders -> Steps] /\ job[b].bytes \in Artifacts
      BY <1>2, GotoSteps DEF PromoteExecutable, Steps, JobInv, JobIsRead, HasBytes, HasSealed
  <2> QED
      BY <1>2, <2>1 DEF PromoteExecutable, BuildTypeOK, world, ghosts
<1>3. CASE PromoteManifest(b)
  <2>1. ManifestOf(job[b]) \in Manifests
      BY <1>3, ManifestType DEF PromoteManifest
  <2>2. /\ pc' \in [Builders -> Steps] /\ job' \in [Builders -> JobsOf]
        /\ outcome' \in [Builders -> {"none", "built", "failed"}]
        /\ lock' \in Builders \cup {Absent}
      BY <1>3, LeaveSteps DEF PromoteManifest
  <2>3. pub' \in [object : Artifacts \cup {Absent}, executable : Artifacts \cup {Absent},
                  manifest : Manifests \cup {Absent}]
      BY <1>3, <2>1 DEF PromoteManifest, BuildTypeOK
  <2> QED
      BY <1>3, <2>2, <2>3 DEF PromoteManifest, BuildTypeOK, world
<1> QED
    BY <1>1, <1>2, <1>3

\* The types are preserved when a build ends without a result.
LEMMA TypeOfEnds ==
    ASSUME BuildTypeOK, NEW b \in Builders, Refuse(b) \/ Stop(b) \/ GiveUp(b)
    PROVE  BuildTypeOK'
<1> USE BuildAssumption
<1>1. Leave(b, "failed")
    BY DEF Refuse, Stop, GiveUp
<1>2. /\ pc' \in [Builders -> Steps] /\ job' \in [Builders -> JobsOf]
      /\ outcome' \in [Builders -> {"none", "built", "failed"}]
      /\ lock' \in Builders \cup {Absent}
    BY <1>1, LeaveSteps
<1>3. UNCHANGED <<live, cached, altered, loose, pub>>
    BY DEF Refuse, Stop, GiveUp, world
<1>4. torn' \in BOOLEAN /\ disturbed' \in BOOLEAN
    BY DEF Refuse, Stop, GiveUp, ghosts, BuildTypeOK
<1>5. spent' \in [edits : 0 .. MaxEdits, builds : 0 .. MaxBuilds, stops : 0 .. MaxStops]
    BY DEF Refuse, Stop, GiveUp, ghosts, BuildTypeOK
<1> QED
    BY <1>2, <1>3, <1>4, <1>5 DEF BuildTypeOK

\* What the environment does to the jobs, and what it leaves alone in them.
JobsKept ==
    /\ job' \in [Builders -> JobsOf]
    /\ \A b \in Builders :
          /\ job[b].raced \subseteq job'[b].raced
          /\ job'[b].opt = job[b].opt /\ job'[b].before = job[b].before
          /\ job'[b].tool = job[b].tool /\ job'[b].script = job[b].script
          /\ job'[b].closure = job[b].closure /\ job'[b].bytes = job[b].bytes

LEMMA JobsRaced ==
    ASSUME BuildTypeOK, NEW R, \A b \in Builders : R[b] \subseteq Windows,
           job' = [b \in Builders |-> [job[b] EXCEPT !.raced = job[b].raced \cup R[b]]]
    PROVE  JobsKept /\ \A b \in Builders : job'[b].raced = job[b].raced \cup R[b]
<1>1. job \in [Builders -> JobsOf]
    BY DEF BuildTypeOK
<1>2. ASSUME NEW b \in Builders
      PROVE  /\ job'[b] \in JobsOf
             /\ job'[b].raced = job[b].raced \cup R[b]
             /\ job'[b].opt = job[b].opt /\ job'[b].before = job[b].before
             /\ job'[b].tool = job[b].tool /\ job'[b].script = job[b].script
             /\ job'[b].closure = job[b].closure /\ job'[b].bytes = job[b].bytes
  <2>1. job'[b] = [job[b] EXCEPT !.raced = job[b].raced \cup R[b]] /\ job[b] \in JobsOf
      BY <1>1
  <2>2. job[b].raced \cup R[b] \in SUBSET Windows
    <3>1. job[b].raced \in SUBSET Windows
        BY <2>1 DEF JobsOf
    <3> QED
        BY <3>1
  <2> QED
      BY <2>1, <2>2 DEF JobsOf
<1>3. job' \in [Builders -> JobsOf]
    BY <1>2
<1> QED
    BY <1>2, <1>3 DEF JobsKept

\* What an edit of a part does.
LEMMA EditSteps ==
    ASSUME BuildTypeOK, NEW p \in Parts, NEW c \in Contents \cup {Absent}, Edit(p, c)
    PROVE  /\ JobsKept
           /\ \A b \in Builders : job'[b].raced = job[b].raced \cup Unseen(p, c, b)
<1> DEFINE R == [b \in Builders |-> Unseen(p, c, b)]
<1>1. \A b \in Builders : R[b] \subseteq Windows /\ R[b] = Unseen(p, c, b)
    BY DEF Unseen, Windows
<1>2. job' = [b \in Builders |-> [job[b] EXCEPT !.raced = job[b].raced \cup R[b]]]
    BY DEF Edit
<1> HIDE DEF R
<1>3. JobsKept /\ \A b \in Builders : job'[b].raced = job[b].raced \cup R[b]
    BY <1>1, <1>2, JobsRaced
<1> QED
    BY <1>1, <1>3

\* What is done when a snapshot is mended or put back.
LEMMA StandsAgainSteps ==
    ASSUME BuildTypeOK, NEW k, StandsAgain(k)
    PROVE  /\ JobsKept
           /\ \A b \in Builders :
                 pc[b] = "recheck" /\ k = job[b].before => "snapshot" \in job'[b].raced
<1> DEFINE R == [b \in Builders |->
                    IF pc[b] = "recheck" /\ k = job[b].before THEN {"snapshot"} ELSE {}]
<1>1. \A b \in Builders : /\ R[b] \subseteq Windows
                          /\ pc[b] = "recheck" /\ k = job[b].before => "snapshot" \in R[b]
    BY DEF Windows
<1>2. job' = [b \in Builders |-> [job[b] EXCEPT !.raced = job[b].raced \cup R[b]]]
    BY DEF StandsAgain
<1> HIDE DEF R
<1>3. JobsKept /\ \A b \in Builders : job'[b].raced = job[b].raced \cup R[b]
    BY <1>1, <1>2, JobsRaced
<1> QED
    BY <1>1, <1>3

\* What is done to snapshots, apart from the parts that are edited.
Tampering ==
    \/ \E k \in cached : Loosen(k) \/ Alter(k) \/ Discard(k) \/ Restore(k)
    \/ \E k \in Named : PutBack(k)

LEMMA EnvironmentIs ==
    /\ Environment <=> \/ \E p \in Parts, c \in Contents \cup {Absent} : Edit(p, c)
                       \/ Tampering
    /\ Environment => Happens
BY DEF Environment, Tampering, Edit, Loosen, Alter, Discard, Restore, PutBack

\* Tampering leaves the parts, what is published and the processes alone.
LEMMA TamperingSteps ==
    ASSUME BuildTypeOK, Tampering
    PROVE  /\ UNCHANGED <<live, pub, lock, pc, outcome, torn>> /\ JobsKept
           /\ cached' \subseteq Keys /\ altered' \subseteq cached' /\ loose' \subseteq cached'
<1>0. cached \subseteq Keys /\ altered \subseteq cached /\ loose \subseteq cached
    BY DEF BuildTypeOK
<1>1. ASSUME NEW k \in cached, Loosen(k) \/ Alter(k) \/ Discard(k)
      PROVE  /\ UNCHANGED <<live, pub, lock, pc, outcome, torn>> /\ JobsKept
             /\ cached' \subseteq Keys /\ altered' \subseteq cached' /\ loose' \subseteq cached'
  <2>1. UNCHANGED <<live, pub, lock, pc, job, outcome, torn>>
      BY <1>1 DEF Loosen, Alter, Discard, process
  <2>2. JobsKept
      BY <2>1 DEF JobsKept, BuildTypeOK
  <2> QED
      BY <1>0, <1>1, <2>1, <2>2 DEF Loosen, Alter, Discard, LeftEitherWay
<1>2. ASSUME NEW k \in Keys, (Restore(k) /\ k \in cached) \/ PutBack(k)
      PROVE  /\ UNCHANGED <<live, pub, lock, pc, outcome, torn>> /\ JobsKept
             /\ cached' \subseteq Keys /\ altered' \subseteq cached' /\ loose' \subseteq cached'
  <2>1. StandsAgain(k)
      BY <1>2 DEF Restore, PutBack
  <2>2. UNCHANGED <<live, pub, lock, pc, outcome, torn>> /\ JobsKept
      BY <2>1, StandsAgainSteps DEF StandsAgain
  <2> QED
      BY <1>0, <1>2, <2>1, <2>2 DEF Restore, PutBack, StandsAgain, LeftEitherWay
<1> QED
    BY <1>0, <1>1, <1>2 DEF Tampering, Named

\* The types are preserved by the environment.
LEMMA TypeOfEnvironment ==
    ASSUME BuildTypeOK, Environment
    PROVE  BuildTypeOK'
<1> USE BuildAssumption
<1>1. /\ spent' \in [edits : 0 .. MaxEdits, builds : 0 .. MaxBuilds, stops : 0 .. MaxStops]
      /\ disturbed' \in BOOLEAN
  <2>1. Happens
      BY EnvironmentIs
  <2> QED
      BY <2>1 DEF Happens, BuildTypeOK
<1>2. ASSUME NEW p \in Parts, NEW c \in Contents \cup {Absent}, Edit(p, c)
      PROVE  BuildTypeOK'
  <2>1. /\ live' \in [Parts -> Contents \cup {Absent}]
        /\ \A q \in Parts \ Removable : live'[q] # Absent
      BY <1>2 DEF Edit, BuildTypeOK
  <2>2. job' \in [Builders -> JobsOf]
      BY <1>2, EditSteps DEF JobsKept
  <2> QED
      BY <1>1, <1>2, <2>1, <2>2 DEF Edit, BuildTypeOK
<1>3. CASE Tampering
  <2>1. job' \in [Builders -> JobsOf]
      BY <1>3, TamperingSteps DEF JobsKept
  <2> QED
      BY <1>1, <1>3, <2>1, TamperingSteps DEF BuildTypeOK
<1> QED
    BY <1>2, <1>3, EnvironmentIs

\* The types are preserved.
LEMMA BuildTypeStep == BuildTypeOK /\ JobInv /\ BuildMove => BuildTypeOK'
<1> SUFFICES ASSUME BuildTypeOK, JobInv, BuildMove PROVE BuildTypeOK'
    OBVIOUS
<1>1. CASE UNCHANGED buildVars
    BY <1>1 DEF buildVars, world, process, ghosts, BuildTypeOK
<1>2. CASE Environment
    BY <1>2, TypeOfEnvironment
<1>3. ASSUME NEW b \in Builders, Start(b) \/ BuildStep(b) \/ GiveUp(b)
      PROVE  BuildTypeOK'
    BY <1>3, TypeOfMoves, TypeOfReads, TypeOfRenames, TypeOfEnds DEF BuildStep
<1> QED
    BY <1>1, <1>2, <1>3 DEF BuildMove

-----------------------------------------------------------------------------
\* A step of a build between taking the lock and publishing the manifest.
Working(b) ==
    \/ ReadConfig(b) \/ Capture(b) \/ ReportClosure(b) \/ Stage(b) \/ Validate(b)
    \/ Compile(b) \/ Recheck(b) \/ PromoteObject(b) \/ PromoteExecutable(b)

\* The end of a build.
Ending(b) == PromoteManifest(b) \/ Refuse(b) \/ Stop(b) \/ GiveUp(b)

\* Every move is one of six.
LEMMA Moves ==
    BuildMove <=> \/ \E b \in Builders : Start(b) \/ Lock(b) \/ Working(b) \/ Ending(b)
                  \/ Environment \/ UNCHANGED buildVars
BY DEF BuildMove, BuildStep, Working, Ending

\* Work moves its builder on, and touches neither lock nor outcome.
LEMMA WorkingSteps ==
    ASSUME BuildTypeOK, NEW b \in Builders, Working(b)
    PROVE  /\ pc[b] \notin Away /\ pc'[b] \notin Away
           /\ \A o \in Builders \ {b} : pc'[o] = pc[o] /\ job'[o] = job[o]
           /\ UNCHANGED <<lock, outcome, live, torn, spent>>
<1>1. PICK step \in Steps \ Away : Goto(b, step)
    BY DEF Working, ReadConfig, Capture, ReportClosure, Stage, Validate, Compile,
           Recheck, PromoteObject, PromoteExecutable, Steps, Away
<1>2. pc'[b] \notin Away /\ \A o \in Builders \ {b} : pc'[o] = pc[o]
    BY <1>1, GotoSteps
<1>3. pc[b] \notin Away
    BY DEF Working, ReadConfig, Capture, ReportClosure, Stage, Validate, Compile,
           Recheck, PromoteObject, PromoteExecutable, Away
<1>4. \A o \in Builders \ {b} : job'[o] = job[o]
    BY DEF Working, ReadConfig, Capture, ReportClosure, Stage, Validate, Compile,
           Recheck, PromoteObject, PromoteExecutable, BuildTypeOK
<1>5. UNCHANGED <<lock, outcome, live, torn, spent>>
    BY DEF Working, ReadConfig, Capture, ReportClosure, Stage, Validate, Compile,
           Recheck, PromoteObject, PromoteExecutable, world, ghosts
<1> QED
    BY <1>2, <1>3, <1>4, <1>5

\* An ending leaves, and touches no file.
LEMMA EndingSteps ==
    ASSUME BuildTypeOK, NEW b \in Builders, Ending(b)
    PROVE  /\ pc[b] # "idle" /\ pc'[b] = "idle"
           /\ lock' = IF lock = b THEN Absent ELSE lock
           /\ \A o \in Builders \ {b} : pc'[o] = pc[o] /\ job'[o] = job[o]
                                     /\ outcome'[o] = outcome[o]
           /\ UNCHANGED world
<1>1. PICK how \in {"built", "failed"} : Leave(b, how)
    BY DEF Ending, PromoteManifest, Refuse, Stop, GiveUp
<1>2. pc[b] # "idle"
    BY DEF Ending, PromoteManifest, Refuse, Refused, Stop, GiveUp
<1>3. UNCHANGED world
    BY DEF Ending, PromoteManifest, Refuse, Stop, GiveUp
<1> QED
    BY <1>1, <1>2, <1>3, LeaveSteps

\* The environment touches no process and nothing published; jobs keep what
\* they have read.
LEMMA EnvironmentSteps ==
    ASSUME BuildTypeOK, Environment
    PROVE  UNCHANGED <<pub, lock, pc, outcome, torn>> /\ disturbed' = TRUE /\ JobsKept
<1>1. ASSUME NEW p \in Parts, NEW c \in Contents \cup {Absent}, Edit(p, c)
      PROVE  UNCHANGED <<pub, lock, pc, outcome, torn>> /\ JobsKept
    BY <1>1, EditSteps DEF Edit
<1>2. disturbed' = TRUE
    BY EnvironmentIs DEF Happens
<1> QED
    BY <1>1, <1>2, TamperingSteps, EnvironmentIs

\* One build at a time is past waiting.
LEMMA HolderIsAlone ==
    ASSUME BuildTypeOK, LockInv, NEW b \in Builders,
           pc[b] \notin Away \/ lock = Absent
    PROVE  \A o \in Builders \ {b} : pc[o] \in Away
BY BuildAssumption DEF LockInv

\* The lock and the outcomes follow the steps.
LEMMA LockStep ==
    BuildTypeOK /\ LockInv /\ OutcomeInv /\ BuildMove => LockInv' /\ OutcomeInv'
<1> USE BuildAssumption
<1> SUFFICES ASSUME BuildTypeOK, LockInv, OutcomeInv, BuildMove
             PROVE  LockInv' /\ OutcomeInv'
    OBVIOUS
<1>1. ASSUME NEW b \in Builders, Start(b)
      PROVE  LockInv' /\ OutcomeInv'
  <2>1. pc'[b] = "waiting" /\ \A o \in Builders \ {b} : pc'[o] = pc[o]
      BY <1>1, GotoSteps DEF Start, Steps
  <2>2. pc[b] = "idle" /\ lock' = lock
      BY <1>1 DEF Start
  <2>3. outcome'[b] = "none" /\ \A o \in Builders \ {b} : outcome'[o] = outcome[o]
      BY <1>1 DEF Start, BuildTypeOK
  <2> QED
      BY <2>1, <2>2, <2>3 DEF LockInv, OutcomeInv, Away
<1>2. ASSUME NEW b \in Builders, Lock(b)
      PROVE  LockInv' /\ OutcomeInv'
  <2>1. pc'[b] = "configure" /\ \A o \in Builders \ {b} : pc'[o] = pc[o]
      BY <1>2, GotoSteps DEF Lock, Steps
  <2>2. pc[b] = "waiting" /\ lock = Absent /\ lock' = b /\ outcome' = outcome
      BY <1>2 DEF Lock
  <2> QED
      BY <2>1, <2>2 DEF LockInv, OutcomeInv, Away
<1>3. ASSUME NEW b \in Builders, Working(b)
      PROVE  LockInv' /\ OutcomeInv'
    BY <1>3, WorkingSteps DEF LockInv, OutcomeInv, Away
<1>4. ASSUME NEW b \in Builders, Ending(b)
      PROVE  LockInv' /\ OutcomeInv'
    BY <1>4, EndingSteps DEF LockInv, OutcomeInv, Away
<1>5. CASE Environment
    BY <1>5, EnvironmentSteps DEF LockInv, OutcomeInv
<1>6. CASE UNCHANGED buildVars
    BY <1>6 DEF buildVars, process, LockInv, OutcomeInv
<1> QED
    BY <1>1, <1>2, <1>3, <1>4, <1>5, <1>6, Moves

-----------------------------------------------------------------------------
\* What JobInv says of one builder.
JobFits(b) == /\ JobIsRead(b) /\ JobIsClean(b) /\ JobIsCompiled(b)
              /\ JobIsExact(b) /\ JobIsPartlyOut(b)

\* Who is not past reading the level has read nothing.
LEMMA NothingRead ==
    \A b \in Builders : pc'[b] \in {"idle", "waiting", "configure"} => JobFits(b)'
BY DEF JobFits, JobIsRead, JobIsClean, JobIsCompiled, JobIsExact, JobIsPartlyOut, HasOpt,
       HasBefore, HasClosed, HasSealed, HasBytes, Promoting

\* The step sets, from each of their steps.
LEMMA StepSets ==
    /\ {"capture"} \subseteq HasOpt \ HasBefore
    /\ {"report"} \subseteq (HasOpt \cap HasBefore) \ HasClosed
    /\ {"stage", "validate"} \subseteq (HasOpt \cap HasBefore \cap HasClosed) \ HasSealed
    /\ {"compile"} \subseteq (HasOpt \cap HasBefore \cap HasClosed \cap HasSealed) \ HasBytes
    /\ {"recheck"} \subseteq (HasOpt \cap HasBefore \cap HasClosed \cap HasSealed \cap HasBytes) \ Promoting
    /\ Promoting = {"object", "executable", "manifest"}
    /\ Promoting \subseteq (HasOpt \cap HasBefore \cap HasClosed \cap HasSealed \cap HasBytes)
    /\ Promoting \cap {"capture", "recheck"} = {}
BY DEF HasOpt, HasBefore, HasClosed, HasSealed, HasBytes, Promoting

\* Reading keeps what it says of its builder.
LEMMA ReadsFit ==
    ASSUME BuildTypeOK, NEW b \in Builders, JobFits(b),
           ReadConfig(b) \/ Capture(b) \/ ReportClosure(b)
    PROVE  JobFits(b)'
<1>1. job[b] \in JobsOf /\ job \in [Builders -> JobsOf] /\ UNCHANGED <<live, pub>>
    BY DEF BuildTypeOK, ReadConfig, Capture, ReportClosure, world
<1>2. CASE ReadConfig(b)
  <2>1. pc'[b] = "capture"
      BY <1>2, GotoSteps DEF ReadConfig, Steps
  <2>2. job'[b].opt = live["project"] /\ live["project"] \in Contents
      BY <1>1, <1>2 DEF ReadConfig, JobsOf, BuildTypeOK, Parts, Removable
  <2> QED
      BY <1>1, <2>1, <2>2, StepSets
      DEF JobFits, JobIsRead, JobIsClean, JobIsCompiled, JobIsExact, JobIsPartlyOut,
          HasBefore, HasClosed, HasSealed, HasBytes, Promoting
<1>3. CASE Capture(b)
  <2>1. pc'[b] = "report" /\ pc[b] = "capture"
      BY <1>3, GotoSteps DEF Capture, Steps
  <2>2. Key(live) \in Keys /\ live["tool"] \in Contents /\ live["script"] \in Contents
      BY <1>3, KeyType DEF Capture, ToolchainExists, Removable, BuildTypeOK, Parts
  <2>3. /\ job'[b].before = Key(live) /\ job'[b].tool = live["tool"]
        /\ job'[b].script = live["script"]
        /\ job'[b].opt = job[b].opt /\ job'[b].raced = job[b].raced
      BY <1>1, <1>3 DEF Capture, JobsOf
  <2>4. Key(live).project = live["project"]
      BY DEF Key
  <2>5. JobIsRead(b)'
      BY <2>1, <2>2, <2>3 DEF JobFits, JobIsRead, HasOpt, HasBefore, HasClosed, HasSealed, HasBytes
  <2>6. JobIsExact(b)'
      BY <1>1, <2>1, <2>3, <2>4 DEF JobFits, JobIsExact, HasOpt, HasBefore, HasClosed, HasSealed, HasBytes
  <2> QED
      BY <2>1, <2>5, <2>6 DEF JobFits, JobIsClean, JobIsCompiled, JobIsPartlyOut, Promoting
<1>4. CASE ReportClosure(b)
  <2>1. pc'[b] = "stage" /\ pc[b] = "report"
      BY <1>4, GotoSteps DEF ReportClosure, Steps
  <2>2. Closure(Key(live)) \in Contents \X Contents
      BY <1>4, KeyType DEF ReportClosure
  <2>3. /\ job'[b].closure = Closure(Key(live)) /\ job'[b].before = job[b].before
        /\ job'[b].tool = job[b].tool /\ job'[b].script = job[b].script
        /\ job'[b].opt = job[b].opt /\ job'[b].raced = job[b].raced
      BY <1>1, <1>4 DEF ReportClosure, JobsOf
  <2>4. JobIsRead(b)'
      BY <2>1, <2>2, <2>3 DEF JobFits, JobIsRead, HasOpt, HasBefore, HasClosed, HasSealed, HasBytes
  <2>5. JobIsExact(b)'
      BY <1>1, <2>1, <2>3 DEF JobFits, JobIsExact, HasOpt, HasBefore, HasBytes, HasSealed, Promoting
  <2> QED
      BY <2>1, <2>4, <2>5 DEF JobFits, JobIsClean, JobIsCompiled, JobIsPartlyOut, Promoting
<1> QED
    BY <1>2, <1>3, <1>4

\* So do staging, sealing and compiling.
LEMMA CompilingFits ==
    ASSUME BuildTypeOK, NEW b \in Builders, JobFits(b),
           Stage(b) \/ Validate(b) \/ Compile(b)
    PROVE  JobFits(b)'
<1>1. job[b] \in JobsOf /\ job \in [Builders -> JobsOf] /\ UNCHANGED <<live, pub>>
    BY DEF BuildTypeOK, Stage, Validate, Compile, world
<1>2. CASE Stage(b)
  <2>1. pc'[b] = "validate" /\ pc[b] = "stage" /\ job' = job
      BY <1>2, GotoSteps DEF Stage, Steps
  <2>2. JobIsRead(b)'
      BY <2>1 DEF JobFits, JobIsRead, HasOpt, HasBefore, HasClosed, HasSealed, HasBytes
  <2>3. JobIsExact(b)'
      BY <1>1, <2>1 DEF JobFits, JobIsExact, HasOpt, HasBefore, HasBytes, HasSealed, Promoting
  <2> QED
      BY <2>1, <2>2, <2>3 DEF JobFits, JobIsClean, JobIsCompiled, JobIsPartlyOut, Promoting
<1>3. CASE Validate(b)
  <2>1. pc'[b] = "compile" /\ pc[b] = "validate" /\ job' = job
        /\ job[b].closure = Closure(job[b].before)
      BY <1>3, GotoSteps DEF Validate, Steps
  <2>2. JobIsRead(b)'
      BY <2>1 DEF JobFits, JobIsRead, HasOpt, HasBefore, HasClosed, HasSealed, HasBytes
  <2>3. JobIsExact(b)'
      BY <1>1, <2>1 DEF JobFits, JobIsExact, HasOpt, HasBefore, HasBytes, HasSealed, Promoting
  <2> QED
      BY <2>1, <2>2, <2>3 DEF JobFits, JobIsClean, JobIsCompiled, JobIsPartlyOut, Promoting
<1>4. CASE Compile(b)
  <2>1. pc'[b] = "recheck" /\ pc[b] = "compile" /\ UNCHANGED <<cached, altered>>
      BY <1>4, GotoSteps DEF Compile, Steps, world
  <2>2. /\ job'[b].before = job[b].before /\ job'[b].tool = job[b].tool
        /\ job'[b].script = job[b].script /\ job'[b].closure = job[b].closure
        /\ job'[b].opt = job[b].opt /\ job'[b].raced = job[b].raced
        /\ job'[b].bytes = [key |-> job[b].before, clean |-> job[b].before \notin altered,
                            opt |-> job[b].opt, tool |-> live["tool"]]
      BY <1>1, <1>4 DEF Compile, JobsOf
  <2>3. /\ job'[b].bytes.key = job[b].before /\ job'[b].bytes.opt = job[b].opt
        /\ job'[b].bytes.tool = live["tool"]
        /\ job'[b].bytes.clean = (job[b].before \notin altered)
      BY <2>2
  <2>4. job[b].before \in Keys /\ job[b].opt \in Contents /\ live["tool"] \in Contents
      BY <1>4, <2>1 DEF Compile, JobFits, JobIsRead, HasBefore, HasOpt, BuildTypeOK, Parts
  <2>5. job'[b].bytes \in Artifacts
      BY <2>2, <2>4 DEF Artifacts
  <2>6. JobIsRead(b)'
      BY <2>1, <2>2, <2>3, <2>4, <2>5
      DEF JobFits, JobIsRead, HasOpt, HasBefore, HasClosed, HasSealed, HasBytes
  <2>7. JobIsExact(b)'
      BY <1>1, <2>1, <2>2, <2>3
      DEF JobFits, JobIsExact, HasOpt, HasBefore, HasBytes, HasSealed, Promoting
  <2>8. JobIsClean(b)' /\ JobIsCompiled(b)'
      BY <1>1, <2>1, <2>2, <2>3 DEF JobIsClean, JobIsCompiled, Promoting
  <2> QED
      BY <2>1, <2>6, <2>7, <2>8 DEF JobFits, JobIsPartlyOut
<1> QED
    BY <1>2, <1>3, <1>4

\* So do the recheck and the renames.
LEMMA PromotingFits ==
    ASSUME BuildTypeOK, NEW b \in Builders, JobFits(b),
           Recheck(b) \/ PromoteObject(b) \/ PromoteExecutable(b)
    PROVE  JobFits(b)'
<1>1. job' = job /\ UNCHANGED <<live, cached, altered>> /\ pub \in [object : Artifacts \cup {Absent},
          executable : Artifacts \cup {Absent}, manifest : Manifests \cup {Absent}]
    BY DEF BuildTypeOK, Recheck, PromoteObject, PromoteExecutable, world
<1>2. pc[b] \in {"recheck", "object", "executable"} /\ pc'[b] \in Promoting
    BY GotoSteps DEF Recheck, PromoteObject, PromoteExecutable, Steps, Promoting
<1>3. JobIsRead(b)'
    BY <1>1, <1>2 DEF JobFits, JobIsRead, HasOpt, HasBefore, HasClosed, HasSealed, HasBytes, Promoting
<1>4. JobIsExact(b)'
    BY <1>1, <1>2 DEF JobFits, JobIsExact, HasOpt, HasBefore, HasBytes, HasSealed, Promoting
<1>5. JobIsClean(b)' /\ JobIsCompiled(b)'
  <2>1. CASE Recheck(b)
      BY <1>1, <1>2, <2>1 DEF Recheck, Unmoved, SnapshotIntact, JobFits, JobIsClean, JobIsCompiled, Promoting
  <2>2. CASE ~Recheck(b)
      BY <1>1, <1>2, <2>2 DEF PromoteObject, PromoteExecutable, JobFits, JobIsClean, JobIsCompiled, Promoting
  <2> QED
      BY <2>1, <2>2
<1>6. JobIsPartlyOut(b)'
  <2>1. CASE Recheck(b)
      BY <2>1, GotoSteps DEF Recheck, Steps, JobIsPartlyOut
  <2>2. CASE PromoteObject(b)
    <3>1. pc'[b] = "executable"
        BY <2>2, GotoSteps DEF PromoteObject, Steps
    <3>2. pub'.object = job[b].bytes
        BY <1>1, <2>2 DEF PromoteObject
    <3> QED
        BY <1>1, <3>1, <3>2 DEF JobIsPartlyOut
  <2>3. CASE PromoteExecutable(b)
    <3>1. pub'.executable = job[b].bytes /\ pub'.object = pub.object /\ pc[b] = "executable"
        BY <1>1, <2>3 DEF PromoteExecutable
    <3> QED
        BY <1>1, <3>1 DEF JobFits, JobIsPartlyOut
  <2> QED
      BY <2>1, <2>2, <2>3
<1> QED
    BY <1>3, <1>4, <1>5, <1>6 DEF JobFits

\* So does the environment: what a build cannot see is a race.
LEMMA EnvironmentFits ==
    ASSUME BuildTypeOK, NEW b \in Builders, JobFits(b), Environment
    PROVE  JobFits(b)'
<1>1. /\ UNCHANGED <<pub, pc>>
      /\ job'[b].opt = job[b].opt /\ job'[b].before = job[b].before
      /\ job'[b].tool = job[b].tool /\ job'[b].script = job[b].script
      /\ job'[b].closure = job[b].closure /\ job'[b].bytes = job[b].bytes
      /\ job[b].raced \subseteq job'[b].raced
    BY EnvironmentSteps DEF JobsKept
<1>2. JobIsRead(b)'
    BY <1>1 DEF JobFits, JobIsRead
<1>3. JobIsPartlyOut(b)'
    BY <1>1 DEF JobFits, JobIsPartlyOut
<1>4. ASSUME pc[b] = "recheck", "snapshot" \notin job'[b].raced,
             job[b].before \notin cached \ altered
      PROVE  job[b].before \notin cached' \ altered'
  <2>1. ASSUME NEW k, Restore(k) \/ PutBack(k)
        PROVE  job[b].before \notin cached' \ altered'
    <3>1. k # job[b].before
        BY <1>4, <2>1, StandsAgainSteps DEF Restore, PutBack
    <3> QED
        BY <1>4, <2>1, <3>1 DEF Restore, PutBack
  <2>2. ASSUME NEW k \in cached, Loosen(k) \/ Alter(k) \/ Discard(k)
        PROVE  job[b].before \notin cached' \ altered'
      BY <1>4, <2>2 DEF Loosen, Alter, Discard
  <2>3. ASSUME NEW p \in Parts, NEW c \in Contents \cup {Absent}, Edit(p, c)
        PROVE  job[b].before \notin cached' \ altered'
      BY <1>4, <2>3 DEF Edit
  <2> QED
      BY <2>1, <2>2, <2>3, EnvironmentIs DEF Tampering
<1>5. JobIsClean(b)'
    BY <1>1, <1>4 DEF JobFits, JobIsClean
<1>6. /\ "level" \notin job'[b].raced /\ pc[b] = "capture" => live'["project"] = live["project"]
      /\ "tool" \notin job'[b].raced /\ pc[b] = "recheck" =>
            live'["tool"] = live["tool"] \/ live'["tool"] # job[b].tool
  <2>1. ASSUME NEW p \in Parts, NEW c \in Contents \cup {Absent}, Edit(p, c)
        PROVE  /\ "level" \notin job'[b].raced /\ pc[b] = "capture" => live'["project"] = live["project"]
               /\ "tool" \notin job'[b].raced /\ pc[b] = "recheck" =>
                     live'["tool"] = live["tool"] \/ live'["tool"] # job[b].tool
    <3>1. Unseen(p, c, b) \subseteq job'[b].raced
        BY <2>1, EditSteps
    <3>2. live' = [live EXCEPT ![p] = c] /\ live \in [Parts -> Contents \cup {Absent}]
        BY <2>1 DEF Edit, BuildTypeOK
    <3> QED
        BY <3>1, <3>2 DEF Unseen, Parts
  <2>2. CASE Tampering
      BY <2>2, TamperingSteps
  <2> QED
      BY <2>1, <2>2, EnvironmentIs
<1>7. JobIsExact(b)' /\ JobIsCompiled(b)'
    BY <1>1, <1>6 DEF JobFits, JobIsExact, JobIsCompiled
<1> QED
    BY <1>2, <1>3, <1>5, <1>7 DEF JobFits

\* The invariant of the jobs is preserved.
LEMMA JobStep == BuildTypeOK /\ LockInv /\ JobInv /\ BuildMove => JobInv'
<1> SUFFICES ASSUME BuildTypeOK, LockInv, JobInv, BuildMove,
                    NEW o \in Builders
             PROVE  JobFits(o)'
    BY DEF JobInv, JobFits
<1>0. JobFits(o)
    BY DEF JobInv, JobFits
<1>1. ASSUME NEW b \in Builders, Start(b)
      PROVE  JobFits(o)'
  <2>1. CASE o = b
    <3>1. pc'[o] = "waiting"
        BY <1>1, <2>1, GotoSteps DEF Start, Steps
    <3> QED
        BY <3>1, NothingRead
  <2>2. CASE o # b
    <3>1. pc'[o] = pc[o] /\ UNCHANGED <<live, cached, altered, pub, job>>
        BY <1>1, <2>2, GotoSteps DEF Start, Steps, world
    <3> QED
        BY <1>0, <3>1 DEF JobFits, JobIsRead, JobIsClean, JobIsCompiled, JobIsExact, JobIsPartlyOut
  <2> QED
      BY <2>1, <2>2
<1>2. ASSUME NEW b \in Builders, Lock(b)
      PROVE  JobFits(o)'
  <2>1. pc'[b] = "configure" /\ (o # b => pc'[o] \in Away)
      BY <1>2, GotoSteps, HolderIsAlone DEF Lock, Steps
  <2> QED
      BY <2>1, NothingRead DEF Away
<1>3. ASSUME NEW b \in Builders, Working(b)
      PROVE  JobFits(o)'
  <2>1. CASE o = b
      BY <1>0, <1>3, <2>1, ReadsFit, CompilingFits, PromotingFits DEF Working
  <2>2. CASE o # b
    <3>1. pc'[o] \in Away
        BY <1>3, <2>2, WorkingSteps, HolderIsAlone
    <3> QED
        BY <3>1, NothingRead DEF Away
  <2> QED
      BY <2>1, <2>2
<1>4. ASSUME NEW b \in Builders, Ending(b)
      PROVE  JobFits(o)'
  <2>1. CASE o = b
      BY <1>4, <2>1, EndingSteps, NothingRead
  <2>2. CASE o # b /\ pc[o] \in Away
      BY <1>4, <2>2, EndingSteps, NothingRead DEF Away
  <2>3. CASE o # b /\ pc[o] \notin Away
    <3>1. pc[b] \in Away
        BY <2>3, HolderIsAlone
    <3>2. pub' = pub
        BY <1>4, <3>1 DEF Ending, PromoteManifest, Refuse, Stop, GiveUp, Away
    <3>3. pc'[o] = pc[o] /\ job'[o] = job[o] /\ UNCHANGED world
        BY <1>4, <2>3, EndingSteps
    <3> QED
        BY <1>0, <3>2, <3>3 DEF JobFits, JobIsRead, JobIsClean, JobIsCompiled, JobIsExact, JobIsPartlyOut, world
  <2> QED
      BY <2>1, <2>2, <2>3
<1>5. CASE Environment
    BY <1>0, <1>5, EnvironmentFits
<1>6. CASE UNCHANGED buildVars
    BY <1>0, <1>6 DEF buildVars, world, process, JobFits, JobIsRead, JobIsClean, JobIsCompiled,
                      JobIsExact, JobIsPartlyOut
<1> QED
    BY <1>1, <1>2, <1>3, <1>4, <1>5, <1>6, Moves

-----------------------------------------------------------------------------
Untouched == [object |-> Absent, executable |-> Absent, manifest |-> Absent]

\* What the last rename publishes.
LEMMA ManifestSteps ==
    ASSUME BuildInv, NEW b \in Builders, PromoteManifest(b)
    PROVE  /\ pub'.manifest = ManifestOf(job[b]) /\ pub'.manifest \in Manifests
           /\ pub'.object = job[b].bytes /\ pub'.executable = job[b].bytes
           /\ Faithful(pub'.manifest)
<1>1. /\ pub' = [pub EXCEPT !.manifest = ManifestOf(job[b])] /\ pc[b] = "manifest"
      /\ pub \in [object : Artifacts \cup {Absent}, executable : Artifacts \cup {Absent},
                  manifest : Manifests \cup {Absent}]
    BY DEF PromoteManifest, BuildInv, BuildTypeOK
<1>2. ManifestOf(job[b]) \in Manifests
    BY <1>1, ManifestType DEF BuildInv
<1>3. pub.object = job[b].bytes /\ pub.executable = job[b].bytes
    BY <1>1 DEF BuildInv, JobInv, JobIsPartlyOut
<1>4. Faithful(ManifestOf(job[b]))
  <2>1. /\ "snapshot" \notin job[b].raced => job[b].bytes.clean
        /\ job[b].bytes.key = job[b].before
        /\ job[b].closure = Closure(job[b].before) /\ job[b].bytes.opt = job[b].opt
      BY <1>1 DEF BuildInv, JobInv, JobIsRead, JobIsClean, HasSealed, HasBytes, Promoting
  <2>2. /\ "tool" \notin job[b].raced => job[b].bytes.tool = job[b].tool
        /\ "level" \notin job[b].raced => job[b].opt = job[b].before.project
      BY <1>1 DEF BuildInv, JobInv, JobIsCompiled, JobIsExact, Promoting, HasBytes, HasSealed, HasBefore, HasOpt
  <2> QED
      BY <2>1, <2>2 DEF Faithful, ManifestOf
<1> QED
    BY <1>1, <1>2, <1>3, <1>4

\* Only the renames publish.
LEMMA NothingPublished ==
    ASSUME BuildTypeOK, BuildMove,
           ~ \E b \in Builders : PromoteObject(b) \/ PromoteExecutable(b) \/ PromoteManifest(b)
    PROVE  pub' = pub
BY EnvironmentSteps
DEF BuildMove, BuildStep, Start, Lock, ReadConfig, Capture, ReportClosure, Stage,
    Validate, Compile, Recheck, Refuse, Stop, GiveUp, buildVars

\* Whoever moves without a rename was not between two renames, or tears.
LEMMA NotBetween ==
    ASSUME BuildTypeOK, BuildMove, ~torn',
           ~ \E b \in Builders : PromoteObject(b) \/ PromoteExecutable(b) \/ PromoteManifest(b),
           \A b \in Builders : pc'[b] \notin {"executable", "manifest"}
    PROVE  ~torn /\ \A b \in Builders : pc[b] \notin {"executable", "manifest"}
<1>1. ASSUME NEW b \in Builders, Start(b) \/ Lock(b)
      PROVE  ~torn /\ \A o \in Builders : pc[o] \notin {"executable", "manifest"}
  <2>1. torn' = torn /\ pc[b] \in Away /\ \A o \in Builders \ {b} : pc'[o] = pc[o]
      BY <1>1, GotoSteps DEF Start, Lock, Steps, Away
  <2> QED
      BY <2>1 DEF Away
<1>2. ASSUME NEW b \in Builders, Working(b)
      PROVE  ~torn /\ \A o \in Builders : pc[o] \notin {"executable", "manifest"}
  <2>1. pc[b] \notin {"executable", "manifest"}
      BY <1>2 DEF Working, ReadConfig, Capture, ReportClosure, Stage, Validate, Compile, Recheck
  <2> QED
      BY <1>2, <2>1, WorkingSteps
<1>3. ASSUME NEW b \in Builders, Ending(b)
      PROVE  ~torn /\ \A o \in Builders : pc[o] \notin {"executable", "manifest"}
  <2>1. ~torn /\ pc[b] \notin {"executable", "manifest"}
    <3>1. CASE Refuse(b)
        BY <3>1 DEF Refuse, Refused
    <3>2. CASE Stop(b)
        BY <3>2 DEF Stop
    <3>3. CASE GiveUp(b)
        BY <3>3 DEF GiveUp, ghosts
    <3> QED
        BY <1>3, <3>1, <3>2, <3>3 DEF Ending
  <2> QED
      BY <1>3, <2>1, EndingSteps
<1>4. CASE Environment
    BY <1>4, EnvironmentSteps
<1>5. CASE UNCHANGED buildVars
    BY <1>5 DEF buildVars, process, ghosts
<1> QED
    BY <1>1, <1>2, <1>3, <1>4, <1>5, Moves

\* The published files stay together and faithful.
LEMMA PublicationStep ==
    BuildInv /\ BuildMove => PublishedTogether' /\ ManifestIsFaithful'
<1> SUFFICES ASSUME BuildInv, BuildMove
             PROVE  PublishedTogether' /\ ManifestIsFaithful'
    OBVIOUS
<1>0. /\ BuildTypeOK /\ PublishedTogether /\ ManifestIsFaithful
      /\ pub \in [object : Artifacts \cup {Absent}, executable : Artifacts \cup {Absent},
                  manifest : Manifests \cup {Absent}]
    BY DEF BuildInv, BuildTypeOK
<1>1. ASSUME NEW b \in Builders, PromoteObject(b) \/ PromoteExecutable(b)
      PROVE  PublishedTogether' /\ ManifestIsFaithful'
  <2>1. pc'[b] \in {"executable", "manifest"}
      BY <1>0, <1>1, GotoSteps DEF PromoteObject, PromoteExecutable, Steps
  <2>2. pub'.manifest = pub.manifest
      BY <1>0, <1>1 DEF PromoteObject, PromoteExecutable
  <2> QED
      BY <1>0, <2>1, <2>2 DEF PublishedTogether, ManifestIsFaithful
<1>2. ASSUME NEW b \in Builders, PromoteManifest(b)
      PROVE  PublishedTogether' /\ ManifestIsFaithful'
  <2>1. pub'.manifest.object = job[b].bytes /\ pub'.manifest.artifact = job[b].bytes
    <3>1. pub'.manifest = ManifestOf(job[b])
        BY <1>2, ManifestSteps
    <3> QED
        BY <3>1 DEF ManifestOf
  <2> QED
      BY <1>2, <2>1, ManifestSteps, AbsentAssumption DEF PublishedTogether, ManifestIsFaithful
<1>3. CASE ~ \E b \in Builders : PromoteObject(b) \/ PromoteExecutable(b) \/ PromoteManifest(b)
  <2>1. pub' = pub
      BY <1>0, <1>3, NothingPublished
  <2>2. ManifestIsFaithful'
      BY <1>0, <2>1 DEF ManifestIsFaithful
  <2>3. PublishedTogether'
      BY <1>0, <1>3, <2>1, NotBetween DEF PublishedTogether
  <2> QED
      BY <2>2, <2>3
<1> QED
    BY <1>1, <1>2, <1>3

\* Builds, edits and stops preserve the invariant.
LEMMA BuildInvStep == BuildInv /\ BuildMove => BuildInv'
BY BuildTypeStep, LockStep, JobStep, PublicationStep DEF BuildInv

-----------------------------------------------------------------------------
\* As long as nothing disturbs what a build has sealed: the build is at its
\* later steps or over, its snapshot stands, and once the recheck has found
\* the trees unmoved they stay so, and are what the manifest then records.
Standing(k) == k \in cached \ (altered \cup loose)

Matches(key, tool, script) ==
    Key(live) = key /\ live["tool"] = tool /\ live["script"] = script

QuietJob(b) ==
    /\ pc[b] \in Away \cup HasSealed
    /\ pc[b] \in HasSealed => Standing(job[b].before)
    /\ pc[b] \in Promoting => Matches(job[b].before, job[b].tool, job[b].script)

QuietManifest(m) ==
    /\ m \in Manifests /\ pub.executable = m.artifact
    /\ Standing(m.key) /\ Matches(m.key, m.tool, m.script)

QuietInv ==
    ~disturbed => /\ \A b \in Builders : QuietJob(b)
                  /\ Settled => QuietManifest(pub.manifest)

\* Initially nothing is sealed.
LEMMA QuietInit == BuildInit => QuietInv
BY DEF BuildInit, QuietInv

\* Nothing that is quiet is disturbed unseen.
LEMMA QuietStep == BuildInv /\ QuietInv /\ BuildMove => QuietInv'
<1> SUFFICES ASSUME BuildInv, QuietInv, BuildMove, ~disturbed'
             PROVE  /\ \A o \in Builders : QuietJob(o)'
                    /\ Settled' => QuietManifest(pub.manifest)'
    BY DEF QuietInv
<1>0. BuildTypeOK /\ LockInv
    BY DEF BuildInv
<1>1. ASSUME NEW b \in Builders, Start(b) \/ GiveUp(b)
      PROVE  QuietInv'
  <2>1. UNCHANGED <<world, pub, disturbed>> /\ pc[b] \in Away /\ pc'[b] \in Away
        /\ \A o \in Builders \ {b} : pc'[o] = pc[o] /\ job'[o] = job[o]
      BY <1>0, <1>1, GotoSteps, LeaveSteps DEF Start, GiveUp, ghosts, Steps, Away
  <2>2. Settled' <=> Settled
      BY <2>1 DEF Settled, Away
  <2>3. \A o \in Builders : QuietJob(o)'
    <3>1. QuietJob(b)'
        BY <2>1 DEF QuietJob, Away, HasSealed, Promoting
    <3>2. ASSUME NEW o \in Builders \ {b} PROVE QuietJob(o)'
      <4>1. QuietJob(o)
          BY <2>1 DEF QuietInv
      <4> QED
          BY <2>1, <4>1 DEF QuietJob, Standing, Matches, Key, world
    <3> QED
        BY <3>1, <3>2
  <2>4. Settled => QuietManifest(pub.manifest)'
      BY <2>1 DEF QuietInv, QuietManifest, Standing, Matches, Key, world
  <2> QED
      BY <2>2, <2>3, <2>4 DEF QuietInv
<1>2. ASSUME NEW b \in Builders, Validate(b)
      PROVE  QuietInv'
  <2>1. pc[b] = "validate" /\ pc'[b] = "compile" /\ job' = job
      BY <1>0, <1>2, GotoSteps DEF Validate, Steps
  <2>2. Standing(job[b].before)'
      BY <1>2, <2>1 DEF Validate, SnapshotIntact, Sealed, Standing
  <2>3. \A o \in Builders \ {b} : pc'[o] \in Away
      BY <1>0, <1>2, <2>1, GotoSteps, HolderIsAlone DEF Validate, Away, Steps
  <2> QED
      BY <2>1, <2>2, <2>3 DEF QuietInv, QuietJob, Settled, Away, HasSealed, Promoting
<1>3. ASSUME NEW b \in Builders, ~disturbed,
             Compile(b) \/ Recheck(b) \/ PromoteObject(b) \/ PromoteExecutable(b)
      PROVE  QuietInv'
  <2>1. /\ UNCHANGED world
        /\ pc[b] \in HasSealed /\ pc'[b] \in HasSealed
        /\ pc'[b] \in Promoting => Recheck(b) \/ pc[b] \in Promoting
      BY <1>0, <1>3, GotoSteps DEF Compile, Recheck, PromoteObject, PromoteExecutable, Steps,
         HasSealed, Promoting
  <2>2. /\ job'[b].before = job[b].before /\ job'[b].tool = job[b].tool
        /\ job'[b].script = job[b].script
      BY <1>0, <1>3 DEF Compile, Recheck, PromoteObject, PromoteExecutable, BuildTypeOK, JobsOf
  <2>3. \A o \in Builders \ {b} : pc'[o] \in Away
      BY <1>0, <1>3, <2>1, WorkingSteps, HolderIsAlone DEF Working, Away, HasSealed
  <2>4. Standing(job[b].before)
      BY <1>3, <2>1 DEF QuietInv, QuietJob
  <2>5. pc'[b] \in Promoting => Matches(job[b].before, job[b].tool, job[b].script)
      BY <1>3, <2>1 DEF QuietInv, QuietJob, Recheck, Unmoved, Matches
  <2>6. QuietJob(b)'
      BY <2>1, <2>2, <2>4, <2>5 DEF QuietJob, Standing, Matches, Key, world
  <2> QED
      BY <2>1, <2>3, <2>6 DEF QuietInv, QuietJob, Settled, Away, HasSealed, Promoting
<1>4. ASSUME NEW b \in Builders, ~disturbed, PromoteManifest(b)
      PROVE  QuietInv'
  <2>1. UNCHANGED world /\ pc[b] = "manifest" /\ pc'[b] = "idle"
      BY <1>0, <1>4, LeaveSteps DEF PromoteManifest
  <2>2. \A o \in Builders \ {b} : pc'[o] \in Away
      BY <1>0, <1>4, <2>1, LeaveSteps, HolderIsAlone DEF PromoteManifest, Away
  <2>3. /\ pub'.manifest \in Manifests /\ pub'.executable = pub'.manifest.artifact
        /\ pub'.manifest.key = job[b].before /\ pub'.manifest.tool = job[b].tool
        /\ pub'.manifest.script = job[b].script
    <3>1. /\ pub'.manifest = ManifestOf(job[b]) /\ pub'.manifest \in Manifests
          /\ pub'.executable = job[b].bytes
        BY <1>4, ManifestSteps
    <3>2. /\ ManifestOf(job[b]).artifact = job[b].bytes
          /\ ManifestOf(job[b]).key = job[b].before
          /\ ManifestOf(job[b]).tool = job[b].tool
          /\ ManifestOf(job[b]).script = job[b].script
        BY DEF ManifestOf
    <3> QED
        BY <3>1, <3>2
  <2>4. Standing(job[b].before) /\ Matches(job[b].before, job[b].tool, job[b].script)
      BY <1>4, <2>1 DEF QuietInv, QuietJob, HasSealed, Promoting
  <2>5. QuietManifest(pub.manifest)'
      BY <2>1, <2>3, <2>4 DEF QuietManifest, Standing, Matches, Key, world
  <2> QED
      BY <2>1, <2>2, <2>5 DEF QuietInv, QuietJob, Away, HasSealed, Promoting
<1>5. ASSUME NEW b \in Builders, disturbed' = disturbed,
             ReadConfig(b) \/ Capture(b) \/ ReportClosure(b) \/ Stage(b)
      PROVE  QuietInv'
  <2>1. pc[b] \notin Away \cup HasSealed
      BY <1>5 DEF ReadConfig, Capture, ReportClosure, Stage, Away, HasSealed
  <2> QED
      BY <1>5, <2>1 DEF QuietInv, QuietJob
<1>6. ASSUME UNCHANGED buildVars
      PROVE  QuietInv'
  <2>1. UNCHANGED <<live, cached, altered, loose, pub, pc, job, disturbed>>
      BY <1>6 DEF buildVars, world, process, ghosts
  <2> QED
      BY <2>1 DEF QuietInv, QuietJob, QuietManifest, Standing, Matches, Key, Settled
<1>7. ASSUME Environment \/ \E b \in Builders : Lock(b) \/ Refuse(b) \/ Stop(b)
      PROVE  FALSE
    BY <1>0, <1>7, EnvironmentSteps DEF Lock, Refuse, Stop
<1>8. QuietInv'
  <2>1. ASSUME NEW b \in Builders, BuildStep(b)
        PROVE  QuietInv'
    <3>1. CASE Lock(b) \/ Refuse(b) \/ Stop(b)
        BY <1>7, <3>1
    <3>2. CASE Validate(b)
        BY <1>2, <3>2
    <3>3. CASE Compile(b) \/ Recheck(b) \/ PromoteObject(b) \/ PromoteExecutable(b)
      <4>1. ~disturbed
          BY <3>3 DEF Compile, Recheck, PromoteObject, PromoteExecutable, ghosts
      <4> QED
          BY <1>3, <3>3, <4>1
    <3>4. CASE PromoteManifest(b)
      <4>1. ~disturbed
          BY <3>4 DEF PromoteManifest
      <4> QED
          BY <1>4, <3>4, <4>1
    <3>5. CASE ReadConfig(b) \/ Capture(b) \/ ReportClosure(b) \/ Stage(b)
      <4>1. disturbed' = disturbed
          BY <3>5 DEF ReadConfig, Capture, ReportClosure, Stage, ghosts
      <4> QED
          BY <1>5, <3>5, <4>1
    <3> QED
        BY <2>1, <3>1, <3>2, <3>3, <3>4, <3>5 DEF BuildStep
  <2> QED
      BY <1>1, <1>6, <1>7, <2>1 DEF BuildMove
<1> QED
    BY <1>8 DEF QuietInv

-----------------------------------------------------------------------------
(***************************************************************************)
(* The freshness check and the validation.                                 *)
(***************************************************************************)

\* Whatever happens, the builds make one of their moves.
LEMMA NextBuilds == [Next]_vars => BuildMove
<1> SUFFICES ASSUME [Next]_vars PROVE BuildMove
    OBVIOUS
<1> USE OwnAssumption
<1>1. ASSUME NEW build \in BOOLEAN, NEW tests \in BOOLEAN, Begin(build, tests)
      PROVE  BuildMove
    BY <1>1 DEF Begin, BuildMove
<1>2. CASE ValidationStep
  <2>1. CASE BuildTimesOut
      BY <2>1 DEF BuildTimesOut, BuildMove, GiveUp
  <2>2. CASE ~BuildTimesOut
      BY <1>2, <2>2 DEF ValidationStep, BuildReturns, ReadsManifest, CheckReturns,
                        CheckTimesOut, RunsTests, WritesReport, BuildMove
  <2> QED
      BY <2>1, <2>2
<1>3. CASE Checking
    BY <1>3 DEF Checking, CheckStep, BuildMove
<1>4. CASE BuildsGoOn
    BY <1>4 DEF BuildsGoOn, BuildMove
<1>5. CASE UNCHANGED vars
    BY <1>5 DEF vars, BuildMove
<1> QED
    BY <1>1, <1>2, <1>3, <1>4, <1>5 DEF Next

\* Nothing is published while the files are settled.
LEMMA SettledKeeps ==
    ASSUME BuildTypeOK, BuildMove, Settled
    PROVE  pub' = pub
<1>1. ~ \E b \in Builders : PromoteObject(b) \/ PromoteExecutable(b) \/ PromoteManifest(b)
    BY DEF Settled, PromoteObject, PromoteExecutable, PromoteManifest
<1> QED
    BY <1>1, NothingPublished

-----------------------------------------------------------------------------
(***************************************************************************)
(* The check.                                                              *)
(***************************************************************************)
Later  == {"pipeline", "snapshot", "closure", "toolchain"}
Hashed == {"inputs"} \cup Later
Begun  == {"binary"} \cup Hashed

IsFresh == check.verdict = "fresh"

\* What the check has established by the step it is at.
CheckFacts ==
    /\ check.at # "done" => check.verdict = "none"
    /\ check.at \in Begun \/ IsFresh =>
          check.manifest \in Manifests /\ Faithful(check.manifest)
    /\ check.at \in Hashed \/ IsFresh => check.executable = check.manifest.artifact
    /\ check.at \in Later \/ IsFresh =>
          /\ check.seen["src"] = check.manifest.key.src
          /\ check.seen["project"] = check.manifest.key.project
    /\ check.at \notin {"toolchain", "done"} => check.seen["dep"] = Absent
    /\ check.at = "toolchain" \/ IsFresh =>
          check.seen["dep"] \in {Absent, check.manifest.key.dep}
    /\ IsFresh => check.seen["tool"] \in {Absent, check.manifest.tool}

\* As long as the check has the files to itself, they are what it has read.
CalmFacts ==
    check.calm =>
        /\ Settled /\ check.verdict # "stale"
        /\ check.at \in Begun \/ IsFresh => check.manifest = pub.manifest

CheckInv == CheckTypeOK /\ CheckFacts /\ CalmFacts

\* A check that has not begun has established nothing.
LEMMA CheckInitHolds == CheckInit => CheckInv
<1> SUFFICES ASSUME CheckInit PROVE CheckInv
    OBVIOUS
<1>1. check = [at |-> "idle", verdict |-> "none", manifest |-> Absent,
               executable |-> Absent, seen |-> NothingSeen, calm |-> FALSE]
    BY DEF CheckInit, CheckIdle
<1>2. NothingSeen \in [Parts -> Contents \cup {Absent}] /\ NothingSeen["dep"] = Absent
    BY DEF NothingSeen, Parts
<1>3. CheckTypeOK
    BY <1>1, <1>2 DEF CheckTypeOK, CheckSteps
<1>4. CheckFacts
    BY <1>1, <1>2 DEF CheckFacts, IsFresh, Begun, Hashed, Later
<1>5. CalmFacts
    BY <1>1 DEF CalmFacts
<1> QED
    BY <1>3, <1>4, <1>5 DEF CheckInv

\* What a check is after it has rejected.
LEMMA Rejected ==
    ASSUME NEW c, c.calm \in BOOLEAN
    PROVE  /\ Reject(c) \in [at : CheckSteps, verdict : {"none", "fresh", "stale"},
                manifest : Manifests \cup {Absent}, executable : Artifacts \cup {Absent},
                seen : [Parts -> Contents \cup {Absent}], calm : BOOLEAN]
           /\ Reject(c).at = "done" /\ Reject(c).verdict = "stale"
           /\ Reject(c).calm = c.calm
<1>1. NothingSeen \in [Parts -> Contents \cup {Absent}]
    BY DEF NothingSeen
<1> QED
    BY <1>1 DEF Reject, CheckIdle, CheckSteps

\* A rejection is consistent, unless the check had the files to itself.
LEMMA RejectionHolds ==
    ASSUME NEW c, c.calm = FALSE, check' = Reject(c)
    PROVE  CheckInv'
<1>0. c.calm \in BOOLEAN
    OBVIOUS
<1>1. CheckTypeOK'
    BY <1>0, Rejected DEF CheckTypeOK
<1>2. check'.at = "done" /\ check'.verdict = "stale" /\ check'.calm = FALSE
    BY <1>0, Rejected
<1> QED
    BY <1>1, <1>2 DEF CheckInv, CheckFacts, CalmFacts, IsFresh, Begun, Hashed, Later

\* The first two steps: the manifest and the executable.
LEMMA BinarySteps ==
    ASSUME BuildInv, QuietInv, CheckInv, UNCHANGED buildVars,
           ReadManifest \/ HashBinary
    PROVE  CheckInv'
<1>0. /\ check \in [at : CheckSteps, verdict : {"none", "fresh", "stale"},
                manifest : Manifests \cup {Absent}, executable : Artifacts \cup {Absent},
                seen : [Parts -> Contents \cup {Absent}], calm : BOOLEAN]
      /\ pub.manifest \in Manifests \cup {Absent} /\ pub.executable \in Artifacts \cup {Absent}
      /\ UNCHANGED <<pub, pc, disturbed>> /\ Settled \in BOOLEAN
    BY DEF CheckInv, CheckTypeOK, BuildInv, BuildTypeOK, buildVars, process, ghosts, Settled
<1>1. Settled' <=> Settled
    BY <1>0 DEF Settled
<1>2. Settled => QuietManifest(pub.manifest)
    BY DEF Settled, QuietInv
<1>3. CASE ReadManifest
  <2> DEFINE c == [check EXCEPT !.manifest = pub.manifest, !.calm = Settled]
  <2>1. c.calm = Settled
      BY <1>0
  <2>2. CASE ~(pub.manifest # Absent /\ pub.executable # Absent)
    <3>1. check' = Reject(c)
        BY <1>3, <2>2 DEF ReadManifest
    <3>2. ~Settled
        BY <1>2, <2>2, AbsentAssumption DEF QuietManifest, Manifests
    <3>3. c.calm = FALSE
        BY <1>0, <2>1, <3>2
    <3> HIDE DEF c
    <3> QED
        BY <3>1, <3>3, RejectionHolds
  <2>3. CASE pub.manifest # Absent /\ pub.executable # Absent
    <3>1. check' = [c EXCEPT !.at = "binary"] /\ check.at = "idle"
        BY <1>3, <2>3 DEF ReadManifest
    <3>2. /\ check'.at = "binary" /\ check'.verdict = check.verdict
          /\ check'.manifest = pub.manifest /\ check'.seen = check.seen
          /\ check'.calm = Settled
        BY <1>0, <3>1
    <3>3. CheckTypeOK'
        BY <1>0, <3>1 DEF CheckTypeOK, CheckSteps
    <3>4. pub.manifest \in Manifests /\ Faithful(pub.manifest)
        BY <1>0, <2>3 DEF BuildInv, ManifestIsFaithful
    <3>5. CheckFacts'
        BY <3>1, <3>2, <3>4 DEF CheckInv, CheckFacts, IsFresh, Begun, Hashed, Later
    <3>6. CalmFacts'
        BY <1>0, <1>1, <3>1, <3>2 DEF CheckInv, CheckFacts, CalmFacts
    <3> QED
        BY <3>3, <3>5, <3>6 DEF CheckInv
  <2> QED
      BY <2>2, <2>3
<1>4. CASE HashBinary
  <2> DEFINE c == [check EXCEPT !.executable = pub.executable]
  <2>1. c.calm = check.calm
      BY <1>0
  <2>2. CASE pub.executable # check.manifest.artifact
    <3>1. check' = Reject(c) /\ check.at = "binary"
        BY <1>4, <2>2 DEF HashBinary
    <3>2. ~check.calm
        BY <1>2, <2>2, <3>1 DEF CheckInv, CalmFacts, Begun, QuietManifest
    <3>3. c.calm = FALSE
        BY <1>0, <2>1, <3>2
    <3> HIDE DEF c
    <3> QED
        BY <3>1, <3>3, RejectionHolds
  <2>3. CASE pub.executable = check.manifest.artifact
    <3>1. check' = [c EXCEPT !.at = "inputs"] /\ check.at = "binary"
        BY <1>4, <2>3 DEF HashBinary
    <3>2. /\ check'.at = "inputs" /\ check'.verdict = check.verdict
          /\ check'.manifest = check.manifest /\ check'.seen = check.seen
          /\ check'.calm = check.calm /\ check'.executable = check.manifest.artifact
        BY <1>0, <2>3, <3>1
    <3>3. CheckTypeOK'
        BY <1>0, <3>1 DEF CheckTypeOK, CheckSteps
    <3>4. CheckFacts'
        BY <3>1, <3>2 DEF CheckInv, CheckFacts, IsFresh, Begun, Hashed, Later
    <3>5. CalmFacts'
        BY <1>0, <1>1, <3>1, <3>2 DEF CheckInv, CheckFacts, CalmFacts, Begun
    <3> QED
        BY <3>3, <3>4, <3>5 DEF CheckInv
  <2> QED
      BY <2>2, <2>3
<1> QED
    BY <1>3, <1>4

\* What the check is after a test that holds: it has read some parts.
ReadsOn(next, parts) ==
    check' = [[check EXCEPT !.seen = [p \in Parts |->
                  IF p \in parts THEN live[p] ELSE check.seen[p]]] EXCEPT !.at = next]

\* What a test that holds leaves alone.
LEMMA ReadingOn ==
    ASSUME BuildTypeOK, CheckTypeOK, NEW next \in CheckSteps, NEW parts, ReadsOn(next, parts)
    PROVE  /\ CheckTypeOK' /\ check'.at = next
           /\ check'.verdict = check.verdict /\ check'.manifest = check.manifest
           /\ check'.executable = check.executable /\ check'.calm = check.calm
           /\ \A p \in Parts :
                 check'.seen[p] = IF p \in parts THEN live[p] ELSE check.seen[p]
<1> DEFINE s == [p \in Parts |-> IF p \in parts THEN live[p] ELSE check.seen[p]]
<1>1. s \in [Parts -> Contents \cup {Absent}]
    BY DEF CheckTypeOK, BuildTypeOK
<1>2. \A p \in Parts : s[p] = IF p \in parts THEN live[p] ELSE check.seen[p]
    OBVIOUS
<1>3. check' = [[check EXCEPT !.seen = s] EXCEPT !.at = next]
    BY DEF ReadsOn
<1> HIDE DEF s
<1>4. /\ check' \in [at : CheckSteps, verdict : {"none", "fresh", "stale"},
              manifest : Manifests \cup {Absent}, executable : Artifacts \cup {Absent},
              seen : [Parts -> Contents \cup {Absent}], calm : BOOLEAN]
      /\ check'.at = next /\ check'.seen = s
      /\ check'.verdict = check.verdict /\ check'.manifest = check.manifest
      /\ check'.executable = check.executable /\ check'.calm = check.calm
    BY <1>1, <1>3 DEF CheckTypeOK
<1> QED
    BY <1>2, <1>4 DEF CheckTypeOK

\* Once the check has the files to itself they are as the manifest says, so
\* that none of its tests fails.
LEMMA CalmFiles ==
    ASSUME QuietInv, CheckInv, check.calm, check.at \in Begun
    PROVE  QuietManifest(check.manifest)
BY DEF CheckInv, CalmFacts, QuietInv, Settled

\* The tests between the executable and the compiler.
LEMMA TestSteps ==
    ASSUME BuildInv, QuietInv, CheckInv, UNCHANGED buildVars,
           HashInputs \/ HashPipeline \/ VerifySnapshot \/ VerifyClosure
    PROVE  CheckInv'
<1>0. /\ BuildTypeOK /\ CheckTypeOK /\ CheckFacts /\ CalmFacts /\ check.calm \in BOOLEAN
      /\ UNCHANGED <<pub, pc, disturbed>>
    BY DEF CheckInv, CheckTypeOK, BuildInv, buildVars, process, ghosts
<1>1. Settled' <=> Settled
    BY <1>0 DEF Settled
<1>2. ASSUME NEW parts, NEW c, check.at \in Begun, check' = Reject(c),
             c = [check EXCEPT !.seen = [p \in Parts |->
                     IF p \in parts THEN live[p] ELSE check.seen[p]]],
             ~QuietManifest(check.manifest)
      PROVE  CheckInv'
  <2>1. c.calm = check.calm
      BY <1>0, <1>2 DEF CheckTypeOK
  <2>2. c.calm = FALSE
      BY <1>0, <1>2, <2>1, CalmFiles
  <2> QED
      BY <1>2, <2>2, RejectionHolds
<1>3. CASE HashInputs
  <2>1. check.at = "inputs"
      BY <1>3 DEF HashInputs, Test
  <2>2. CASE live["src"] = check.manifest.key.src /\ live["project"] = check.manifest.key.project
    <3>1. ReadsOn("pipeline", {"src", "project"})
        BY <1>3, <2>2 DEF HashInputs, Test, ReadsOn
    <3>2. /\ CheckTypeOK' /\ check'.at = "pipeline" /\ check'.verdict = check.verdict
          /\ check'.manifest = check.manifest /\ check'.executable = check.executable
          /\ check'.calm = check.calm /\ check'.seen["dep"] = check.seen["dep"]
          /\ check'.seen["src"] = live["src"] /\ check'.seen["project"] = live["project"]
        BY <1>0, <3>1, ReadingOn DEF CheckSteps, Parts
    <3>3. CheckFacts'
        BY <1>0, <2>1, <2>2, <3>2 DEF CheckFacts, IsFresh, Begun, Hashed, Later
    <3>4. CalmFacts'
        BY <1>0, <1>1, <2>1, <3>2 DEF CheckFacts, CalmFacts, Begun, Hashed, Later
    <3> QED
        BY <3>2, <3>3, <3>4 DEF CheckInv
  <2>3. CASE ~(live["src"] = check.manifest.key.src /\ live["project"] = check.manifest.key.project)
    <3>1. ~QuietManifest(check.manifest)
        BY <2>3 DEF QuietManifest, Matches, Key
    <3> QED
        BY <1>2, <1>3, <2>1, <2>3, <3>1 DEF HashInputs, Test, Begun, Hashed
  <2> QED
      BY <2>2, <2>3
<1>4. CASE HashPipeline
  <2>1. check.at = "pipeline"
      BY <1>4 DEF HashPipeline, Test
  <2>2. CASE live["script"] = check.manifest.script /\ live["project"] = check.manifest.key.project
    <3>1. ReadsOn("snapshot", {"script"})
        BY <1>4, <2>2 DEF HashPipeline, Test, ReadsOn
    <3>2. /\ CheckTypeOK' /\ check'.at = "snapshot" /\ check'.verdict = check.verdict
          /\ check'.manifest = check.manifest /\ check'.executable = check.executable
          /\ check'.calm = check.calm /\ check'.seen["dep"] = check.seen["dep"]
          /\ check'.seen["src"] = check.seen["src"]
          /\ check'.seen["project"] = check.seen["project"]
        BY <1>0, <3>1, ReadingOn DEF CheckSteps, Parts
    <3>3. CheckFacts'
        BY <1>0, <2>1, <3>2 DEF CheckFacts, IsFresh, Begun, Hashed, Later
    <3>4. CalmFacts'
        BY <1>0, <1>1, <2>1, <3>2 DEF CheckFacts, CalmFacts, Begun, Hashed, Later
    <3> QED
        BY <3>2, <3>3, <3>4 DEF CheckInv
  <2>3. CASE ~(live["script"] = check.manifest.script /\ live["project"] = check.manifest.key.project)
    <3>1. ~QuietManifest(check.manifest)
        BY <2>3 DEF QuietManifest, Matches, Key
    <3> QED
        BY <1>2, <1>4, <2>1, <2>3, <3>1 DEF HashPipeline, Test, Begun, Hashed, Later
  <2> QED
      BY <2>2, <2>3
<1>5. CASE VerifySnapshot
  <2> DEFINE holds == SnapshotStands(check.manifest.key)
                      /\ check.manifest.closure = Closure(check.manifest.key)
  <2>1. check.at = "snapshot"
      BY <1>5 DEF VerifySnapshot, Test
  <2>2. CASE holds
    <3>1. ReadsOn("closure", {})
        BY <1>5, <2>2 DEF VerifySnapshot, Test, ReadsOn
    <3>2. /\ CheckTypeOK' /\ check'.at = "closure" /\ check'.verdict = check.verdict
          /\ check'.manifest = check.manifest /\ check'.executable = check.executable
          /\ check'.calm = check.calm /\ check'.seen["dep"] = check.seen["dep"]
          /\ check'.seen["src"] = check.seen["src"]
          /\ check'.seen["project"] = check.seen["project"]
        BY <1>0, <3>1, ReadingOn DEF CheckSteps, Parts
    <3>3. CheckFacts'
        BY <1>0, <2>1, <3>2 DEF CheckFacts, IsFresh, Begun, Hashed, Later
    <3>4. CalmFacts'
        BY <1>0, <1>1, <2>1, <3>2 DEF CheckFacts, CalmFacts, Begun, Hashed, Later
    <3> QED
        BY <3>2, <3>3, <3>4 DEF CheckInv
  <2>3. CASE ~holds
    <3>1. Faithful(check.manifest)
        BY <1>0, <2>1 DEF CheckFacts, Begun, Hashed, Later
    <3>2. ~QuietManifest(check.manifest)
        BY <2>3, <3>1 DEF QuietManifest, SnapshotStands, Standing, Faithful
    <3> DEFINE c == [check EXCEPT !.seen = [p \in Parts |->
                        IF p \in {} THEN live[p] ELSE check.seen[p]]]
    <3>3. check' = Reject(c)
        BY <1>5, <2>3 DEF VerifySnapshot, Test
    <3>4. c.calm = FALSE
        BY <1>0, <2>1, <3>2, CalmFiles DEF Begun, Hashed, Later, CheckTypeOK
    <3> HIDE DEF c
    <3> QED
        BY <3>3, <3>4, RejectionHolds
  <2> QED
      BY <2>2, <2>3
<1>6. CASE VerifyClosure
  <2> DEFINE parts == IF ToolchainExists THEN {"src", "dep"} ELSE {}
  <2>1. check.at = "closure"
      BY <1>6 DEF VerifyClosure, Test
  <2>2. check.manifest \in Manifests /\ Faithful(check.manifest)
      BY <1>0, <2>1 DEF CheckFacts, Begun, Hashed, Later
  <2>3. CASE ClosureHolds
    <3>1. ReadsOn("toolchain", parts)
        BY <1>6, <2>3 DEF VerifyClosure, Test, ReadsOn
    <3>2. /\ CheckTypeOK' /\ check'.at = "toolchain" /\ check'.verdict = check.verdict
          /\ check'.manifest = check.manifest /\ check'.executable = check.executable
          /\ check'.calm = check.calm
          /\ \A p \in Parts : check'.seen[p] = IF p \in parts THEN live[p] ELSE check.seen[p]
        BY <1>0, <3>1, ReadingOn DEF CheckSteps
    <3>3. check'.seen["project"] = check.seen["project"]
        BY <3>2 DEF Parts
    <3>4. ToolchainExists => /\ live["src"] = check.manifest.key.src
                             /\ live["dep"] = check.manifest.key.dep
        BY <2>2, <2>3 DEF ClosureHolds, Faithful, Closure, Key
    <3>5. /\ check'.seen["src"] = check.manifest.key.src
          /\ check'.seen["dep"] \in {Absent, check.manifest.key.dep}
        BY <1>0, <2>1, <3>2, <3>4 DEF Parts, CheckFacts, Later
    <3>6. CheckFacts'
        BY <1>0, <2>1, <3>2, <3>3, <3>5 DEF CheckFacts, IsFresh, Begun, Hashed, Later
    <3>7. CalmFacts'
        BY <1>0, <1>1, <2>1, <3>2 DEF CheckFacts, CalmFacts, Begun, Hashed, Later
    <3> QED
        BY <3>2, <3>6, <3>7 DEF CheckInv
  <2>4. CASE ~ClosureHolds
    <3>1. ~QuietManifest(check.manifest)
        BY <2>2, <2>4 DEF QuietManifest, Matches, ClosureHolds, Faithful
    <3> QED
        BY <1>2, <1>6, <2>1, <2>4, <3>1 DEF VerifyClosure, Test, Begun, Hashed, Later
  <2> QED
      BY <2>3, <2>4
<1> QED
    BY <1>3, <1>4, <1>5, <1>6

\* The last step: the compiler.
LEMMA VerdictStep ==
    ASSUME BuildInv, QuietInv, CheckInv, UNCHANGED buildVars, HashToolchain
    PROVE  CheckInv'
<1> DEFINE c == [check EXCEPT !.seen["tool"] = live["tool"]]
<1>0. /\ BuildTypeOK /\ CheckTypeOK /\ CheckFacts /\ CalmFacts /\ check.calm \in BOOLEAN
      /\ UNCHANGED <<pub, pc, disturbed>> /\ check.at = "toolchain"
    BY DEF CheckInv, CheckTypeOK, BuildInv, buildVars, process, ghosts, HashToolchain
<1>1. Settled' <=> Settled
    BY <1>0 DEF Settled
<1>2. /\ c \in [at : CheckSteps, verdict : {"none", "fresh", "stale"},
              manifest : Manifests \cup {Absent}, executable : Artifacts \cup {Absent},
              seen : [Parts -> Contents \cup {Absent}], calm : BOOLEAN]
      /\ c.manifest = check.manifest /\ c.executable = check.executable
      /\ c.calm = check.calm /\ c.seen["tool"] = live["tool"]
      /\ \A p \in {"src", "project", "dep"} : c.seen[p] = check.seen[p]
    BY <1>0 DEF CheckTypeOK, BuildTypeOK, Parts
<1>3. CASE live["tool"] \in {Absent, check.manifest.tool}
  <2>1. check' = [c EXCEPT !.at = "done", !.verdict = "fresh"]
      BY <1>3 DEF HashToolchain
  <2> HIDE DEF c
  <2>2. /\ CheckTypeOK' /\ check'.at = "done" /\ check'.verdict = "fresh"
        /\ check'.manifest = check.manifest /\ check'.executable = check.executable
        /\ check'.calm = check.calm /\ check'.seen = c.seen
      BY <1>2, <2>1 DEF CheckTypeOK, CheckSteps
  <2>3. CheckFacts'
      BY <1>0, <1>2, <1>3, <2>2 DEF CheckFacts, IsFresh, Begun, Hashed, Later
  <2>4. CalmFacts'
      BY <1>0, <1>1, <2>2 DEF CheckFacts, CalmFacts, Begun, Hashed, Later
  <2> QED
      BY <2>2, <2>3, <2>4 DEF CheckInv
<1>4. CASE live["tool"] \notin {Absent, check.manifest.tool}
  <2>1. check' = Reject(c)
      BY <1>4 DEF HashToolchain
  <2>2. ~QuietManifest(check.manifest)
      BY <1>4 DEF QuietManifest, Matches
  <2>3. c.calm = FALSE
      BY <1>0, <1>2, <2>2, CalmFiles DEF Begun, Hashed, Later
  <2> HIDE DEF c
  <2> QED
      BY <2>1, <2>3, RejectionHolds
<1> QED
    BY <1>3, <1>4

\* What others do reaches the check only as unrest.
LEMMA WatchedStep ==
    ASSUME BuildInv, CheckInv, BuildMove,
           \/ check' = [check EXCEPT !.calm = @ /\ Settled']
           \/ check' = check /\ (Settled => Settled')
    PROVE  CheckInv'
<1>0. /\ BuildTypeOK /\ CheckFacts /\ CalmFacts
      /\ check \in [at : CheckSteps, verdict : {"none", "fresh", "stale"},
                manifest : Manifests \cup {Absent}, executable : Artifacts \cup {Absent},
                seen : [Parts -> Contents \cup {Absent}], calm : BOOLEAN]
    BY DEF CheckInv, CheckTypeOK, BuildInv
<1>1. Settled' \in BOOLEAN
    BY DEF Settled
<1>2. /\ check'.at = check.at /\ check'.verdict = check.verdict
      /\ check'.manifest = check.manifest /\ check'.executable = check.executable
      /\ check'.seen = check.seen
    BY <1>0
<1>3. check'.calm => check.calm /\ Settled'
    BY <1>0, <1>1 DEF CalmFacts
<1>4. CheckTypeOK'
    BY <1>0, <1>1 DEF CheckTypeOK
<1>5. CheckFacts'
    BY <1>0, <1>2 DEF CheckFacts, IsFresh
<1>6. CalmFacts'
    BY <1>0, <1>2, <1>3, SettledKeeps DEF CalmFacts, IsFresh
<1> QED
    BY <1>4, <1>5, <1>6 DEF CheckInv

\* A check that is given up has established nothing.
LEMMA GivenUp ==
    ASSUME check' = [CheckIdle EXCEPT !.at = "done"]
    PROVE  CheckInv'
<1>1. NothingSeen \in [Parts -> Contents \cup {Absent}]
    BY DEF NothingSeen
<1>2. /\ check' \in [at : CheckSteps, verdict : {"none", "fresh", "stale"},
              manifest : Manifests \cup {Absent}, executable : Artifacts \cup {Absent},
              seen : [Parts -> Contents \cup {Absent}], calm : BOOLEAN]
      /\ check'.at = "done" /\ check'.verdict = "none" /\ check'.calm = FALSE
    BY <1>1 DEF CheckIdle, CheckSteps
<1> QED
    BY <1>2 DEF CheckInv, CheckTypeOK, CheckFacts, CalmFacts, IsFresh, Begun, Hashed, Later

\* A build that only waited leaves the files settled.
LEMMA GiveUpSettles ==
    ASSUME BuildTypeOK, NEW b \in Builders, GiveUp(b), Settled
    PROVE  Settled'
<1>1. pc'[b] = "idle" /\ \A o \in Builders \ {b} : pc'[o] = pc[o]
    BY LeaveSteps DEF GiveUp
<1> QED
    BY <1>1 DEF Settled, GiveUp, ghosts

\* The check's invariant is preserved by every step of the system.
LEMMA CheckStepHolds ==
    BuildInv /\ QuietInv /\ CheckInv /\ [Next]_vars => CheckInv'
<1> SUFFICES ASSUME BuildInv, QuietInv, CheckInv, [Next]_vars PROVE CheckInv'
    OBVIOUS
<1> USE OwnAssumption
<1>0. BuildMove /\ BuildTypeOK
    BY NextBuilds DEF BuildInv
<1>1. ASSUME UNCHANGED <<buildVars, check>> PROVE CheckInv'
  <2>1. Settled' <=> Settled
      BY <1>1 DEF buildVars, process, ghosts, Settled
  <2> QED
      BY <1>0, <1>1, <2>1, WatchedStep
<1>2. ASSUME NEW build \in BOOLEAN, NEW tests \in BOOLEAN, Begin(build, tests)
      PROVE  CheckInv'
    BY <1>0, <1>1, <1>2, WatchedStep DEF Begin, CheckWatches
<1>3. CASE ValidationStep
  <2>1. CASE BuildTimesOut
    <3>1. CASE pc[Own] = "waiting"
      <4>1. GiveUp(Own) /\ check' = check
          BY <2>1, <3>1 DEF BuildTimesOut, GiveUp
      <4> QED
          BY <1>0, <4>1, GiveUpSettles, WatchedStep
    <3>2. CASE pc[Own] # "waiting"
        BY <1>1, <2>1, <3>2 DEF BuildTimesOut
    <3> QED
        BY <3>1, <3>2
  <2>2. CASE CheckTimesOut
      BY <2>2, GivenUp DEF CheckTimesOut
  <2>3. CASE BuildReturns \/ ReadsManifest \/ CheckReturns \/ RunsTests \/ WritesReport
      BY <1>1, <2>3 DEF BuildReturns, ReadsManifest, CheckReturns, RunsTests, WritesReport
  <2> QED
      BY <1>3, <2>1, <2>2, <2>3 DEF ValidationStep
<1>4. CASE Checking
    BY <1>4, BinarySteps, TestSteps, VerdictStep DEF Checking, CheckStep
<1>5. CASE BuildsGoOn
    BY <1>0, <1>5, WatchedStep DEF BuildsGoOn, CheckWatches
<1>6. CASE UNCHANGED vars
    BY <1>1, <1>6 DEF vars
<1> QED
    BY <1>2, <1>3, <1>4, <1>5, <1>6 DEF Next

\* A verdict of fresh is sound.
LEMMA CheckIsSound == CheckInv => FreshIsSound
<1> SUFFICES ASSUME CheckInv, IsFresh
             PROVE  FreshIsSound
    BY DEF FreshIsSound, IsFresh
<1>1. check.manifest.artifact \in Artifacts
    BY DEF CheckInv, CheckFacts, Manifests
<1> QED
    BY <1>1, AbsentAssumption DEF CheckInv, CheckFacts, FreshIsSound, Faithful

\* A calm check does not reject.
LEMMA CheckIsCalm == CheckInv => FreshAfterBuild
BY DEF CheckInv, CalmFacts, FreshAfterBuild

-----------------------------------------------------------------------------
(***************************************************************************)
(* The validation.                                                         *)
(***************************************************************************)
\* What the validation knows by the step it is at.
ValKnows ==
    /\ val.at \in {"idle", "building", "reading"} => check.at = "idle" /\ check.verdict = "none"
    /\ val.at \in {"idle", "building"} => val.built = FALSE \/ val.build = FALSE
    /\ val.built = TRUE /\ val.build = TRUE => outcome[Own] = "built"
    /\ val.fresh = TRUE => IsFresh /\ val.at \in {"testing", "reporting", "done"}
    /\ val.status = "validated" => /\ val.at = "done" /\ val.build = TRUE /\ val.tests = TRUE
                                   /\ val.built = TRUE /\ val.fresh = TRUE

\* What it has read, as long as nothing else happens.
ValReads ==
    val.calm = TRUE =>
        /\ Settled
        /\ val.at \in {"checking", "testing", "reporting", "done"} =>
              val.manifest = pub.manifest
        /\ check.at \in Begun \/ IsFresh => check.manifest = pub.manifest
        /\ val.tests = TRUE /\ val.at \in {"reporting", "done"} =>
              val.tested = pub.executable

ValInv == ValTypeOK /\ ValKnows /\ ValReads

\* A validation that has not begun knows nothing.
LEMMA ValInitHolds == Init => ValInv
<1> SUFFICES ASSUME Init PROVE ValInv
    OBVIOUS
<1>1. val = [at |-> "idle", build |-> FALSE, tests |-> FALSE, built |-> FALSE,
             fresh |-> FALSE, passed |-> FALSE, manifest |-> Absent,
             tested |-> Absent, status |-> "none", calm |-> FALSE]
    BY DEF Init, ValIdle
<1>2. check.at = "idle" /\ check.verdict = "none"
    BY DEF Init, CheckInit, CheckIdle
<1>3. ValTypeOK
    BY <1>1 DEF ValTypeOK, Statuses
<1> QED
    BY <1>1, <1>2, <1>3 DEF ValInv, ValKnows, ValReads

\* What a validated report says of executable and sources.
LEMMA ReportIsHonest == QuietInv /\ ValInv => ValidatedReportIsHonest
<1> SUFFICES ASSUME QuietInv, ValInv, val.status = "validated"
             PROVE  ValidatedReportIsHonest
    BY DEF ValidatedReportIsHonest
<1>1. /\ val.build = TRUE /\ val.tests = TRUE /\ outcome[Own] = "built"
      /\ check.verdict = "fresh" /\ val.at = "done"
    BY DEF ValInv, ValKnows, IsFresh
<1>2. val.calm \in BOOLEAN
    BY DEF ValInv, ValTypeOK
<1>3. val.calm = TRUE => /\ QuietManifest(pub.manifest) /\ val.manifest = pub.manifest
                         /\ check.manifest = pub.manifest /\ val.tested = pub.executable
    BY <1>1 DEF ValInv, ValReads, QuietInv, Settled, IsFresh
<1> QED
    BY <1>1, <1>2, <1>3 DEF ValidatedReportIsHonest, QuietManifest, Matches

ValRecords ==
    [at : {"idle", "building", "reading", "checking", "testing", "reporting", "done"},
     build : BOOLEAN, tests : BOOLEAN, built : BOOLEAN, fresh : BOOLEAN,
     passed : BOOLEAN, manifest : Manifests \cup {Absent},
     tested : Artifacts \cup {Absent}, status : Statuses, calm : BOOLEAN]

\* The validation begins.
LEMMA BeginHolds ==
    ASSUME BuildInv, CheckInv, ValInv, BuildMove,
           NEW build \in BOOLEAN, NEW tests \in BOOLEAN, Begin(build, tests)
    PROVE  ValInv'
<1> USE OwnAssumption
<1>0. val \in ValRecords /\ val.at = "idle" /\ BuildTypeOK /\ CheckTypeOK /\ Settled \in BOOLEAN
    BY DEF ValInv, ValTypeOK, ValRecords, Begin, BuildInv, CheckInv, Settled
<1>1. check.at = "idle" /\ check.verdict = "none"
    BY <1>0 DEF ValInv, ValKnows
<1>2. /\ val' \in ValRecords /\ val'.at \in {"building", "reading"}
      /\ val'.build = build /\ val'.built = ~build
      /\ val'.fresh = val.fresh /\ val'.status = val.status /\ val'.calm = Settled
      /\ val'.at = "reading" => build = FALSE
  <2> DEFINE at == IF build THEN "building" ELSE "reading"
  <2>1. val' = [val EXCEPT !.at = at, !.build = build, !.tests = tests, !.built = ~build,
                           !.calm = Settled]
      BY DEF Begin
  <2>2. at \in {"building", "reading"} /\ (at = "reading" => build = FALSE)
      OBVIOUS
  <2> HIDE DEF at
  <2>3. val' \in ValRecords
      BY <1>0, <2>1, <2>2 DEF ValRecords
  <2>4. /\ val'.at = at /\ val'.build = build /\ val'.built = ~build
        /\ val'.fresh = val.fresh /\ val'.status = val.status /\ val'.calm = Settled
      BY <1>0, <2>1 DEF ValRecords
  <2> QED
      BY <2>2, <2>3, <2>4
<1>3. check'.at = "idle" /\ check'.verdict = "none"
    BY <1>0, <1>1 DEF Begin, CheckWatches, CheckTypeOK
<1>4. val.fresh # TRUE /\ val.status # "validated"
    BY <1>0 DEF ValInv, ValKnows
<1>5. Settled => Settled'
  <2>1. CASE build = FALSE
      BY <2>1 DEF Begin, buildVars, process, ghosts, Settled
  <2>2. CASE build = TRUE
    <3>1. Start(Own)
        BY <2>2 DEF Begin
    <3>2. pc'[Own] = "waiting" /\ \A o \in Builders \ {Own} : pc'[o] = pc[o]
        BY <1>0, <3>1, GotoSteps DEF Start, Steps
    <3> QED
        BY <3>1, <3>2 DEF Start, Settled
  <2> QED
      BY <2>1, <2>2
<1>6. ValKnows'
    BY <1>2, <1>3, <1>4 DEF ValKnows, IsFresh
<1>7. ValReads'
    BY <1>2, <1>3, <1>5 DEF ValReads, IsFresh, Begun, Hashed, Later
<1> QED
    BY <1>2, <1>6, <1>7 DEF ValInv, ValTypeOK, ValRecords

\* The build returns, or is given up.
LEMMA BuildPhaseHolds ==
    ASSUME BuildInv, CheckInv, ValInv, BuildMove, BuildReturns \/ BuildTimesOut
    PROVE  ValInv'
<1> USE OwnAssumption
<1>0. val \in ValRecords /\ val.at = "building" /\ BuildTypeOK /\ Settled \in BOOLEAN
    BY DEF ValInv, ValTypeOK, ValRecords, BuildReturns, BuildTimesOut, BuildInv, Settled
<1>1. check' = check /\ check.at = "idle" /\ check.verdict = "none"
    BY <1>0 DEF ValInv, ValKnows, BuildReturns, BuildTimesOut
<1>2. /\ val' \in ValRecords /\ val'.at = "reading" /\ val'.build = val.build
      /\ val'.fresh = val.fresh /\ val'.status = val.status
    BY <1>0 DEF ValRecords, BuildReturns, BuildTimesOut, BuildSucceeded
<1>3. val.fresh # TRUE /\ val.status # "validated"
    BY <1>0 DEF ValInv, ValKnows
<1>4. val'.built = TRUE => outcome'[Own] = "built"
  <2>1. CASE BuildReturns
    <3>1. val'.built = (outcome[Own] = "built") /\ outcome' = outcome
        BY <1>0, <2>1 DEF BuildReturns, BuildSucceeded, ValRecords, buildVars, process
    <3> QED
        BY <3>1
  <2>2. CASE BuildTimesOut
    <3>1. val'.built = FALSE
        BY <1>0, <2>2 DEF BuildTimesOut, BuildSucceeded, ValRecords
    <3> QED
        BY <3>1
  <2> QED
      BY <2>1, <2>2
<1>5. val'.calm = TRUE => Settled'
  <2>1. CASE BuildReturns
    <3>1. val'.calm = Settled /\ (Settled' <=> Settled)
        BY <1>0, <2>1 DEF BuildReturns, ValRecords, Settled, buildVars, process, ghosts
    <3> QED
        BY <3>1
  <2>2. CASE BuildTimesOut
    <3>1. val'.calm = val.calm
        BY <1>0, <2>2 DEF BuildTimesOut, ValRecords
    <3>2. Settled => Settled'
      <4>1. CASE pc[Own] = "waiting"
        <5>1. GiveUp(Own)
            BY <2>2, <4>1 DEF BuildTimesOut, GiveUp
        <5> QED
            BY <1>0, <5>1, GiveUpSettles
      <4>2. CASE pc[Own] # "waiting"
          BY <2>2, <4>2 DEF BuildTimesOut, Settled, buildVars, process, ghosts
      <4> QED
          BY <4>1, <4>2
    <3> QED
        BY <3>1, <3>2 DEF ValInv, ValReads
  <2> QED
      BY <2>1, <2>2
<1>6. ValKnows'
    BY <1>1, <1>2, <1>3, <1>4 DEF ValKnows, IsFresh
<1>7. ValReads'
    BY <1>1, <1>2, <1>5 DEF ValReads, IsFresh, Begun, Hashed, Later
<1> QED
    BY <1>2, <1>6, <1>7 DEF ValInv, ValTypeOK, ValRecords

\* The manifest is read, the check returns or is given up.
LEMMA CheckPhaseHolds ==
    ASSUME BuildInv, CheckInv, ValInv,
           ReadsManifest \/ CheckReturns \/ CheckTimesOut
    PROVE  ValInv'
<1>0. /\ val \in ValRecords /\ val.at \in {"reading", "checking"}
      /\ pub.manifest \in Manifests \cup {Absent}
      /\ UNCHANGED <<pub, pc, outcome, disturbed>>
    BY DEF ValInv, ValTypeOK, ValRecords, ReadsManifest, CheckReturns, CheckTimesOut,
           BuildInv, BuildTypeOK, buildVars, process, ghosts
<1>1. Settled' <=> Settled
    BY <1>0 DEF Settled
<1>2. val.status # "validated" /\ val.fresh # TRUE
    BY <1>0 DEF ValInv, ValKnows
<1>3. CASE ReadsManifest
  <2>1. /\ val' \in ValRecords /\ val'.at = "checking" /\ val'.build = val.build
        /\ val'.built = val.built /\ val'.fresh = val.fresh /\ val'.status = val.status
        /\ val'.manifest = pub.manifest /\ val'.calm = val.calm /\ check' = check
      BY <1>0, <1>3 DEF ReadsManifest, ValRecords
  <2>2. check.at = "idle" /\ check.verdict = "none"
      BY <1>3 DEF ReadsManifest, ValInv, ValKnows
  <2>3. ValKnows'
      BY <1>0, <1>2, <2>1 DEF ValInv, ValKnows
  <2>4. ValReads'
      BY <1>0, <1>1, <2>1, <2>2 DEF ValInv, ValReads, IsFresh, Begun, Hashed, Later
  <2> QED
      BY <2>1, <2>3, <2>4 DEF ValInv, ValTypeOK, ValRecords
<1>4. CASE CheckReturns
  <2>1. /\ val' \in ValRecords /\ val'.at \in {"testing", "reporting"}
        /\ (val'.at = "reporting") = (val.tests = FALSE) /\ val'.tests = val.tests
        /\ val'.build = val.build /\ val'.built = val.built
        /\ val'.fresh = (check.verdict = "fresh") /\ val'.status = val.status
        /\ val'.manifest = val.manifest /\ val'.calm = val.calm /\ check' = check
        /\ val.at = "checking"
      BY <1>0, <1>4 DEF CheckReturns, ValRecords
  <2>2. ValKnows'
      BY <1>0, <1>2, <2>1 DEF ValInv, ValKnows, IsFresh
  <2>3. ValReads'
      BY <1>0, <1>1, <2>1 DEF ValInv, ValReads, IsFresh
  <2> QED
      BY <2>1, <2>2, <2>3 DEF ValInv, ValTypeOK, ValRecords
<1>5. CASE CheckTimesOut
  <2>1. /\ val' \in ValRecords /\ val'.at \in {"testing", "reporting"}
        /\ (val'.at = "reporting") = (val.tests = FALSE) /\ val'.tests = val.tests
        /\ val'.build = val.build /\ val'.built = val.built
        /\ val'.fresh = val.fresh /\ val'.status = val.status
        /\ val'.manifest = val.manifest /\ val'.calm = val.calm
        /\ val.at = "checking"
      BY <1>0, <1>5 DEF CheckTimesOut, ValRecords
  <2>2. check'.at = "done" /\ check'.verdict = "none"
      BY <1>5 DEF CheckTimesOut, CheckIdle
  <2>3. ValKnows'
      BY <1>0, <1>2, <2>1, <2>2 DEF ValInv, ValKnows, IsFresh
  <2>4. ValReads'
      BY <1>0, <1>1, <2>1, <2>2 DEF ValInv, ValReads, IsFresh, Begun, Hashed, Later
  <2> QED
      BY <2>1, <2>3, <2>4 DEF ValInv, ValTypeOK, ValRecords
<1> QED
    BY <1>3, <1>4, <1>5

\* Only a gate that holds in full says validated.
LEMMA ValidatedMeansAll ==
    ASSUME NEW host \in Hosts, val \in ValRecords, GateStatus(host) = "validated"
    PROVE  val.build = TRUE /\ val.tests = TRUE /\ val.built = TRUE /\ val.fresh = TRUE
<1>1. CASE ~(host.matching /\ host.candidate)
    BY <1>1 DEF GateStatus
<1>2. CASE host.matching /\ host.candidate /\ ~(val.build /\ val.tests)
    BY <1>2 DEF GateStatus
<1>3. CASE host.matching /\ host.candidate /\ val.build /\ val.tests
    BY <1>3 DEF GateStatus, ValRecords
<1> QED
    BY <1>1, <1>2, <1>3

\* The suite runs and the report is written.
LEMMA ReportPhaseHolds ==
    ASSUME BuildInv, CheckInv, ValInv, RunsTests \/ WritesReport
    PROVE  ValInv'
<1>0. /\ val \in ValRecords /\ val.at \in {"testing", "reporting"}
      /\ pub.executable \in Artifacts \cup {Absent}
      /\ UNCHANGED <<pub, pc, outcome, disturbed, check>>
    BY DEF ValInv, ValTypeOK, ValRecords, RunsTests, WritesReport,
           BuildInv, BuildTypeOK, buildVars, process, ghosts
<1>1. Settled' <=> Settled
    BY <1>0 DEF Settled
<1>2. val.status # "validated"
    BY <1>0 DEF ValInv, ValKnows
<1>3. CASE RunsTests
  <2>1. PICK passed \in BOOLEAN :
            val' = [val EXCEPT !.at = "reporting", !.passed = passed,
                               !.tested = pub.executable]
      BY <1>3 DEF RunsTests
  <2>2. /\ val' \in ValRecords /\ val'.at = "reporting" /\ val'.tests = val.tests
        /\ val'.build = val.build /\ val'.built = val.built
        /\ val'.fresh = val.fresh /\ val'.status = val.status
        /\ val'.manifest = val.manifest /\ val'.calm = val.calm
        /\ val'.tested = pub.executable
      BY <1>0, <2>1 DEF ValRecords
  <2>3. ValKnows'
      BY <1>0, <1>2, <2>2 DEF ValInv, ValKnows, IsFresh
  <2>4. ValReads'
      BY <1>0, <1>1, <2>2 DEF ValInv, ValReads, IsFresh
  <2> QED
      BY <2>2, <2>3, <2>4 DEF ValInv, ValTypeOK, ValRecords
<1>4. CASE WritesReport
  <2>1. PICK host \in Hosts :
            LET left == IF GateStatus(host) = "validated" THEN val ELSE ValIdle
            IN val' = [left EXCEPT !.at = "done", !.status = GateStatus(host)]
      BY <1>4 DEF WritesReport
  <2>2. GateStatus(host) \in Statuses
      BY DEF GateStatus, Statuses
  <2>3. CASE GateStatus(host) = "validated"
    <3>1. val' = [val EXCEPT !.at = "done", !.status = "validated"]
        BY <2>1, <2>3
    <3>2. /\ val' \in ValRecords /\ val'.at = "done" /\ val'.tests = val.tests
          /\ val'.build = val.build /\ val'.built = val.built
          /\ val'.fresh = val.fresh /\ val'.status = "validated"
          /\ val'.manifest = val.manifest /\ val'.calm = val.calm
          /\ val'.tested = val.tested /\ val.at = "reporting"
        BY <1>0, <1>4, <3>1 DEF ValRecords, Statuses, WritesReport
    <3>3. val.build = TRUE /\ val.tests = TRUE /\ val.built = TRUE /\ val.fresh = TRUE
        BY <1>0, <2>3, ValidatedMeansAll
    <3>4. ValKnows'
        BY <1>0, <3>2, <3>3 DEF ValInv, ValKnows, IsFresh
    <3>5. ValReads'
        BY <1>0, <1>1, <3>2 DEF ValInv, ValReads, IsFresh
    <3> QED
        BY <3>2, <3>4, <3>5 DEF ValInv, ValTypeOK, ValRecords
  <2>4. CASE GateStatus(host) # "validated"
    <3>1. val' = [ValIdle EXCEPT !.at = "done", !.status = GateStatus(host)]
        BY <2>1, <2>4
    <3>2. /\ val' \in ValRecords /\ val'.at = "done" /\ val'.built = FALSE
          /\ val'.fresh = FALSE /\ val'.status # "validated" /\ val'.calm = FALSE
        BY <2>2, <2>4, <3>1 DEF ValRecords, ValIdle
    <3>3. ValKnows' /\ ValReads'
        BY <3>2 DEF ValKnows, ValReads
    <3> QED
        BY <3>2, <3>3 DEF ValInv, ValTypeOK, ValRecords
  <2> QED
      BY <2>3, <2>4
<1> QED
    BY <1>3, <1>4

\* The check takes a step.
LEMMA CheckingHolds ==
    ASSUME BuildInv, CheckInv, ValInv, CheckInv', Checking
    PROVE  ValInv'
<1>0. /\ val.at = "checking" /\ val' = val
      /\ UNCHANGED <<pub, pc, outcome, disturbed>>
    BY DEF Checking, CheckStep, buildVars, process, ghosts
<1>1. Settled' <=> Settled
    BY <1>0 DEF Settled
<1>2. val.fresh # TRUE /\ val.status # "validated"
    BY <1>0 DEF ValInv, ValKnows
<1>3. ValKnows'
    BY <1>0, <1>2 DEF ValInv, ValKnows
<1>4. (check'.at \in Begun \/ IsFresh') =>
          \/ check'.manifest = pub.manifest
          \/ check.at \in Begun /\ check'.manifest = check.manifest
  <2>1. /\ check \in [at : CheckSteps, verdict : {"none", "fresh", "stale"},
                manifest : Manifests \cup {Absent}, executable : Artifacts \cup {Absent},
                seen : [Parts -> Contents \cup {Absent}], calm : BOOLEAN]
        /\ BuildTypeOK /\ CheckTypeOK
      BY DEF CheckInv, CheckTypeOK, BuildInv
  <2>2. \A c : Reject(c).at = "done" /\ Reject(c).verdict = "stale"
      BY DEF Reject, CheckIdle
  <2>3. CASE ReadManifest
      BY <2>1, <2>2, <2>3 DEF ReadManifest, IsFresh, Begun, Hashed, Later
  <2>4. CASE HashBinary
      BY <2>1, <2>2, <2>4 DEF HashBinary, IsFresh, Begun, Hashed, Later
  <2>5. CASE HashToolchain
      BY <2>1, <2>2, <2>5 DEF HashToolchain, IsFresh, Begun, Hashed, Later
  <2>6. CASE HashInputs
    <3>1. ReadsOn("pipeline", {"src", "project"}) \/ \E c : check' = Reject(c)
        BY <2>6 DEF HashInputs, Test, ReadsOn
    <3> QED
        BY <2>1, <2>2, <2>6, <3>1, ReadingOn
        DEF HashInputs, Test, IsFresh, Begun, Hashed, Later, CheckSteps
  <2>7. CASE HashPipeline
    <3>1. ReadsOn("snapshot", {"script"}) \/ \E c : check' = Reject(c)
        BY <2>7 DEF HashPipeline, Test, ReadsOn
    <3> QED
        BY <2>1, <2>2, <2>7, <3>1, ReadingOn
        DEF HashPipeline, Test, IsFresh, Begun, Hashed, Later, CheckSteps
  <2>8. CASE VerifySnapshot
    <3>1. ReadsOn("closure", {}) \/ \E c : check' = Reject(c)
        BY <2>8 DEF VerifySnapshot, Test, ReadsOn
    <3> QED
        BY <2>1, <2>2, <2>8, <3>1, ReadingOn
        DEF VerifySnapshot, Test, IsFresh, Begun, Hashed, Later, CheckSteps
  <2>9. CASE VerifyClosure
    <3>1. \/ ReadsOn("toolchain", IF ToolchainExists THEN {"src", "dep"} ELSE {})
          \/ \E c : check' = Reject(c)
        BY <2>9 DEF VerifyClosure, Test, ReadsOn
    <3> QED
        BY <2>1, <2>2, <2>9, <3>1, ReadingOn
        DEF VerifyClosure, Test, IsFresh, Begun, Hashed, Later, CheckSteps
  <2> QED
      BY <2>3, <2>4, <2>5, <2>6, <2>7, <2>8, <2>9 DEF Checking, CheckStep
<1>5. ValReads'
    BY <1>0, <1>1, <1>4 DEF ValInv, ValReads
<1> QED
    BY <1>0, <1>3, <1>5 DEF ValInv, ValTypeOK

\* Builds and edits go on.
LEMMA OthersHold ==
    ASSUME BuildInv, CheckInv, ValInv, BuildMove, BuildsGoOn
    PROVE  ValInv'
<1> USE OwnAssumption
<1>0. val \in ValRecords /\ BuildTypeOK /\ CheckTypeOK /\ Settled' \in BOOLEAN
    BY DEF ValInv, ValTypeOK, ValRecords, BuildInv, CheckInv, Settled
<1>1. /\ val' \in ValRecords /\ val'.at = val.at /\ val'.tests = val.tests
      /\ val'.build = val.build /\ val'.built = val.built
      /\ val'.fresh = val.fresh /\ val'.status = val.status
      /\ val'.manifest = val.manifest /\ val'.tested = val.tested
      /\ val'.calm = TRUE => val.calm = TRUE /\ Settled'
    BY <1>0 DEF BuildsGoOn, ValWatches, ValRecords
<1>2. /\ check'.at = check.at /\ check'.verdict = check.verdict
      /\ check'.manifest = check.manifest
    BY <1>0 DEF BuildsGoOn, CheckWatches, CheckTypeOK
<1>3. outcome[Own] = "built" => outcome'[Own] = "built"
  <2> SUFFICES ASSUME outcome[Own] = "built" PROVE outcome'[Own] = "built"
      OBVIOUS
  <2>1. pc[Own] = "idle"
      BY DEF BuildInv, OutcomeInv
  <2>2. ASSUME NEW b \in Builders \ {Own}, Start(b)
        PROVE  outcome'[Own] = "built"
      BY <1>0, <2>2 DEF Start, BuildTypeOK
  <2>3. ASSUME NEW b \in Builders, Lock(b) \/ Working(b)
        PROVE  outcome'[Own] = "built"
      BY <1>0, <2>3, WorkingSteps DEF Lock
  <2>4. ASSUME NEW b \in Builders, Ending(b)
        PROVE  outcome'[Own] = "built"
      BY <1>0, <2>1, <2>4, EndingSteps
  <2>5. CASE Environment
      BY <1>0, <2>5, EnvironmentSteps
  <2> QED
      BY <2>2, <2>3, <2>4, <2>5 DEF BuildsGoOn, BuildStep, Working, Ending
<1>4. ValKnows'
    BY <1>1, <1>2, <1>3 DEF ValInv, ValKnows, IsFresh
<1>5. ValReads'
    BY <1>0, <1>1, <1>2, SettledKeeps DEF ValInv, ValReads, IsFresh
<1> QED
    BY <1>1, <1>4, <1>5 DEF ValInv, ValTypeOK, ValRecords

\* The validation's invariant is preserved by every step of the system.
LEMMA ValStepHolds ==
    BuildInv /\ QuietInv /\ CheckInv /\ ValInv /\ [Next]_vars => ValInv'
<1> SUFFICES ASSUME BuildInv, QuietInv, CheckInv, ValInv, [Next]_vars PROVE ValInv'
    OBVIOUS
<1>1. BuildMove /\ CheckInv'
    BY NextBuilds, CheckStepHolds
<1>2. ASSUME NEW build \in BOOLEAN, NEW tests \in BOOLEAN, Begin(build, tests)
      PROVE  ValInv'
    BY <1>1, <1>2, BeginHolds
<1>3. CASE ValidationStep
    BY <1>1, <1>3, BuildPhaseHolds, CheckPhaseHolds, ReportPhaseHolds DEF ValidationStep
<1>4. CASE Checking
    BY <1>1, <1>4, CheckingHolds
<1>5. CASE BuildsGoOn
    BY <1>1, <1>5, OthersHold
<1>6. CASE UNCHANGED vars
  <2>1. UNCHANGED <<pub, pc, outcome, disturbed, check, val>>
      BY <1>6 DEF vars, buildVars, process, ghosts
  <2>2. Settled' <=> Settled
      BY <2>1 DEF Settled
  <2> QED
      BY <2>1, <2>2 DEF ValInv, ValTypeOK, ValKnows, ValReads, IsFresh
<1> QED
    BY <1>2, <1>3, <1>4, <1>5, <1>6 DEF Next

-----------------------------------------------------------------------------
(***************************************************************************)
(* The theorems.                                                           *)
(***************************************************************************)
ReleaseInv == BuildInv /\ QuietInv /\ CheckInv /\ ValInv

\* The invariant holds of every behaviour.
LEMMA ReleaseKeepsInv == Spec => []ReleaseInv
<1>1. Init => ReleaseInv
    BY BuildInitHolds, QuietInit, CheckInitHolds, ValInitHolds DEF Init, ReleaseInv
<1>2. ReleaseInv /\ [Next]_vars => ReleaseInv'
    BY NextBuilds, BuildInvStep, QuietStep, CheckStepHolds, ValStepHolds DEF ReleaseInv
<1> QED
    BY <1>1, <1>2, PTL DEF Spec

\* Every variable of builds, check and validation stays within its type:
\* no step of build.sh works with a fingerprint it has not read.
THEOREM TypeCorrect == Spec => []TypeOK
<1>1. ReleaseInv => TypeOK
    BY DEF ReleaseInv, BuildInv, CheckInv, ValInv, TypeOK
<1> QED
    BY <1>1, ReleaseKeepsInv, PTL

\* For any number of builders, edits and stops: object, executable and
\* manifest in build/ are those of one build, except while they are renamed
\* and after a build that ended between two renames (build.sh).
THEOREM PublicationIsAtomic == Spec => []PublishedTogether
<1>1. ReleaseInv => PublishedTogether
    BY DEF ReleaseInv, BuildInv
<1> QED
    BY <1>1, ReleaseKeepsInv, PTL

\* A manifest records what its executable was compiled from, whatever is
\* edited, damaged, mended or put back meanwhile, except in the three intervals
\* a build does not look into; each of them excuses one field (build.sh).
THEOREM ManifestsAreFaithful == Spec => []ManifestIsFaithful
<1>1. ReleaseInv => ManifestIsFaithful
    BY DEF ReleaseInv, BuildInv
<1> QED
    BY <1>1, ReleaseKeepsInv, PTL

\* A verdict of fresh is about one executable and the sources the check has
\* read, however builds and edits fall between its reads
\* (scripts/check_build_freshness.py, which takes no lock); it inherits what the
\* build could not see.
THEOREM FreshnessIsSound == Spec => []FreshIsSound
<1>1. ReleaseInv => FreshIsSound
    BY CheckIsSound DEF ReleaseInv
<1> QED
    BY <1>1, ReleaseKeepsInv, PTL

\* A check that has the files of a complete build to itself says fresh.
THEOREM BuildsAreFresh == Spec => []FreshAfterBuild
<1>1. ReleaseInv => FreshAfterBuild
    BY CheckIsCalm DEF ReleaseInv
<1> QED
    BY <1>1, ReleaseKeepsInv, PTL

\* A report that says validated is about a build that succeeded, a check
\* that found an executable fresh and, when nothing else happened, the very
\* executable that was tested (scripts/platform_validation.py).
THEOREM ReportsAreHonest == Spec => []ValidatedReportIsHonest
<1>1. ReleaseInv => ValidatedReportIsHonest
    BY ReportIsHonest DEF ReleaseInv
<1> QED
    BY <1>1, ReleaseKeepsInv, PTL

=============================================================================
