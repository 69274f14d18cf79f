---------------------------- MODULE FreshnessCheck ----------------------------
(***************************************************************************)
(* scripts/check_build_freshness.py: whether the executable in build/ is   *)
(* the one its manifest describes and the inputs it was built from have    *)
(* not changed.  It takes no lock: builds publish and files change between *)
(* any two of its reads.                                                   *)
(***************************************************************************)
EXTENDS BuildPublication

VARIABLE check \* the run of the script: where it is and what it has read

CheckSteps == {"idle", "binary", "inputs", "pipeline", "snapshot", "closure",
               "toolchain", "done"}

NothingSeen == [p \in Parts |-> Absent]

CheckTypeOK ==
    check \in [at : CheckSteps, verdict : {"none", "fresh", "stale"},
               manifest : Manifests \cup {Absent},
               executable : Artifacts \cup {Absent},
               seen : [Parts -> Contents \cup {Absent}], calm : BOOLEAN]

CheckIdle == [at |-> "idle", verdict |-> "none", manifest |-> Absent,
              executable |-> Absent, seen |-> NothingSeen, calm |-> FALSE]

CheckInit == check = CheckIdle

\* What a step of anybody does to the check: nothing, but when the files
\* are no longer settled the check has not had them to itself.
CheckWatches == check' = [check EXCEPT !.calm = @ /\ Settled']

\* The script exits with status 2; what it has read is gone.
Reject(c) == [CheckIdle EXCEPT !.at = "done", !.verdict = "stale", !.calm = c.calm]

\* One test of the script: it goes on, having read some parts, or rejects.
Test(at, holds, next, parts) ==
    /\ check.at = at
    /\ LET c == [check EXCEPT !.seen = [p \in Parts |->
                     IF p \in parts THEN live[p] ELSE check.seen[p]]]
       IN check' = IF holds THEN [c EXCEPT !.at = next] ELSE Reject(c)

ReadManifest ==
    /\ check.at = "idle"
    /\ LET c == [check EXCEPT !.manifest = pub.manifest, !.calm = Settled]
       IN check' = IF pub.manifest # Absent /\ pub.executable # Absent
                   THEN [c EXCEPT !.at = "binary"] ELSE Reject(c)

HashBinary ==
    /\ check.at = "binary"
    /\ LET c == [check EXCEPT !.executable = pub.executable]
       IN check' = IF pub.executable = check.manifest.artifact
                   THEN [c EXCEPT !.at = "inputs"] ELSE Reject(c)

HashInputs ==
    Test("inputs", live["src"] = check.manifest.key.src
                   /\ live["project"] = check.manifest.key.project,
         "pipeline", {"src", "project"})

\* The pipeline fingerprint has project.json in it, too.
HashPipeline ==
    Test("pipeline", live["script"] = check.manifest.script
                     /\ live["project"] = check.manifest.key.project,
         "snapshot", {"script"})

\* verify_source_snapshot: the tree named after the recorded fingerprints
\* exists, nothing in it is writable, and it hashes to its name.
SnapshotStands(k) == k \in cached \ (altered \cup loose)

VerifySnapshot ==
    Test("snapshot", SnapshotStands(check.manifest.key)
                     /\ check.manifest.closure = Closure(check.manifest.key),
         "closure", {})

\* Mutant: the digest covers the names of the files only.
NamesHold == TRUE

\* verify_live_include_closure: skipped, as if it had held, when the
\* checkout or the compiler is not where the manifest says.
ClosureHolds ==
    ToolchainExists => Closure(Key(live)) = check.manifest.closure

VerifyClosure ==
    Test("closure", ClosureHolds, "toolchain",
         IF ToolchainExists THEN {"src", "dep"} ELSE {})

\* The compiler binary is hashed last, when it is there.
HashToolchain ==
    /\ check.at = "toolchain"
    /\ LET c == [check EXCEPT !.seen["tool"] = live["tool"]]
       IN check' = IF live["tool"] \in {Absent, check.manifest.tool}
                   THEN [c EXCEPT !.at = "done", !.verdict = "fresh"]
                   ELSE Reject(c)

CheckStep ==
    /\ \/ ReadManifest \/ HashBinary \/ HashInputs \/ HashPipeline
       \/ VerifySnapshot \/ VerifyClosure \/ HashToolchain
    /\ UNCHANGED buildVars

\* A verdict of fresh is about one executable: it was compiled from a copy
\* of the sources and of project.json the check has read, and of the
\* compiler files it has read if those were there.  This holds however
\* builds and edits fall between its reads.  The copy was intact, the
\* compiler and the level were those the check has read, unless the build
\* that published it was raced there: the check cannot tell either.
FreshIsSound ==
    check.verdict = "fresh" =>
        LET e == check.executable
            seen == check.seen
            raced == check.manifest.raced
        IN /\ e # Absent
           /\ e.key.src = seen["src"] /\ e.key.project = seen["project"]
           /\ seen["dep"] \in {Absent, e.key.dep}
           /\ "snapshot" \notin raced => e.clean
           /\ "tool" \notin raced => seen["tool"] \in {Absent, e.tool}
           /\ "level" \notin raced => e.opt = seen["project"]

\* After a build that ends with all three files in place, the check says
\* fresh as long as nothing happens before it is done: also when the build
\* reused a snapshot that somebody had made writable.
FreshAfterBuild == check.calm => check.verdict # "stale"

=============================================================================
