-------------------------- MODULE PlatformValidation --------------------------
(***************************************************************************)
(* scripts/platform_validation.py: a validation builds (if asked to),      *)
(* reads the manifest, runs the freshness check, runs the test suite (if   *)
(* asked to) and writes a report with one status.  Each command it runs is *)
(* given up after a time limit; a build that is given up goes on without   *)
(* its caller, and keeps the lock.  Other builds and edits go on all the   *)
(* time.                                                                   *)
(***************************************************************************)
EXTENDS FreshnessCheck

CONSTANT Own \* the builder a validation starts; it builds for nobody else

ASSUME OwnAssumption == Own \in Builders

VARIABLE val \* the validation

vars == <<buildVars, check, val>>

Statuses == {"none", "validated", "incomplete", "failed", "unsupported-platform"}

\* Whether the host is one of the candidates, and whether it is the one
\* required, if one is, and the one the manifest names, if there is one.
Hosts == [candidate : BOOLEAN, matching : BOOLEAN]

ValTypeOK ==
    val \in [at : {"idle", "building", "reading", "checking", "testing",
                   "reporting", "done"},
             build : BOOLEAN, tests : BOOLEAN, built : BOOLEAN,
             fresh : BOOLEAN, passed : BOOLEAN,
             manifest : Manifests \cup {Absent},
             tested : Artifacts \cup {Absent},
             status : Statuses, calm : BOOLEAN]

\* Every variable of builds, check and validation stays within its type.
TypeOK == BuildTypeOK /\ CheckTypeOK /\ ValTypeOK

ValIdle == [at |-> "idle", build |-> FALSE, tests |-> FALSE, built |-> FALSE,
            fresh |-> FALSE, passed |-> FALSE, manifest |-> Absent,
            tested |-> Absent, status |-> "none", calm |-> FALSE]

Init == BuildInit /\ CheckInit /\ val = ValIdle

\* What a step of builds or edits does to the validation: nothing, but when
\* the files are no longer settled it has not had them to itself.
ValWatches == val' = [val EXCEPT !.calm = @ /\ Settled']

Begin(build, tests) ==
    /\ val.at = "idle"
    /\ val' = [val EXCEPT !.at = IF build THEN "building" ELSE "reading",
                          !.build = build, !.tests = tests, !.built = ~build,
                          !.calm = Settled]
    /\ IF build THEN Start(Own) /\ CheckWatches
       ELSE UNCHANGED <<buildVars, check>>

\* Mutant: a build that did not fail has succeeded.
BuildDidNotFail(how) == how # "failed"

\* The build command has ended, with status 0 or not.
BuildSucceeded(how) == how = "built"

BuildReturns ==
    /\ val.at = "building" /\ outcome[Own] # "none"
    /\ val' = [val EXCEPT !.at = "reading", !.calm = Settled,
                          !.built = BuildSucceeded(outcome[Own])]
    /\ UNCHANGED <<buildVars, check>>

\* The time limit kills the process that was started.  It is the one that
\* waits for the lock; the build proper is its child and is not killed.
BuildTimesOut ==
    /\ val.at = "building" /\ outcome[Own] = "none"
    /\ val' = [val EXCEPT !.at = "reading", !.built = BuildSucceeded("none")]
    /\ IF pc[Own] = "waiting"
       THEN Leave(Own, "failed") /\ UNCHANGED <<world, pub, ghosts, check>>
       ELSE UNCHANGED <<buildVars, check>>

ReadsManifest ==
    /\ val.at = "reading"
    /\ val' = [val EXCEPT !.at = "checking", !.manifest = pub.manifest]
    /\ UNCHANGED <<buildVars, check>>

CheckReturns ==
    /\ val.at = "checking" /\ check.at = "done"
    /\ val' = [val EXCEPT !.at = IF val.tests THEN "testing" ELSE "reporting",
                          !.fresh = (check.verdict = "fresh"),
                          !.passed = ~val.tests]
    /\ UNCHANGED <<buildVars, check>>

\* The check, too, is given up after its limit; it only reads.
CheckTimesOut ==
    /\ val.at = "checking" /\ check.at # "done"
    /\ val' = [val EXCEPT !.at = IF val.tests THEN "testing" ELSE "reporting",
                          !.passed = ~val.tests]
    /\ check' = [CheckIdle EXCEPT !.at = "done"]
    /\ UNCHANGED buildVars

\* The suite runs the executable that is in build/ then; it passes, or it
\* fails or is given up.
RunsTests ==
    /\ val.at = "testing"
    /\ \E passed \in BOOLEAN :
          /\ passed => pub.executable # Absent
          /\ val' = [val EXCEPT !.at = "reporting", !.passed = passed,
                                !.tested = pub.executable]
    /\ UNCHANGED <<buildVars, check>>

\* platform_gate_status, and the two corrections that follow its call.
GateStatus(host) ==
    CASE ~host.matching -> "failed"
      [] host.matching /\ ~host.candidate -> "unsupported-platform"
      [] host.matching /\ host.candidate /\ ~(val.build /\ val.tests) ->
            IF val.fresh THEN "incomplete" ELSE "failed"
      [] OTHER ->
            IF val.built /\ val.passed /\ val.fresh THEN "validated" ELSE "failed"

\* What the process knew is kept for a report that says validated only.
WritesReport ==
    /\ val.at = "reporting"
    /\ \E host \in Hosts :
          LET left == IF GateStatus(host) = "validated" THEN val ELSE ValIdle
          IN val' = [left EXCEPT !.at = "done", !.status = GateStatus(host)]
    /\ UNCHANGED <<buildVars, check>>

ValidationStep ==
    \/ BuildReturns \/ ReadsManifest \/ CheckReturns \/ RunsTests
    \/ WritesReport \/ BuildTimesOut \/ CheckTimesOut

\* The check runs as a command of the validation.
Checking == val.at = "checking" /\ CheckStep /\ UNCHANGED val

BuildsGoOn ==
    /\ \/ \E b \in Builders \ {Own} : Start(b)
       \/ \E b \in Builders : BuildStep(b)
       \/ Environment
    /\ CheckWatches /\ ValWatches

Next ==
    \/ \E build, tests \in BOOLEAN : Begin(build, tests)
    \/ ValidationStep
    \/ Checking
    \/ BuildsGoOn

Spec == Init /\ [][Next]_vars

\* A report says validated only when both phases were asked for, the build
\* it started has published and returned, the check has found some
\* executable fresh and the suite has passed.  When nothing else happened
\* from the end of the build to the end of the suite, the manifest in the
\* report describes the executable that was checked and tested, and what
\* it was built from is what is live.
ValidatedReportIsHonest ==
    val.status = "validated" =>
        /\ val.build /\ val.tests /\ outcome[Own] = "built"
        /\ check.verdict = "fresh"
        /\ val.calm =>
              /\ val.manifest = check.manifest
              /\ val.tested = val.manifest.artifact
              /\ val.manifest.key = Key(live)

=============================================================================
