------------------------------ MODULE UpgradeGate ------------------------------
(***************************************************************************)
(* scripts/compiler_upgrade_gate.py: the baseline compiler and a candidate *)
(* each build a private copy of this repository, run its test suite and    *)
(* its benchmark there, and the gate passes when both get through every    *)
(* phase and the candidate is nowhere too slow.  The copies are taken one  *)
(* after the other from the live checkout, which somebody may edit, and    *)
(* the report goes to a file that an earlier run may have left.            *)
(***************************************************************************)
EXTENDS Integers, FiniteSets

CONSTANTS
    Scenarios,  \* the cases a benchmark measures
    Latencies,  \* bound: values a measured p95 may have
    Allowance,  \* --max-latency-regression, in percent
    MaxRootEdits \* bound: edits of the live checkout

ASSUME GateAssumption ==
    /\ Latencies \subseteq Int /\ Allowance \in Nat /\ MaxRootEdits \in Nat

VARIABLES
    args,    \* the phases that were not skipped
    root,    \* the version of the live checkout
    turn,    \* the compiler whose turn it is
    phase,   \* what is done next
    record,  \* the record of each compiler
    ran,     \* the commands that succeeded in the tree of each compiler
    out,     \* the report file: who wrote it (nobody: it is cut off), and
             \* whether it says passed
    status   \* the exit status, -1 while it runs

gateVars == <<args, root, turn, phase, record, ran, out, status>>

Labels == {"baseline", "candidate"}

\* What a benchmark file may hold: a p95 for some of the scenarios.
Figures == UNION {[S -> Latencies] : S \in SUBSET Scenarios}
Nothing == [s \in {} |-> 0]

GateTypeOK ==
    /\ args \in [tests : BOOLEAN, benchmark : BOOLEAN]
    /\ root \in 0 .. MaxRootEdits
    /\ turn \in Labels
    /\ phase \in {"copy", "build", "tests", "benchmark", "report", "writing",
                 "leaving", "exit"}
    /\ \A l \in Labels :
          /\ record[l].source \in -1 .. MaxRootEdits
          /\ record[l].status \in {"none", "build-failed", "tests-failed",
                                   "benchmark-failed", "passed"}
          /\ record[l].p95 \in Figures
          /\ ran[l] \subseteq {"build", "tests", "benchmark"}
    /\ out \in [by : {"earlier run", "nobody", "this run"}, passed : BOOLEAN]
    /\ status \in {-1, 0, 1}

\* The report of an earlier run may be there, whatever it says.
GateInit ==
    /\ args \in [tests : BOOLEAN, benchmark : BOOLEAN]
    /\ root = 0 /\ turn = "baseline" /\ phase = "copy"
    /\ record = [l \in Labels |-> [source |-> -1, status |-> "none", p95 |-> Nothing]]
    /\ ran = [l \in Labels |-> {}]
    /\ out \in [by : {"earlier run"}, passed : BOOLEAN]
    /\ status = -1

\* copy_repo: the tree is taken from the live checkout as it is now.
CopyRepo ==
    /\ phase = "copy"
    /\ record' = [record EXCEPT ![turn].source = root]
    /\ phase' = "build"
    /\ UNCHANGED <<args, root, turn, ran, out, status>>

\* The record of this compiler is complete; the candidate is tried whatever
\* became of the baseline.
Concludes(how, p95) ==
    /\ record' = [record EXCEPT ![turn].status = how, ![turn].p95 = p95]
    /\ turn' = "candidate"
    /\ phase' = IF turn = "baseline" THEN "copy" ELSE "report"

Succeeds == ran' = [ran EXCEPT ![turn] = @ \cup {phase}]

\* A command exits with a status other than 0, leaves no result, or is
\* given up after its time limit.
Fails(how) ==
    /\ Concludes(how, Nothing)
    /\ UNCHANGED ran

\* A phase that is skipped leaves no result, and no failure.
Build ==
    /\ phase = "build"
    /\ \/ Fails("build-failed")
       \/ Succeeds /\ phase' = "tests" /\ UNCHANGED <<turn, record>>
    /\ UNCHANGED <<args, root, out, status>>

RunTests ==
    /\ phase = "tests"
    /\ \/ ~args.tests /\ phase' = "benchmark" /\ UNCHANGED <<turn, record, ran>>
       \/ args.tests /\ Fails("tests-failed")
       \/ args.tests /\ Succeeds /\ phase' = "benchmark" /\ UNCHANGED <<turn, record>>
    /\ UNCHANGED <<args, root, out, status>>

RunBenchmark ==
    /\ phase = "benchmark"
    /\ \/ ~args.benchmark /\ Concludes("passed", Nothing) /\ UNCHANGED ran
       \/ args.benchmark /\ Fails("benchmark-failed")
       \/ /\ args.benchmark /\ Succeeds
          /\ \E p95 \in Figures : Concludes("passed", p95)
    /\ UNCHANGED <<args, root, out, status>>

(***************************************************************************)
(* compare_benchmarks.                                                     *)
(***************************************************************************)
Usable(before, after) == before > 0 /\ after >= 0

TooSlow(before, after) == after * 100 > before * (100 + Allowance)

\* Mutant: scenarios that only one of the two has measured are passed over.
CommonAreFast(old, new) ==
    \A s \in DOMAIN old \cap DOMAIN new :
        Usable(old[s], new[s]) /\ ~TooSlow(old[s], new[s])

NoRegression(old, new) ==
    /\ DOMAIN old # {} /\ DOMAIN new = DOMAIN old
    /\ \A s \in DOMAIN old :
          Usable(old[s], new[s]) /\ ~TooSlow(old[s], new[s])

QualificationComplete == args.tests /\ args.benchmark

GatePassed ==
    /\ QualificationComplete
    /\ \A l \in Labels : record[l].status = "passed"
    /\ NoRegression(record["baseline"].p95, record["candidate"].p95)

\* write_text opens the file, which empties it, and writes the report.
OpenReport ==
    /\ phase = "report"
    /\ out' = [by |-> "nobody", passed |-> FALSE]
    /\ phase' = "writing"
    /\ UNCHANGED <<args, root, turn, record, ran, status>>

WriteReport ==
    /\ phase = "writing"
    /\ out' = [by |-> "this run", passed |-> GatePassed]
    /\ phase' = "leaving"
    /\ UNCHANGED <<args, root, turn, record, ran, status>>

\* The summary has been printed and the copies have been removed.
Exit ==
    /\ phase = "leaving"
    /\ status' = IF GatePassed THEN 0 ELSE 1
    /\ phase' = "exit"
    /\ UNCHANGED <<args, root, turn, record, ran, out>>

\* An exception, or the end of the process, at any point: also while the
\* report is written, or when it is there and its summary cannot be printed
\* or the copies cannot be removed.  The file stays as it is.
Dies ==
    /\ phase # "exit"
    /\ phase' = "exit" /\ status' = 1
    /\ UNCHANGED <<args, root, turn, record, ran, out>>

EditRoot ==
    /\ phase # "exit" /\ root < MaxRootEdits
    /\ root' = root + 1
    /\ UNCHANGED <<args, turn, phase, record, ran, out, status>>

GateNext ==
    \/ CopyRepo \/ Build \/ RunTests \/ RunBenchmark
    \/ OpenReport \/ WriteReport \/ Exit \/ Dies \/ EditRoot

GateSpec == GateInit /\ [][GateNext]_gateVars

\* Both compilers built, tested and measured a copy of their own, every
\* scenario was measured by both, and none of them is slower by more than
\* the allowance.  Both had the same sources when nobody edited them in
\* between.
Compared ==
    LET old == record["baseline"].p95
        new == record["candidate"].p95
    IN /\ \A l \in Labels : ran[l] = {"build", "tests", "benchmark"}
       /\ \E s \in Scenarios : s \in DOMAIN new
       /\ \A s \in Scenarios :
             s \in DOMAIN old \/ s \in DOMAIN new =>
                /\ s \in DOMAIN old /\ s \in DOMAIN new
                /\ new[s] - old[s] <= (old[s] * Allowance) \div 100
       /\ root = 0 => record["baseline"].source = record["candidate"].source

\* A report of this run that says passed stands for the whole comparison,
\* also while the run goes on and whatever its exit status will be.  Status
\* 0 means that the report on disk is such a one; the converse is not
\* claimed, for a run may end after it has written the report.
QualifiedMeansCompared ==
    LET qualified == out = [by |-> "this run", passed |-> TRUE]
    IN (status = 0 => qualified) /\ (qualified => Compared)

=============================================================================
