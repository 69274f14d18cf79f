----------------------------- MODULE IncludeClosure -----------------------------
(***************************************************************************)
(* compiler_include_closure in scripts/build_hashes.py: which files the    *)
(* compiler reads from one entry.  The compiler is asked first; when it    *)
(* cannot answer, the quoted includes are followed depth first, each file  *)
(* once; when that fails, every source file of both trees is taken.        *)
(*                                                                         *)
(* The order of the includes of one file is left open: the records are     *)
(* sorted by name, and each way to fail leads to the same fallback.        *)
(***************************************************************************)
EXTENDS Integers, Sequences, FiniteSets

CONSTANTS
    Files,   \* files that exist
    Entry,   \* src/main.elisa of the LSP
    NoFile,  \* a path that leads to no regular file
    Answers  \* bound: the lists of paths the compiler may answer with

Children == Files \cup {NoFile}

ASSUME ClosureAssumption ==
    /\ Entry \in Files /\ NoFile \notin Files
    /\ Answers \subseteq SUBSET Children /\ {} \notin Answers

\* Where a file is: in the source trees, elsewhere below one of the two
\* roots, or below neither.
Places == {"tree", "beside", "outside"}

VARIABLES
    includes, \* what the include lines of each file lead to
    place,    \* where each file is
    tier,     \* "ask", "parse", "scan", "record", "done" or "failed"
    mode,     \* how the paths were found: "compiler", "parser" or "tree"
    seen,     \* the paths found so far
    active,   \* the files being parsed, each included by the one before
    todo      \* of each file being parsed, the includes not yet followed

graph == <<includes, place>>
closureVars == <<graph, tier, mode, seen, active, todo>>

\* Every variable of the search stays within its type.
ClosureTypeOK ==
    /\ includes \in [Files -> SUBSET Children]
    /\ place \in [Files -> Places]
    /\ tier \in {"ask", "parse", "scan", "record", "done", "failed"}
    /\ mode \in {"none", "compiler", "parser", "tree"}
    /\ seen \subseteq Children
    /\ active \in Seq(Files)
    /\ todo \in [Files -> SUBSET Children]

\* Any graph; the entry is in the source tree.
ClosureInit ==
    /\ includes \in [Files -> SUBSET Children]
    /\ place \in {p \in [Files -> Places] : p[Entry] = "tree"}
    /\ tier = "ask" /\ mode = "none"
    /\ seen = {} /\ active = <<>>
    /\ todo = [f \in Files |-> {}]

IsActive(f) == \E i \in 1 .. Len(active) : active[i] = f
Top == active[Len(active)]

\* Parsing of f begins: it is seen, and its includes are to be followed.
Open(f) ==
    /\ seen' = seen \cup {f}
    /\ active' = Append(active, f)
    /\ todo' = [todo EXCEPT ![f] = includes[f]]

\* _compiler_report_paths: the compiler is taken at its word.
CompilerAnswers ==
    /\ tier = "ask"
    /\ tier' = "record" /\ mode' = "compiler"
    /\ seen' \in Answers
    /\ UNCHANGED <<graph, active, todo>>

\* An answer that is malformed, or about another entry, is no reason to
\* parse: there is no closure.
CompilerMisleads ==
    /\ tier = "ask"
    /\ tier' = "failed"
    /\ UNCHANGED <<graph, mode, seen, active, todo>>

\* No answer: the compiler is missing, too old, too slow, or writes no JSON.
CompilerIsSilent ==
    /\ tier = "ask"
    /\ tier' = "parse" /\ mode' = "parser"
    /\ Open(Entry)
    /\ UNCHANGED graph

\* Mutant: a file that is being parsed counts as one that was parsed.
HopelessOnlyWithoutFile(c) == c = NoFile

\* The parser cannot go on: the path leads nowhere, or back to a file that
\* is being parsed.
Hopeless(c) == c = NoFile \/ IsActive(c)

FollowInclude ==
    /\ tier = "parse" /\ active # <<>>
    /\ \E c \in todo[Top] :
          \/ /\ Hopeless(c)
             /\ tier' = "scan"
             /\ UNCHANGED <<seen, active, todo>>
          \/ /\ ~Hopeless(c) /\ c \in seen
             /\ todo' = [todo EXCEPT ![Top] = @ \ {c}]
             /\ UNCHANGED <<tier, seen, active>>
          \/ /\ ~Hopeless(c) /\ c \notin seen
             /\ seen' = seen \cup {c}
             /\ active' = Append(active, c)
             /\ todo' = [todo EXCEPT ![Top] = @ \ {c}, ![c] = includes[c]]
             /\ UNCHANGED tier
    /\ UNCHANGED <<graph, mode>>

LeaveFile ==
    /\ tier = "parse" /\ active # <<>> /\ todo[Top] = {}
    /\ active' = SubSeq(active, 1, Len(active) - 1)
    /\ tier' = IF Len(active) = 1 THEN "record" ELSE "parse"
    /\ UNCHANGED <<graph, mode, seen, todo>>

\* _conservative_source_paths: every source file of the two trees, in place
\* of what was found until then.
Tree == {f \in Files : place[f] = "tree"}

ScanTrees ==
    /\ tier = "scan"
    /\ tier' = "record" /\ mode' = "tree"
    /\ seen' = Tree
    /\ UNCHANGED <<graph, active, todo>>

\* _closure_records: every path must lead to a file below one of the roots.
Recordable(c) == c \in Files /\ place[c] # "outside"

Record ==
    /\ tier = "record"
    /\ tier' = IF \A c \in seen : Recordable(c) THEN "done" ELSE "failed"
    /\ UNCHANGED <<graph, mode, seen, active, todo>>

ClosureNext ==
    \/ CompilerAnswers \/ CompilerMisleads \/ CompilerIsSilent
    \/ FollowInclude \/ LeaveFile \/ ScanTrees \/ Record

ClosureSpec == ClosureInit /\ [][ClosureNext]_closureVars

(***************************************************************************)
(* The reference: the least set of paths with the entry that holds what    *)
(* its files include, and whether a file leads back to itself.             *)
(***************************************************************************)
ClosedUnderIncludes(S) == \A f \in S \cap Files : includes[f] \subseteq S

Reached(c) ==
    \A S \in SUBSET Children : Entry \in S /\ ClosedUnderIncludes(S) => c \in S

LeadsBack(f) ==
    \A S \in SUBSET Children :
        includes[f] \subseteq S /\ ClosedUnderIncludes(S) => f \in S

Cyclic == \E f \in Files : Reached(f) /\ LeadsBack(f)

\* A closure found by parsing is exactly what can be reached from the entry:
\* a change to a file that is missing from it would not be noticed, one too
\* many would have the LSP rebuilt in vain.  The trees are taken instead
\* when, and only when, what can be reached has a path to nowhere or a
\* cycle, and then none of their files is missing.  Every file in a closure
\* is below one of the roots.
ClosureIsReachable ==
    tier = "done" =>
        /\ \A c \in seen : Recordable(c)
        /\ mode = "parser" =>
              /\ \A c \in Children : c \in seen <=> Reached(c)
              /\ ~Cyclic
        /\ mode = "tree" => Tree \subseteq seen /\ (Reached(NoFile) \/ Cyclic)

=============================================================================
