------------------------------ MODULE ToolProofs -------------------------------
(***************************************************************************)
(* Proofs about the tools that stand beside the server and share no state  *)
(* with it: the search for the files an entry includes, the gate a new     *)
(* compiler must pass, the audit of the compiler's diagnostics, and the    *)
(* scan of one of their constructors.                                      *)
(***************************************************************************)
EXTENDS FiniteSetTheorems, IncludeClosure, UpgradeGate, ConstructorScan, DiagnosticAudit, TLAPS

SequenceFacts == INSTANCE SequenceTheorems

Finished(c) == c \in seen /\ ~IsActive(c)

\* Every file that is being parsed is there once, and includes the next.
ActiveIsPath ==
    /\ \A i \in 1 .. Len(active) : active[i] \in seen
    /\ \A i, j \in 1 .. Len(active) : active[i] = active[j] => i = j

\* An earlier file on the path leads to every later one.
PathIsFollowed ==
    \A i, k \in 1 .. Len(active) : i < k =>
        \A S \in SUBSET Children :
            includes[active[i]] \subseteq S /\ ClosedUnderIncludes(S) => active[k] \in S

\* What was followed from a file on the path is finished, or is the next
\* file on the path; what was followed from a finished file is finished.
FollowedIsFinished ==
    /\ \A i \in 1 .. Len(active) : \A c \in includes[active[i]] \ todo[active[i]] :
           Finished(c) \/ (i < Len(active) /\ c = active[i + 1])
    /\ \A f \in Files : Finished(f) => \A c \in includes[f] : Finished(c)

\* What the parser knows about the files it has seen.
ParserInv ==
    mode = "parser" =>
        /\ Entry \in seen /\ seen \subseteq Files
        /\ \A c \in seen : Reached(c)
        /\ \A f \in Files : todo[f] \subseteq includes[f]
        /\ ActiveIsPath /\ PathIsFollowed /\ FollowedIsFinished
        /\ \A f \in Files : Finished(f) => ~LeadsBack(f)

\* What each tier knows.
TierInv ==
    /\ tier = "ask" => /\ active = <<>> /\ mode = "none" /\ seen = {}
                       /\ todo = [f \in Files |-> {}]
    /\ tier \in {"parse", "scan"} => mode = "parser"
    /\ (tier \in {"record", "done"} /\ mode = "parser") => active = <<>>
    /\ tier = "scan" => Reached(NoFile) \/ Cyclic
    /\ mode = "tree" => Tree \subseteq seen /\ (Reached(NoFile) \/ Cyclic)
    /\ tier = "done" => \A c \in seen : Recordable(c)

ClosureInv == ClosureTypeOK /\ ParserInv /\ TierInv

-----------------------------------------------------------------------------
\* The graph does not change, and so neither does what is reached.
LEMMA GraphIsFixed ==
    ASSUME UNCHANGED graph
    PROVE  /\ \A S : ClosedUnderIncludes(S)' <=> ClosedUnderIncludes(S)
           /\ \A c : Reached(c)' <=> Reached(c)
           /\ \A f \in Files : LeadsBack(f)' <=> LeadsBack(f)
           /\ Cyclic' <=> Cyclic
           /\ Tree' = Tree
           /\ \A c : Recordable(c)' <=> Recordable(c)
BY DEF graph, ClosedUnderIncludes, Reached, LeadsBack, Cyclic, Tree, Recordable

\* Initially nothing has been found.
LEMMA InitHolds == ClosureInit => ClosureInv
BY DEF ClosureInit, ClosureInv, ClosureTypeOK, ParserInv, TierInv, Children, Places

\* The types are preserved.
LEMMA TypeStep == ClosureTypeOK /\ [ClosureNext]_closureVars => ClosureTypeOK'
<1> USE ClosureAssumption
<1> SUFFICES ASSUME ClosureTypeOK, [ClosureNext]_closureVars PROVE ClosureTypeOK'
    OBVIOUS
<1>1. CASE CompilerAnswers
    BY <1>1 DEF CompilerAnswers, ClosureTypeOK, graph
<1>2. CASE CompilerMisleads
    BY <1>2 DEF CompilerMisleads, ClosureTypeOK, graph
<1>3. CASE CompilerIsSilent
    BY <1>3 DEF CompilerIsSilent, ClosureTypeOK, graph, Open, Children
<1>4. CASE FollowInclude
  <2>1. Top \in Files
      BY <1>4 DEF FollowInclude, ClosureTypeOK, Top
  <2>2. PICK c \in todo[Top] :
          \/ Hopeless(c) /\ tier' = "scan" /\ UNCHANGED <<seen, active, todo>>
          \/ todo' = [todo EXCEPT ![Top] = @ \ {c}] /\ UNCHANGED <<tier, seen, active>>
          \/ /\ ~Hopeless(c)
             /\ seen' = seen \cup {c} /\ active' = Append(active, c)
             /\ todo' = [todo EXCEPT ![Top] = @ \ {c}, ![c] = includes[c]]
             /\ UNCHANGED tier
      BY <1>4 DEF FollowInclude
  <2>3. c \in Children /\ (~Hopeless(c) => c \in Files)
      BY <2>1, <2>2 DEF ClosureTypeOK, Hopeless, Children
  <2>4. UNCHANGED <<includes, place, mode>>
      BY <1>4 DEF FollowInclude, graph
  <2>5. seen' \subseteq Children /\ active' \in Seq(Files)
    <3>1. /\ seen \subseteq Children /\ active \in Seq(Files)
          /\ c \in Files => Append(active, c) \in Seq(Files)
        BY DEF ClosureTypeOK
    <3> QED
        BY <2>2, <2>3, <3>1
  <2>6. todo' \in [Files -> SUBSET Children]
    <3>1. /\ todo \in [Files -> SUBSET Children] /\ todo[Top] \ {c} \in SUBSET Children
          /\ c \in Files => includes[c] \in SUBSET Children
        BY <2>1 DEF ClosureTypeOK
    <3>2. [todo EXCEPT ![Top] = @ \ {c}] \in [Files -> SUBSET Children]
        BY <2>1, <3>1
    <3>3. c \in Files =>
            [todo EXCEPT ![Top] = @ \ {c}, ![c] = includes[c]] \in [Files -> SUBSET Children]
        BY <2>1, <3>1
    <3> QED
        BY <2>2, <2>3, <3>1, <3>2, <3>3
  <2>7. tier' \in {"parse", "scan"}
      BY <1>4, <2>2 DEF FollowInclude
  <2> QED
      BY <2>4, <2>5, <2>6, <2>7 DEF ClosureTypeOK
<1>5. CASE LeaveFile
    BY <1>5 DEF LeaveFile, ClosureTypeOK, graph
<1>6. CASE ScanTrees
    BY <1>6 DEF ScanTrees, ClosureTypeOK, graph, Tree, Children
<1>7. CASE Record
    BY <1>7 DEF Record, ClosureTypeOK, graph
<1>8. CASE UNCHANGED closureVars
    BY <1>8 DEF closureVars, ClosureTypeOK, graph
<1> QED
    BY <1>1, <1>2, <1>3, <1>4, <1>5, <1>6, <1>7, <1>8 DEF ClosureNext

\* A file that is included by a file that is reached is reached.
LEMMA ReachedOnward ==
    ASSUME NEW f \in Files, Reached(f), NEW c \in includes[f]
    PROVE  Reached(c)
BY DEF Reached, ClosedUnderIncludes

\* A path to nowhere, or one back to a file that is being parsed, is a
\* reason to take the trees.
LEMMA HopelessIsReal ==
    ASSUME ClosureTypeOK, ParserInv, mode = "parser", active # <<>>,
           NEW c \in todo[Top], Hopeless(c)
    PROVE  Reached(NoFile) \/ Cyclic
<1>1. /\ Top \in Files /\ Top \in seen /\ Reached(Top) /\ c \in includes[Top]
      /\ Len(active) \in Nat /\ Len(active) >= 1
    BY DEF ClosureTypeOK, ParserInv, ActiveIsPath, Top
<1>2. CASE c = NoFile
    BY <1>1, <1>2, ReachedOnward
<1>3. CASE IsActive(c)
  <2>1. PICK i \in 1 .. Len(active) : active[i] = c
      BY <1>3 DEF IsActive
  <2>2. c \in Files /\ Reached(c)
      BY <2>1 DEF ClosureTypeOK, ParserInv, ActiveIsPath
  <2>3. ASSUME NEW S \in SUBSET Children, includes[c] \subseteq S, ClosedUnderIncludes(S)
        PROVE  c \in S
    <3>1. CASE i = Len(active)
        BY <1>1, <2>1, <2>3, <3>1 DEF Top
    <3>2. CASE i < Len(active)
      <4>1. Top \in S
          BY <1>1, <2>1, <2>3, <3>2 DEF ParserInv, PathIsFollowed, Top
      <4> QED
          BY <1>1, <2>3, <4>1 DEF ClosedUnderIncludes
    <3> QED
        BY <1>1, <2>1, <3>1, <3>2
  <2> QED
      BY <2>2, <2>3 DEF LeadsBack, Cyclic
<1> QED
    BY <1>2, <1>3 DEF Hopeless

\* Every tier hands over what the next one relies on.
LEMMA TierStep ==
    ClosureInv /\ ClosureTypeOK' /\ [ClosureNext]_closureVars => TierInv'
<1> SUFFICES ASSUME ClosureTypeOK, ParserInv, TierInv, ClosureTypeOK',
                    [ClosureNext]_closureVars
             PROVE  TierInv'
    BY DEF ClosureInv
<1>1. CASE CompilerAnswers
    BY <1>1, GraphIsFixed DEF CompilerAnswers, TierInv
<1>2. CASE CompilerMisleads
    BY <1>2, GraphIsFixed DEF CompilerMisleads, TierInv
<1>3. CASE CompilerIsSilent
    BY <1>3, GraphIsFixed DEF CompilerIsSilent, TierInv
<1>4. CASE FollowInclude
  <2>1. mode = "parser" /\ active # <<>> /\ tier = "parse" /\ UNCHANGED <<graph, mode>>
      BY <1>4 DEF FollowInclude, TierInv
  <2>2. tier' = "parse" \/ (tier' = "scan" /\ \E c \in todo[Top] : Hopeless(c))
      BY <1>4 DEF FollowInclude
  <2>3. tier' = "scan" => Reached(NoFile) \/ Cyclic
      BY <2>1, <2>2, HopelessIsReal
  <2> QED
      BY <2>1, <2>2, <2>3, GraphIsFixed DEF TierInv
<1>5. CASE LeaveFile
  <2>1. tier' = "record" => active' = <<>>
      BY <1>5 DEF LeaveFile, ClosureTypeOK
  <2> QED
      BY <1>5, <2>1, GraphIsFixed DEF LeaveFile, TierInv
<1>6. CASE ScanTrees
    BY <1>6, GraphIsFixed DEF ScanTrees, TierInv
<1>7. CASE Record
    BY <1>7, GraphIsFixed DEF Record, TierInv
<1>8. CASE UNCHANGED closureVars
    BY <1>8, GraphIsFixed DEF closureVars, TierInv
<1> QED
    BY <1>1, <1>2, <1>3, <1>4, <1>5, <1>6, <1>7, <1>8 DEF ClosureNext

\* Parsing begins with the entry alone.
LEMMA SilentStep ==
    ASSUME ClosureTypeOK, TierInv, CompilerIsSilent
    PROVE  ParserInv'
<1> USE ClosureAssumption
<1>1. /\ seen' = {Entry} /\ active' = <<Entry>> /\ UNCHANGED graph
      /\ todo' = [[f \in Files |-> {}] EXCEPT ![Entry] = includes[Entry]]
  <2>1. /\ seen = {} /\ active = <<>> /\ todo = [f \in Files |-> {}]
        /\ UNCHANGED graph
      BY DEF CompilerIsSilent, TierInv
  <2>2. Open(Entry)
      BY DEF CompilerIsSilent
  <2>3. seen' = {Entry}
      BY <2>1, <2>2 DEF Open
  <2>4. active' = <<Entry>>
      BY <2>1, <2>2 DEF Open
  <2>5. todo' = [[f \in Files |-> {}] EXCEPT ![Entry] = includes[Entry]]
      BY <2>1, <2>2 DEF Open
  <2> QED
      BY <2>1, <2>3, <2>4, <2>5
<1>2. includes' = includes /\ includes \in [Files -> SUBSET Children]
    BY <1>1 DEF graph, ClosureTypeOK
<1>3. Reached(Entry)'
    BY DEF Reached
<1>4. \A f : ~Finished(f)'
    BY <1>1 DEF Finished, IsActive
<1>5. ActiveIsPath' /\ PathIsFollowed'
    BY <1>1 DEF ActiveIsPath, PathIsFollowed
<1>6. FollowedIsFinished'
    BY <1>1, <1>2, <1>4 DEF FollowedIsFinished
<1>7. \A f \in Files : todo'[f] \subseteq includes'[f]
    BY <1>1, <1>2
<1> QED
    BY <1>1, <1>3, <1>4, <1>5, <1>6, <1>7 DEF ParserInv

-----------------------------------------------------------------------------
\* An include of the file on top was parsed before: it is finished.
LEMMA SkipStep ==
    ASSUME ClosureTypeOK, ParserInv, mode = "parser", active # <<>>,
           NEW c \in todo[Top], ~Hopeless(c), c \in seen,
           todo' = [todo EXCEPT ![Top] = @ \ {c}],
           UNCHANGED <<graph, mode, seen, active>>
    PROVE  ParserInv'
<1>1. /\ Top \in Files /\ Finished(c) /\ includes' = includes
      /\ Len(active) \in Nat /\ Len(active) >= 1
    BY DEF ClosureTypeOK, Top, Finished, Hopeless, graph
<1>2. \A x : Finished(x)' <=> Finished(x)
    BY DEF Finished, IsActive
<1>3. ActiveIsPath' /\ PathIsFollowed'
    BY <1>1, GraphIsFixed DEF ParserInv, ActiveIsPath, PathIsFollowed
<1>4. \A f \in Files : todo'[f] \subseteq todo[f] /\ todo[f] \subseteq todo'[f] \cup {c}
    BY <1>1 DEF ClosureTypeOK
<1>5. FollowedIsFinished'
  <2>1. ASSUME NEW i \in 1 .. Len(active), NEW x \in includes[active[i]] \ todo'[active[i]]
        PROVE  Finished(x) \/ (i < Len(active) /\ x = active[i + 1])
    <3>1. active[i] \in Files
        BY DEF ClosureTypeOK
    <3>2. x \in includes[active[i]] \ todo[active[i]] \/ x = c
        BY <1>4, <3>1
    <3> QED
        BY <1>1, <3>2 DEF ParserInv, FollowedIsFinished
  <2>2. \A f \in Files : Finished(f) => \A x \in includes[f] : Finished(x)
      BY DEF ParserInv, FollowedIsFinished
  <2> QED
      BY <1>1, <1>2, <2>1, <2>2 DEF FollowedIsFinished
<1>6. \A f \in Files : Finished(f)' => ~LeadsBack(f)'
    BY <1>2, GraphIsFixed DEF ParserInv
<1>7. \A x \in seen' : Reached(x)'
    BY GraphIsFixed DEF ParserInv
<1>8. \A f \in Files : todo'[f] \subseteq includes'[f]
    BY <1>1, <1>4 DEF ParserInv
<1> QED
    BY <1>3, <1>5, <1>6, <1>7, <1>8 DEF ParserInv

\* Parsing goes on in an include of the file on top.
LEMMA DescendStep ==
    ASSUME ClosureTypeOK, ParserInv, mode = "parser", active # <<>>,
           NEW c \in todo[Top], ~Hopeless(c), c \notin seen,
           seen' = seen \cup {c}, active' = Append(active, c),
           todo' = [todo EXCEPT ![Top] = @ \ {c}, ![c] = includes[c]],
           UNCHANGED <<graph, mode>>
    PROVE  ParserInv'
<1> DEFINE n == Len(active)
<1>1. /\ Top \in Files /\ c \in Files /\ includes' = includes /\ c # Top
      /\ n \in Nat /\ n >= 1 /\ Top \in seen /\ c \in includes[Top]
    BY DEF ClosureTypeOK, Top, Hopeless, graph, Children, ParserInv, ActiveIsPath
<1>2. /\ Len(active') = n + 1 /\ active'[n + 1] = c
      /\ \A i \in 1 .. n : active'[i] = active[i] /\ active[i] \in Files
                           /\ active[i] \in seen /\ active[i] # c
    BY <1>1 DEF ClosureTypeOK, ParserInv, ActiveIsPath
<1>3. \A x : Finished(x)' <=> Finished(x)
    BY <1>1, <1>2 DEF Finished, IsActive
<1>4. ActiveIsPath'
  <2>1. \A i \in 1 .. n + 1 : active'[i] \in seen'
      BY <1>1, <1>2
  <2>2. ASSUME NEW i \in 1 .. n + 1, NEW j \in 1 .. n + 1, active'[i] = active'[j]
        PROVE  i = j
      BY <1>1, <1>2, <2>2 DEF ParserInv, ActiveIsPath
  <2> QED
      BY <1>2, <2>1, <2>2 DEF ActiveIsPath
<1>5. PathIsFollowed'
  <2>1. ASSUME NEW i \in 1 .. n + 1, NEW k \in 1 .. n + 1, i < k,
               NEW S \in SUBSET Children, includes[active'[i]] \subseteq S,
               ClosedUnderIncludes(S)
        PROVE  active'[k] \in S
    <3>1. i \in 1 .. n /\ active'[i] = active[i]
        BY <1>1, <1>2, <2>1
    <3>2. CASE k \in 1 .. n
        BY <1>2, <2>1, <3>1, <3>2 DEF ParserInv, PathIsFollowed
    <3>3. CASE k = n + 1 /\ i = n
        BY <1>1, <1>2, <2>1, <3>1, <3>3 DEF Top
    <3>4. CASE k = n + 1 /\ i < n
      <4>1. Top \in S
          BY <1>1, <2>1, <3>1, <3>4 DEF ParserInv, PathIsFollowed, Top
      <4> QED
          BY <1>1, <1>2, <2>1, <3>4, <4>1 DEF ClosedUnderIncludes
    <3> QED
        BY <1>1, <2>1, <3>1, <3>2, <3>3, <3>4
  <2> QED
      BY <1>1, <1>2, <2>1, GraphIsFixed DEF PathIsFollowed
<1>6. /\ todo'[c] = includes[c]
      /\ todo'[Top] = todo[Top] \ {c}
      /\ \A f \in Files \ {c, Top} : todo'[f] = todo[f]
    BY <1>1 DEF ClosureTypeOK
<1>7. FollowedIsFinished'
  <2>1. ASSUME NEW i \in 1 .. n + 1, NEW x \in includes[active'[i]] \ todo'[active'[i]]
        PROVE  Finished(x) \/ (i < n + 1 /\ x = active'[i + 1])
    <3>1. CASE i = n + 1
        BY <1>2, <1>6, <3>1
    <3>2. CASE i = n
      <4>1. active'[i] = Top
          BY <1>1, <1>2, <3>2 DEF Top
      <4>2. x \in includes[Top] \ todo[Top] \/ x = c
          BY <1>6, <4>1
      <4>3. CASE x = c
          BY <1>1, <1>2, <3>2, <4>3
      <4>4. CASE x \in includes[Top] \ todo[Top]
          BY <1>1, <3>2, <4>4 DEF ParserInv, FollowedIsFinished, Top
      <4> QED
          BY <4>2, <4>3, <4>4
    <3>3. CASE i < n
      <4>1. i \in 1 .. n /\ i + 1 \in 1 .. n /\ active'[i] = active[i]
            /\ active'[i + 1] = active[i + 1]
          BY <1>1, <1>2, <3>3
      <4>2. active[i] \in Files \ {c, Top}
          BY <1>1, <1>2, <3>3, <4>1 DEF ParserInv, ActiveIsPath, Top
      <4>3. x \in includes[active[i]] \ todo[active[i]]
          BY <1>6, <4>1, <4>2
      <4> QED
          BY <4>1, <4>3, <3>3 DEF ParserInv, FollowedIsFinished
    <3> QED
        BY <1>1, <3>1, <3>2, <3>3
  <2>2. \A f \in Files : Finished(f) => \A x \in includes[f] : Finished(x)
      BY DEF ParserInv, FollowedIsFinished
  <2>3. \A i \in 1 .. Len(active') : \A x \in includes'[active'[i]] \ todo'[active'[i]] :
            Finished(x)' \/ (i < Len(active') /\ x = active'[i + 1])
    <3>1. includes' = includes /\ Len(active') = n + 1
        BY <1>1, <1>2
    <3>2. \A x : Finished(x) => Finished(x)'
        BY <1>3
    <3> HIDE DEF n
    <3> QED
        BY <2>1, <3>1, <3>2
  <2>4. \A f \in Files : Finished(f)' => \A x \in includes'[f] : Finished(x)'
      BY <1>1, <1>3, <2>2
  <2> QED
      BY <2>3, <2>4 DEF FollowedIsFinished
<1>8. \A f \in Files : Finished(f)' => ~LeadsBack(f)'
    BY <1>3, GraphIsFixed DEF ParserInv
<1>9. \A x \in seen' : Reached(x)'
  <2>1. Reached(c)
      BY <1>1, ReachedOnward DEF ParserInv
  <2> QED
      BY <2>1, GraphIsFixed DEF ParserInv
<1>10. \A f \in Files : todo'[f] \subseteq includes'[f]
    BY <1>1, <1>6 DEF ParserInv
<1> QED
    BY <1>1, <1>4, <1>5, <1>7, <1>8, <1>9, <1>10 DEF ParserInv

\* The file on top has no include left: it is finished, and since nothing
\* it includes leads back to a file on the path, it does not lead to itself.
LEMMA LeaveStep ==
    ASSUME ClosureTypeOK, ParserInv, mode = "parser", LeaveFile
    PROVE  ParserInv'
<1> DEFINE n == Len(active)
<1>1. /\ UNCHANGED <<graph, mode, seen, todo>> /\ includes' = includes
      /\ Top \in Files /\ Top \in seen /\ todo[Top] = {}
      /\ n \in Nat /\ n >= 1 /\ Top = active[n] /\ IsActive(Top)
    BY DEF LeaveFile, ClosureTypeOK, ParserInv, ActiveIsPath, Top, graph, IsActive
<1>2. /\ Len(active') = n - 1
      /\ \A i \in 1 .. n - 1 : active'[i] = active[i] /\ active[i] # Top
  <2>1. active' = SubSeq(active, 1, n - 1) /\ active \in Seq(Files)
      BY DEF LeaveFile, ClosureTypeOK
  <2>2. Len(active') = n - 1 /\ \A i \in 1 .. n - 1 : active'[i] = active[i]
    <3>1. 1 \in Int /\ n - 1 \in Int /\ \A i \in 1 .. n - 1 : active[i] \in Files
        BY <1>1, <2>1
    <3>2. Len(active') = IF 1 <= n - 1 THEN n - 1 - 1 + 1 ELSE 0
        BY <2>1, <3>1, SequenceFacts!SubSeqProperties
    <3>3. \A i \in 1 .. n - 1 - 1 + 1 : active'[i] = active[1 + i - 1]
        BY <2>1, <3>1, SequenceFacts!SubSeqProperties
    <3>4. n \in Nat /\ n >= 1
        BY <1>1
    <3> HIDE DEF n
    <3>5. Len(active') = n - 1
        BY <3>2, <3>4
    <3>6. \A i \in 1 .. n - 1 : i \in 1 .. n - 1 - 1 + 1 /\ 1 + i - 1 = i
        BY <3>4
    <3> QED
        BY <3>3, <3>5, <3>6
  <2>3. \A i \in 1 .. n - 1 : active[i] # Top
      BY <1>1 DEF ParserInv, ActiveIsPath
  <2> QED
      BY <2>2, <2>3
<1>3. \A x : Finished(x)' <=> Finished(x) \/ x = Top
  <2>1. ASSUME NEW x
        PROVE  IsActive(x)' <=> (IsActive(x) /\ x # Top)
    <3>1. IsActive(x)' => (IsActive(x) /\ x # Top)
        BY <1>1, <1>2 DEF IsActive
    <3>2. ASSUME NEW i \in 1 .. n, active[i] = x, x # Top
          PROVE  IsActive(x)'
      <4>1. i \in 1 .. n - 1
          BY <1>1, <3>2
      <4> QED
          BY <1>2, <3>2, <4>1 DEF IsActive
    <3> QED
        BY <3>1, <3>2 DEF IsActive
  <2> QED
      BY <1>1, <2>1 DEF Finished
<1>4. \A x \in includes[Top] : Finished(x)
    BY <1>1 DEF ParserInv, FollowedIsFinished
<1>5. ActiveIsPath' /\ PathIsFollowed'
  <2>1. ActiveIsPath'
      BY <1>1, <1>2 DEF ParserInv, ActiveIsPath
  <2>2. ASSUME NEW i \in 1 .. n - 1, NEW k \in 1 .. n - 1, i < k,
               NEW S \in SUBSET Children, includes[active[i]] \subseteq S,
               ClosedUnderIncludes(S)
        PROVE  active[k] \in S
      BY <1>1, <2>2 DEF ParserInv, PathIsFollowed
  <2>3. \A S : ClosedUnderIncludes(S)' <=> ClosedUnderIncludes(S)
      BY <1>1, GraphIsFixed
  <2>4. ASSUME NEW i \in 1 .. Len(active'), NEW k \in 1 .. Len(active'), i < k,
               NEW S \in SUBSET Children, includes'[active'[i]] \subseteq S,
               ClosedUnderIncludes(S)'
        PROVE  active'[k] \in S
    <3>1. i \in 1 .. n - 1 /\ k \in 1 .. n - 1
        BY <1>2, <2>4
    <3>2. active'[i] = active[i] /\ active'[k] = active[k]
        BY <1>2, <3>1
    <3>3. includes[active[i]] \subseteq S /\ ClosedUnderIncludes(S)
        BY <1>1, <2>3, <2>4, <3>2
    <3> QED
        BY <2>2, <2>4, <3>1, <3>2, <3>3
  <2>5. PathIsFollowed'
      BY <2>4 DEF PathIsFollowed
  <2> QED
      BY <2>1, <2>5
<1>6. FollowedIsFinished'
  <2>1. ASSUME NEW i \in 1 .. n - 1, NEW x \in includes[active[i]] \ todo[active[i]]
        PROVE  Finished(x) \/ x = Top \/ (i < n - 1 /\ x = active[i + 1])
      BY <1>1, <2>1 DEF ParserInv, FollowedIsFinished
  <2>2. \A i \in 1 .. n - 1 : i < n - 1 => active'[i + 1] = active[i + 1]
      BY <1>1, <1>2
  <2>3. \A f \in Files : Finished(f) \/ f = Top => \A x \in includes[f] : Finished(x)
      BY <1>4 DEF ParserInv, FollowedIsFinished
  <2> QED
      BY <1>1, <1>2, <1>3, <2>1, <2>2, <2>3 DEF FollowedIsFinished
<1>7. ~LeadsBack(Top)
  <2> DEFINE S == {f \in seen : Finished(f)}
  <2>1. S \in SUBSET Children /\ includes[Top] \subseteq S /\ Top \notin S
      BY <1>1, <1>4 DEF ParserInv, Children, Finished
  <2>2. ClosedUnderIncludes(S)
      BY DEF ParserInv, FollowedIsFinished, ClosedUnderIncludes, Finished
  <2> QED
      BY <2>1, <2>2 DEF LeadsBack
<1>8. \A f \in Files : Finished(f)' => ~LeadsBack(f)'
    BY <1>1, <1>3, <1>7, GraphIsFixed DEF ParserInv
<1>9. \A x \in seen' : Reached(x)'
    BY <1>1, GraphIsFixed DEF ParserInv
<1> QED
    BY <1>1, <1>5, <1>6, <1>8, <1>9 DEF ParserInv

\* Nothing that parsing looks at changes.
LEMMA IdleStep ==
    ASSUME ParserInv, UNCHANGED <<graph, mode, seen, active, todo>>
    PROVE  ParserInv'
<1>1. includes' = includes
    BY DEF graph
<1>2. \A x : Finished(x)' <=> Finished(x)
    BY DEF Finished, IsActive
<1>3. ActiveIsPath' <=> ActiveIsPath
    BY DEF ActiveIsPath
<1>4. PathIsFollowed' <=> PathIsFollowed
    BY <1>1, GraphIsFixed DEF PathIsFollowed
<1>5. FollowedIsFinished' <=> FollowedIsFinished
    BY <1>1, <1>2 DEF FollowedIsFinished
<1>6. mode = "parser" => (\A f \in Files : Finished(f)' => ~LeadsBack(f)')
    BY <1>2, GraphIsFixed DEF ParserInv
<1> QED
    BY <1>1, <1>3, <1>4, <1>5, <1>6, GraphIsFixed DEF ParserInv

\* What the parser knows is preserved.
LEMMA ParserStep == ClosureInv /\ [ClosureNext]_closureVars => ParserInv'
<1> SUFFICES ASSUME ClosureTypeOK, ParserInv, TierInv, [ClosureNext]_closureVars
             PROVE  ParserInv'
    BY DEF ClosureInv
<1>1. CASE CompilerAnswers
    BY <1>1 DEF CompilerAnswers, ParserInv
<1>2. CASE CompilerMisleads
    BY <1>2, IdleStep DEF CompilerMisleads
<1>3. CASE CompilerIsSilent
    BY <1>3, SilentStep
<1>4. CASE FollowInclude
  <2>1. mode = "parser" /\ active # <<>> /\ UNCHANGED <<graph, mode>>
      BY <1>4 DEF FollowInclude, TierInv
  <2>2. PICK c \in todo[Top] :
          \/ UNCHANGED <<seen, active, todo>>
          \/ /\ ~Hopeless(c) /\ c \in seen
             /\ todo' = [todo EXCEPT ![Top] = @ \ {c}]
             /\ UNCHANGED <<seen, active>>
          \/ /\ ~Hopeless(c) /\ c \notin seen
             /\ seen' = seen \cup {c} /\ active' = Append(active, c)
             /\ todo' = [todo EXCEPT ![Top] = @ \ {c}, ![c] = includes[c]]
      BY <1>4 DEF FollowInclude
  <2>3. CASE UNCHANGED <<seen, active, todo>>
      BY <2>1, <2>3, IdleStep
  <2> QED
      BY <2>1, <2>2, <2>3, SkipStep, DescendStep
<1>5. CASE LeaveFile
    BY <1>5, LeaveStep DEF LeaveFile, TierInv
<1>6. CASE ScanTrees
    BY <1>6 DEF ScanTrees, ParserInv
<1>7. CASE Record
    BY <1>7, IdleStep DEF Record
<1>8. CASE UNCHANGED closureVars
    BY <1>8, IdleStep DEF closureVars
<1> QED
    BY <1>1, <1>2, <1>3, <1>4, <1>5, <1>6, <1>7, <1>8 DEF ClosureNext

\* When nothing is being parsed any more, what was seen is closed.
LEMMA InvIsExact == ClosureInv => ClosureIsReachable
<1> SUFFICES ASSUME ClosureTypeOK, ParserInv, TierInv, tier = "done"
             PROVE  ClosureIsReachable
    BY DEF ClosureInv, ClosureIsReachable
<1>1. CASE mode = "parser"
  <2>1. active = <<>> /\ \A c : Finished(c) <=> c \in seen
      BY <1>1 DEF TierInv, Finished, IsActive
  <2>2. ClosedUnderIncludes(seen)
      BY <1>1, <2>1 DEF ParserInv, FollowedIsFinished, ClosedUnderIncludes
  <2>3. \A c \in Children : c \in seen <=> Reached(c)
      BY <1>1, <2>2 DEF ClosureTypeOK, ParserInv, Reached
  <2>4. ~Cyclic
      BY <1>1, <2>1, <2>3 DEF ParserInv, Cyclic, Children
  <2> QED
      BY <1>1, <2>3, <2>4 DEF TierInv, ClosureIsReachable
<1>2. CASE mode # "parser"
    BY <1>2 DEF TierInv, ClosureIsReachable
<1> QED
    BY <1>1, <1>2

\* The invariant holds of every search.
LEMMA SearchKeepsInv == ClosureSpec => []ClosureInv
<1>1. ClosureInv /\ [ClosureNext]_closureVars => ClosureInv'
    BY TypeStep, ParserStep, TierStep DEF ClosureInv
<1> QED
    BY <1>1, InitHolds, PTL DEF ClosureSpec

\* Every variable of the search for an include closure
\* (scripts/build_hashes.py) stays within its type.
THEOREM ClosureTypeCorrect == ClosureSpec => []ClosureTypeOK
<1>1. ClosureInv => ClosureTypeOK
    BY DEF ClosureInv
<1> QED
    BY <1>1, SearchKeepsInv, PTL

\* For every set of files and every include graph, cyclic and dangling ones
\* included: an include closure that was found by parsing is exactly what
\* the entry reaches, and the trees are taken exactly when parsing cannot
\* tell (compiler_include_closure in scripts/build_hashes.py).
THEOREM ClosureIsExact == ClosureSpec => []ClosureIsReachable
    BY SearchKeepsInv, InvIsExact, PTL

-----------------------------------------------------------------------------
(***************************************************************************)
(* The gate a new compiler must pass.                                      *)
(***************************************************************************)

\* The records and trees of both compilers have their types.
GateRecord ==
    [source : -1 .. MaxRootEdits,
     status : {"none", "build-failed", "tests-failed", "benchmark-failed", "passed"},
     p95 : Figures]

GateShape ==
    /\ GateTypeOK
    /\ record \in [Labels -> GateRecord]
    /\ ran \in [Labels -> SUBSET {"build", "tests", "benchmark"}]

\* What the compiler whose turn it is has behind it.
Behind(l) ==
    /\ phase \in {"build", "tests", "benchmark"} => record[l].source # -1
    /\ phase \in {"tests", "benchmark"} => "build" \in ran[l]
    /\ phase = "benchmark" /\ args.tests => "tests" \in ran[l]

\* What a record that says passed stands for.
StandsFor(l) ==
    /\ record[l].source # -1 /\ "build" \in ran[l]
    /\ args.tests => "tests" \in ran[l]
    /\ args.benchmark => "benchmark" \in ran[l]

\* The phases at whose end this run has written no report.
Unreported == {"copy", "build", "tests", "benchmark", "report", "writing"}

\* The report file holds a report of this run, and one that says passed.
Ours == out.by = "this run"
Passing == Ours /\ out.passed = TRUE

\* What the report file and the exit status say.
ReportFits ==
    /\ phase \in Unreported => ~ Ours
    /\ phase # "exit" => status = -1
    /\ phase = "leaving" /\ GatePassed => Passing
    /\ Passing => GatePassed
    /\ status = 0 => Passing

\* Beyond the property: the phases before the report have each done their part,
\* no copy is newer than the checkout, and a report of this run is written last
\* and says what the gate has found.
GateInv ==
    /\ GateShape
    /\ Behind(turn)
    /\ \A l \in Labels : record[l].status = "passed" => StandsFor(l)
    /\ \A l \in Labels : record[l].source <= root
    /\ ReportFits

\* What is told of the report file stays true while the file stays as it is.
LEMMA ReportKept == UNCHANGED out => (Ours' <=> Ours) /\ (Passing' <=> Passing)
  BY DEF Ours, Passing

\* As long as nothing is reported, nothing passes.
LEMMA UnreportedFits ==
  ASSUME GateInv, phase \in Unreported, phase' \in Unreported, UNCHANGED <<out, status>>
  PROVE  ReportFits'
  <1>1. ~ Ours' /\ ~ Passing'
    BY ReportKept DEF GateInv, ReportFits, Passing
  <1>2. phase' # "exit" /\ phase' # "leaving"
    BY DEF Unreported
  <1>3. status' = -1 /\ status' # 0
    BY DEF GateInv, ReportFits, Unreported
  <1>4. QED
    BY <1>1, <1>2, <1>3 DEF ReportFits

LEMMA GatePassedKept == UNCHANGED <<args, record>> => (GatePassed' <=> GatePassed)
  BY DEF GatePassed, QualificationComplete

LEMMA GateNumbers == MaxRootEdits \in Nat /\ Allowance \in Nat
  BY GateAssumption

LEMMA NothingIsFigures == Nothing \in Figures
  <1>1. Nothing \in [{} -> Latencies]
    BY DEF Nothing
  <1>2. QED
    BY <1>1 DEF Figures

LEMMA FiguresAreNumbers ==
  ASSUME NEW f \in Figures
  PROVE  DOMAIN f \subseteq Scenarios /\ \A s \in DOMAIN f : f[s] \in Int
  BY GateAssumption DEF Figures

\* A conclusion completes the record of one compiler only.
LEMMA ConclusionKeeps ==
  ASSUME GateShape, NEW how \in {"build-failed", "tests-failed", "benchmark-failed", "passed"},
         NEW p95 \in Figures, Concludes(how, p95)
  PROVE  /\ record' \in [Labels -> GateRecord]
         /\ turn' \in Labels /\ phase' \in {"copy", "report"}
         /\ \A l \in Labels : record'[l].source = record[l].source
         /\ \A l \in Labels : l # turn => record'[l].status = record[l].status
         /\ record'[turn].status = how
  <1>1. /\ turn \in Labels /\ record \in [Labels -> GateRecord]
        /\ record[turn] \in GateRecord
    BY DEF GateShape, GateTypeOK
  <1>2. record' = [record EXCEPT ![turn] = [[@ EXCEPT !.status = how] EXCEPT !.p95 = p95]]
    BY <1>1 DEF Concludes
  <1> DEFINE new == [[record[turn] EXCEPT !.status = how] EXCEPT !.p95 = p95]
  <1>3. new \in GateRecord /\ new.source = record[turn].source /\ new.status = how
    BY <1>1 DEF GateRecord
  <1>4. record' = [record EXCEPT ![turn] = new]
    BY <1>2
  <1> HIDE DEF new
  <1>5. turn' \in Labels /\ phase' \in {"copy", "report"}
    BY DEF Concludes, Labels
  <1>6. QED
    BY <1>1, <1>3, <1>4, <1>5

\* A phase that ends the turn of a compiler keeps the invariant, if what it
\* says of the compiler is so.
LEMMA ConclusionIsTrue ==
  ASSUME GateInv, NEW how \in {"build-failed", "tests-failed", "benchmark-failed", "passed"},
         NEW p95 \in Figures, Concludes(how, p95), phase \in {"build", "tests", "benchmark"},
         ran' \in [Labels -> SUBSET {"build", "tests", "benchmark"}],
         \A l \in Labels : ran[l] \subseteq ran'[l],
         NEW t \in Labels, t = turn, how = "passed" => StandsFor(t)',
         UNCHANGED <<args, root, out, status>>
  PROVE  GateInv'
  <1>1. GateShape'
    <2>1. /\ record' \in [Labels -> GateRecord] /\ turn' \in Labels
          /\ phase' \in {"copy", "report"} /\ GateShape
      BY ConclusionKeeps DEF GateInv
    <2>2. \A l \in Labels : record'[l] \in GateRecord
      BY <2>1
    <2>3. \A l \in Labels : /\ record'[l].source \in -1 .. MaxRootEdits
                            /\ record'[l].status \in {"none", "build-failed", "tests-failed",
                                                      "benchmark-failed", "passed"}
                            /\ record'[l].p95 \in Figures
      BY <2>2 DEF GateRecord
    <2>4. QED
      BY <2>1, <2>3 DEF GateShape, GateTypeOK
  <1>2. Behind(turn)'
    BY ConclusionKeeps DEF GateInv, Behind
  <1>3. \A l \in Labels : record'[l].status = "passed" => StandsFor(l)'
    <2>1. ASSUME NEW l \in Labels, record'[l].status = "passed"
          PROVE  StandsFor(l)'
      <3>1. CASE l = t
        BY <2>1, <3>1, ConclusionKeeps DEF GateInv
      <3>2. CASE l # t
        BY <2>1, <3>2, ConclusionKeeps DEF GateInv, StandsFor
      <3>3. QED
        BY <3>1, <3>2
    <2>2. QED
      BY <2>1
  <1>4. \A l \in Labels : record'[l].source <= root'
    BY ConclusionKeeps DEF GateInv
  <1>5. ReportFits'
    BY ConclusionKeeps, UnreportedFits DEF GateInv, Unreported
  <1>6. QED
    BY <1>1, <1>2, <1>3, <1>4, <1>5 DEF GateInv

\* A phase that succeeds goes to the next one.
LEMMA SuccessKeeps ==
  ASSUME GateInv, Succeeds, phase \in {"build", "tests", "benchmark"}
  PROVE  /\ ran' \in [Labels -> SUBSET {"build", "tests", "benchmark"}]
         /\ \A l \in Labels : ran[l] \subseteq ran'[l]
         /\ phase \in ran'[turn]
  BY DEF Succeeds, GateInv, GateShape, GateTypeOK, Labels

\* Every step of the gate keeps the invariant.
LEMMA GateStep ==
  ASSUME GateInv, [GateNext]_gateVars
  PROVE  GateInv'
  <1>1. /\ turn \in Labels /\ record \in [Labels -> GateRecord]
        /\ ran \in [Labels -> SUBSET {"build", "tests", "benchmark"}]
        /\ GateTypeOK /\ root \in Nat /\ root <= MaxRootEdits
    <2>1. GateTypeOK /\ GateShape
      BY DEF GateInv, GateShape
    <2>2. turn \in Labels /\ root \in 0 .. MaxRootEdits
      BY <2>1 DEF GateTypeOK
    <2>3. QED
      BY <2>1, <2>2, GateNumbers DEF GateShape
  <1>2. CASE CopyRepo
    <2> DEFINE new == [record[turn] EXCEPT !.source = root]
    <2>1. /\ record' = [record EXCEPT ![turn] = new]
          /\ new \in GateRecord /\ new.source = root
          /\ new.status = record[turn].status
      BY <1>1, <1>2, GateNumbers DEF CopyRepo, GateRecord
    <2> HIDE DEF new
    <2>2. /\ record' \in [Labels -> GateRecord]
          /\ \A l \in Labels : record'[l].status = record[l].status
          /\ \A l \in Labels : record'[l].source = IF l = turn THEN root ELSE record[l].source
      BY <1>1, <2>1
    <2>3. GateShape'
      <3>1. \A l \in Labels : record'[l] \in GateRecord
        BY <2>2
      <3>2. \A l \in Labels : /\ record'[l].source \in -1 .. MaxRootEdits
                              /\ record'[l].status \in {"none", "build-failed", "tests-failed",
                                                        "benchmark-failed", "passed"}
                              /\ record'[l].p95 \in Figures
        BY <3>1 DEF GateRecord
      <3>3. QED
        BY <1>1, <1>2, <2>2, <3>2 DEF CopyRepo, GateShape, GateTypeOK
    <2>4. Behind(turn)'
      BY <1>1, <1>2, <2>2 DEF CopyRepo, Behind
    <2>5. \A l \in Labels : record'[l].status = "passed" => StandsFor(l)'
      <3>1. ASSUME NEW l \in Labels, record'[l].status = "passed"
            PROVE  StandsFor(l)'
        <4>1. StandsFor(l) /\ UNCHANGED <<args, ran>>
          BY <1>2, <2>2, <3>1 DEF CopyRepo, GateInv
        <4>2. record'[l].source # -1
          BY <1>1, <2>2, <4>1 DEF StandsFor
        <4>3. QED
          BY <4>1, <4>2 DEF StandsFor
      <3>2. QED
        BY <3>1
    <2>6. \A l \in Labels : record'[l].source <= root'
      <3>1. root' = root /\ \A l \in Labels : record[l].source <= root
        BY <1>2 DEF CopyRepo, GateInv
      <3>2. QED
        BY <1>1, <2>2, <3>1
    <2>7. ReportFits'
      BY <1>2, UnreportedFits DEF CopyRepo, Unreported
    <2>8. QED
      BY <2>3, <2>4, <2>5, <2>6, <2>7 DEF GateInv
  <1>3. ASSUME phase \in {"build", "tests"}, phase' \in {"tests", "benchmark"},
               phase = "build" => phase' = "tests",
               phase = "build" \/ args.tests => phase \in ran'[turn],
               ran' \in [Labels -> SUBSET {"build", "tests", "benchmark"}],
               \A l \in Labels : ran[l] \subseteq ran'[l],
               UNCHANGED <<args, root, turn, record, out, status>>
        PROVE  GateInv'
    <2>1. GateShape'
      BY <1>1, <1>3 DEF GateShape, GateTypeOK
    <2>2. Behind(turn)'
      BY <1>1, <1>3 DEF GateInv, Behind
    <2>3. \A l \in Labels : record'[l].status = "passed" => StandsFor(l)'
      BY <1>3 DEF GateInv, StandsFor
    <2>4. ReportFits'
      BY <1>3, UnreportedFits DEF Unreported
    <2>5. QED
      BY <1>3, <2>1, <2>2, <2>3, <2>4 DEF GateInv
  <1>4. CASE Build
    <2>1. CASE Fails("build-failed")
      BY <1>1, <1>4, <2>1, NothingIsFigures, ConclusionIsTrue DEF Build, Fails
    <2>2. CASE Succeeds /\ phase' = "tests" /\ UNCHANGED <<turn, record>>
      BY <1>3, <1>4, <2>2, SuccessKeeps DEF Build
    <2>3. QED
      BY <1>4, <2>1, <2>2 DEF Build
  <1>5. CASE RunTests
    <2>1. CASE ~args.tests /\ phase' = "benchmark" /\ UNCHANGED <<turn, record, ran>>
      BY <1>1, <1>3, <1>5, <2>1 DEF RunTests
    <2>2. CASE Fails("tests-failed")
      BY <1>1, <1>5, <2>2, NothingIsFigures, ConclusionIsTrue DEF RunTests, Fails
    <2>3. CASE Succeeds /\ phase' = "benchmark" /\ UNCHANGED <<turn, record>>
      BY <1>3, <1>5, <2>3, SuccessKeeps DEF RunTests
    <2>4. QED
      BY <1>5, <2>1, <2>2, <2>3 DEF RunTests
  <1>6. CASE RunBenchmark
    <2>1. PICK t \in Labels : t = turn
      BY <1>1
    <2>2. /\ phase = "benchmark" /\ UNCHANGED <<args, root, out, status>>
          /\ record[t].source # -1 /\ "build" \in ran[t]
          /\ args.tests => "tests" \in ran[t]
      BY <1>6, <2>1 DEF RunBenchmark, GateInv, Behind
    <2>3. CASE ~args.benchmark /\ Concludes("passed", Nothing) /\ UNCHANGED ran
      <3>1. record'[t].source = record[t].source
        BY <2>1, <2>3, NothingIsFigures, ConclusionKeeps DEF GateInv
      <3>2. StandsFor(t)'
        BY <2>2, <2>3, <3>1 DEF StandsFor
      <3>3. QED
        BY <1>1, <2>1, <2>2, <2>3, <3>2, NothingIsFigures, ConclusionIsTrue
    <2>4. CASE Fails("benchmark-failed")
      BY <1>1, <2>1, <2>2, <2>4, NothingIsFigures, ConclusionIsTrue DEF Fails
    <2>5. ASSUME NEW p95 \in Figures, Succeeds, Concludes("passed", p95)
          PROVE  GateInv'
      <3>1. record'[t].source = record[t].source
        BY <2>1, <2>5, ConclusionKeeps DEF GateInv
      <3>2. /\ ran' \in [Labels -> SUBSET {"build", "tests", "benchmark"}]
            /\ \A l \in Labels : ran[l] \subseteq ran'[l]
            /\ "benchmark" \in ran'[t]
        BY <2>1, <2>2, <2>5, SuccessKeeps
      <3>3. StandsFor(t)'
        BY <2>2, <3>1, <3>2 DEF StandsFor
      <3>4. QED
        BY <2>1, <2>2, <2>5, <3>2, <3>3, ConclusionIsTrue
    <2>6. QED
      BY <1>6, <2>3, <2>4, <2>5 DEF RunBenchmark
  <1>7. ASSUME phase' \in {"writing", "leaving", "exit"}, UNCHANGED <<args, root, turn, record, ran>>,
               out' \in [by : {"earlier run", "nobody", "this run"}, passed : BOOLEAN],
               status' \in {-1, 0, 1}, ReportFits'
        PROVE  GateInv'
    <2>1. GateShape'
      BY <1>1, <1>7 DEF GateShape, GateTypeOK
    <2>2. Behind(turn)'
      BY <1>7 DEF Behind
    <2>3. \A l \in Labels : record'[l].status = "passed" => StandsFor(l)'
      BY <1>7 DEF GateInv, StandsFor
    <2>4. QED
      BY <1>7, <2>1, <2>2, <2>3 DEF GateInv
  <1>8. CASE OpenReport \/ WriteReport \/ Exit
    <2>1. GatePassed \in BOOLEAN
      BY DEF GatePassed
    <2>2. CASE OpenReport
      <3>1. /\ out' = [by |-> "nobody", passed |-> FALSE]
            /\ status' = -1 /\ phase' = "writing" /\ UNCHANGED <<args, root, turn, record, ran>>
        BY <2>2 DEF OpenReport, GateInv, ReportFits
      <3>2. out' \in [by : {"earlier run", "nobody", "this run"}, passed : BOOLEAN]
        BY <3>1
      <3>3. ~ Ours' /\ ~ Passing'
        BY <3>1 DEF Ours, Passing
      <3>4. phase' # "exit" /\ phase' # "leaving" /\ status' # 0
        BY <3>1
      <3>5. ReportFits'
        BY <3>1, <3>3, <3>4 DEF ReportFits
      <3>6. QED
        BY <1>7, <3>1, <3>2, <3>5
    <2>3. CASE WriteReport
      <3>1. /\ out' = [by |-> "this run", passed |-> GatePassed]
            /\ status' = -1 /\ phase' = "leaving" /\ UNCHANGED <<args, root, turn, record, ran>>
        BY <2>3 DEF WriteReport, GateInv, ReportFits
      <3>2. out' \in [by : {"earlier run", "nobody", "this run"}, passed : BOOLEAN]
        BY <2>1, <3>1
      <3>3. Passing' <=> GatePassed
        <4>1. out'.by = "this run" /\ out'.passed = GatePassed
          <5>1. out' = [by |-> "this run", passed |-> GatePassed]
            BY <3>1
          <5>2. QED
            BY <5>1
        <4>2. Ours'
          BY <4>1 DEF Ours
        <4>3. QED
          BY <2>1, <4>1, <4>2, Zenon DEF Passing
      <3>4. phase' \notin Unreported /\ status' # 0
        <4>1. phase' = "leaving" /\ status' = -1
          BY <3>1
        <4>2. QED
          BY <4>1 DEF Unreported
      <3>5. GatePassed' <=> GatePassed
        BY <3>1, GatePassedKept
      <3>6. ReportFits'
        BY <3>1, <3>3, <3>4, <3>5 DEF ReportFits
      <3>7. QED
        BY <1>7, <3>1, <3>2, <3>6
    <2>4. CASE Exit
      <3>1. /\ phase = "leaving" /\ status' = IF GatePassed THEN 0 ELSE 1
            /\ phase' = "exit" /\ UNCHANGED <<args, root, turn, record, ran, out>>
        BY <2>4 DEF Exit
      <3>2. status' \in {0, 1} /\ (status' = 0 => GatePassed)
        BY <2>1, <3>1
      <3>3. (GatePassed <=> Passing) /\ (Passing' <=> Passing) /\ (GatePassed' <=> GatePassed)
        BY <3>1, GatePassedKept, ReportKept DEF GateInv, ReportFits
      <3>4. ReportFits'
        BY <3>1, <3>2, <3>3 DEF ReportFits, Unreported
      <3>5. QED
        BY <1>1, <1>7, <3>1, <3>2, <3>4 DEF GateTypeOK
    <2>5. QED
      BY <1>8, <2>2, <2>3, <2>4
  <1>9. CASE Dies
    <2>1. /\ phase' = "exit" /\ status' = 1
          /\ UNCHANGED <<args, root, turn, record, ran, out>>
      BY <1>9 DEF Dies
    <2>2. ReportFits'
      BY <2>1, GatePassedKept, ReportKept DEF GateInv, ReportFits, Unreported
    <2>3. QED
      BY <1>1, <1>7, <2>1, <2>2 DEF GateTypeOK
  <1>10. CASE EditRoot
    <2>1. GateShape'
      <3>1. /\ root < MaxRootEdits /\ root' = root + 1
            /\ UNCHANGED <<args, turn, phase, record, ran, out, status>>
        BY <1>10 DEF EditRoot
      <3>2. root' \in 0 .. MaxRootEdits
        BY <1>1, <3>1, GateNumbers
      <3>3. GateShape
        BY DEF GateInv
      <3>4. QED
        BY <3>1, <3>2, <3>3 DEF GateShape, GateTypeOK
    <2>2. Behind(turn)'
      BY <1>10 DEF EditRoot, GateInv, Behind
    <2>3. \A l \in Labels : record'[l].status = "passed" => StandsFor(l)'
      BY <1>10 DEF EditRoot, GateInv, StandsFor
    <2>4. \A l \in Labels : record'[l].source <= root'
      <3>1. \A l \in Labels : record[l].source \in Int /\ record[l].source <= root
        <4>1. \A l \in Labels : record[l].source \in -1 .. MaxRootEdits
          BY <1>1 DEF GateTypeOK
        <4>2. \A l \in Labels : record[l].source <= root
          BY DEF GateInv
        <4>3. QED
          BY <4>1, <4>2
      <3>2. QED
        BY <1>1, <1>10, <3>1 DEF EditRoot
    <2>5. ReportFits'
      BY <1>10, GatePassedKept, ReportKept DEF EditRoot, GateInv, ReportFits
    <2>6. QED
      BY <2>1, <2>2, <2>3, <2>4, <2>5 DEF GateInv
  <1>11. CASE UNCHANGED gateVars
    <2>1. ReportFits'
      BY <1>11, GatePassedKept, ReportKept DEF gateVars, GateInv, ReportFits
    <2>2. QED
      BY <1>11, <2>1 DEF gateVars, GateInv, GateShape, GateTypeOK, GateRecord, Behind, StandsFor
  <1>12. QED
    BY <1>2, <1>4, <1>5, <1>6, <1>8, <1>9, <1>10, <1>11 DEF GateNext

LEMMA GateStart ==
  ASSUME GateInit
  PROVE  GateInv
  <1>1. /\ record = [l \in Labels |-> [source |-> -1, status |-> "none", p95 |-> Nothing]]
        /\ ran = [l \in Labels |-> {}] /\ root = 0 /\ MaxRootEdits \in Nat
    BY GateNumbers DEF GateInit
  <1>2. [source |-> -1, status |-> "none", p95 |-> Nothing] \in GateRecord
    BY <1>1, NothingIsFigures DEF GateRecord
  <1>3. record \in [Labels -> GateRecord]
    BY <1>1, <1>2
  <1>4. GateTypeOK
    <2>1. \A l \in Labels : record[l].source = -1 /\ record[l].status = "none"
                            /\ record[l].p95 = Nothing /\ ran[l] = {}
      BY <1>1
    <2>2. /\ turn \in Labels /\ status = -1 /\ phase = "copy"
          /\ args \in [tests : BOOLEAN, benchmark : BOOLEAN]
      BY DEF GateInit, Labels
    <2>3. out \in [by : {"earlier run", "nobody", "this run"}, passed : BOOLEAN]
      BY DEF GateInit
    <2>4. -1 \in -1 .. MaxRootEdits /\ 0 \in 0 .. MaxRootEdits
      BY <1>1
    <2>5. QED
      BY <1>1, <2>1, <2>2, <2>3, <2>4, NothingIsFigures DEF GateTypeOK
  <1>5. GateShape
    BY <1>1, <1>3, <1>4 DEF GateShape
  <1>6. QED
    <2>1. \A l \in Labels : record[l].status # "passed" /\ record[l].source <= root
      BY <1>1
    <2>2. phase = "copy" /\ status = -1 /\ out \in [by : {"earlier run"}, passed : BOOLEAN]
      BY DEF GateInit
    <2>3. Behind(turn)
      BY <2>2 DEF Behind
    <2>4. ReportFits
      <3>1. ~ Ours /\ ~ Passing
        <4>1. out.by = "earlier run"
          BY <2>2
        <4>2. QED
          BY <4>1 DEF Ours, Passing
      <3>2. status # 0 /\ phase # "leaving"
        <4>1. phase = "copy" /\ status = -1
          BY <2>2
        <4>2. QED
          BY <4>1
      <3>3. QED
        BY <2>2, <3>1, <3>2 DEF ReportFits
    <2>5. QED
      BY <1>5, <2>1, <2>2, <2>3, <2>4 DEF GateInv

\* The measured allowance, as the report states it.
LEMMA WithinAllowance ==
  ASSUME NEW before \in Int, NEW after \in Int, ~ TooSlow(before, after)
  PROVE  after - before <= (before * Allowance) \div 100
  <1> DEFINE x == before * Allowance
  <1>1. Allowance \in Int /\ x \in Int
    BY GateAssumption
  <1>2. before * (100 + Allowance) = before * 100 + x
    BY <1>1
  <1>3. after * 100 <= before * (100 + Allowance)
    BY <1>1 DEF TooSlow
  <1> HIDE DEF x
  <1>4. after * 100 <= before * 100 + x
    BY <1>2, <1>3
  <1>5. after - before <= x \div 100
    BY <1>1, <1>4
  <1>6. QED
    BY <1>5 DEF x

LEMMA PassedIsCompared ==
  ASSUME GateInv, GatePassed
  PROVE  Compared
  <1> DEFINE old == record["baseline"].p95
             new == record["candidate"].p95
  <1>1. SUFFICES /\ \A l \in Labels : ran[l] = {"build", "tests", "benchmark"}
                 /\ \E s \in Scenarios : s \in DOMAIN new
                 /\ \A s \in Scenarios :
                       s \in DOMAIN old \/ s \in DOMAIN new =>
                          /\ s \in DOMAIN old /\ s \in DOMAIN new
                          /\ new[s] - old[s] <= (old[s] * Allowance) \div 100
                 /\ root = 0 => record["baseline"].source = record["candidate"].source
    BY DEF Compared
  <1>2. /\ args.tests /\ args.benchmark
        /\ \A l \in Labels : record[l].status = "passed"
        /\ NoRegression(old, new)
    BY DEF GatePassed, QualificationComplete
  <1>3. \A l \in Labels : StandsFor(l) /\ record[l].source <= root
    BY <1>2 DEF GateInv
  <1>4. \A l \in Labels : ran[l] \subseteq {"build", "tests", "benchmark"}
    BY DEF GateInv, GateShape, GateTypeOK
  <1>5. \A l \in Labels : ran[l] = {"build", "tests", "benchmark"}
    <2>1. \A l \in Labels : {"build", "tests", "benchmark"} \subseteq ran[l]
      BY <1>2, <1>3 DEF StandsFor
    <2>2. QED
      BY <1>4, <2>1
  <1>6. "baseline" \in Labels /\ "candidate" \in Labels
    BY DEF Labels
  <1>7. old \in Figures /\ new \in Figures
    BY <1>6 DEF GateInv, GateShape, GateTypeOK
  <1>8. \A l \in Labels : record[l].source \in -1 .. MaxRootEdits
    BY DEF GateInv, GateShape, GateTypeOK
  <1>9. root = 0 => record["baseline"].source = record["candidate"].source
    BY <1>3, <1>6, <1>8 DEF StandsFor
  <1> HIDE DEF old, new
  <1>10. DOMAIN new = DOMAIN old /\ DOMAIN new \subseteq Scenarios /\ DOMAIN new # {}
    BY <1>2, <1>7, FiguresAreNumbers DEF NoRegression
  <1>11. ASSUME NEW s \in DOMAIN new
         PROVE  new[s] - old[s] <= (old[s] * Allowance) \div 100
    <2>1. new[s] \in Int /\ old[s] \in Int
      BY <1>7, <1>10, FiguresAreNumbers
    <2>2. ~ TooSlow(old[s], new[s])
      BY <1>2, <1>10 DEF NoRegression
    <2>3. QED
      BY <2>1, <2>2, WithinAllowance
  <1>12. QED
    BY <1>5, <1>9, <1>10, <1>11

\* A report of a run of the gate that says passed, however the run ended, and
\* the exit status 0 mean that both compilers were built, tested and measured,
\* on every scenario that either has measured, and that the candidate is
\* nowhere slower than allowed (main and compare_benchmarks of
\* scripts/compiler_upgrade_gate.py).
THEOREM GateQualifies == GateSpec => []QualifiedMeansCompared
  <1>1. GateInit => GateInv
    BY GateStart
  <1>2. GateInv /\ [GateNext]_gateVars => GateInv'
    BY GateStep
  <1>3. ASSUME GateInv PROVE QualifiedMeansCompared
    <2>1. out \in [by : {"earlier run", "nobody", "this run"}, passed : BOOLEAN]
      BY <1>3 DEF GateInv, GateShape, GateTypeOK
    <2>2. out = [by |-> "this run", passed |-> TRUE] <=> Passing
      <3>1. ASSUME Passing
            PROVE  out = [by |-> "this run", passed |-> TRUE]
        BY <2>1, <3>1 DEF Passing, Ours
      <3>2. ASSUME out = [by |-> "this run", passed |-> TRUE]
            PROVE  Passing
        BY <3>2 DEF Passing, Ours
      <3>3. QED
        BY <3>1, <3>2
    <2>3. (status = 0 => Passing) /\ (Passing => Compared)
      BY <1>3, PassedIsCompared DEF GateInv, ReportFits
    <2>4. QED
      BY <2>2, <2>3 DEF QualifiedMeansCompared
  <1>4. QED
    BY <1>1, <1>2, <1>3, PTL DEF GateSpec

-----------------------------------------------------------------------------
(***************************************************************************)
(* The audit of the compiler's diagnostics: one fold per file counts the   *)
(* constructors of every kind, and the summary adds up the kinds.          *)
(***************************************************************************)

\* The kind a constructor counts for, among the variants v.
Class(v, x) == IF x.kind \in ToSet(v) THEN x.kind ELSE Unknown

Counting(v, counts, x) ==
    [counts EXCEPT ![Class(v, x)].sites = @ + 1,
                   ![Class(v, x)].explicit = IF x.explicit THEN @ + 1 ELSE @]

SitesOf(counts, k) == counts[k].sites
ExplicitOf(counts, k) == counts[k].explicit

AllSites == INSTANCE FoldLemmas WITH Weight <- SitesOf, Step <- Counting
ExplicitSites == INSTANCE FoldLemmas WITH Weight <- ExplicitOf, Step <- Counting

CountsType == [Kinds \cup {Unknown} -> [sites : Nat, explicit : Nat]]

SitesIn(v, S, k) == {x \in S : Class(v, x) = k}
ExplicitIn(v, S, k) == {x \in S : Class(v, x) = k /\ x.explicit}
VagueIn(v, S, k) == {x \in S : Class(v, x) = k /\ ~ x.explicit}

\* The counts are those of the constructors in S.
CountsAre(v, counts, S) ==
    /\ counts \in CountsType
    /\ \A k \in Kinds \cup {Unknown} :
          /\ counts[k].sites = Cardinality(SitesIn(v, S, k))
          /\ counts[k].explicit = Cardinality(ExplicitIn(v, S, k))

\* The constructors of a file, and of the first n of them.
Place(f, i) ==
    [file |-> f, at |-> i, kind |-> sources.files[f][i].kind,
     explicit |-> sources.files[f][i].explicit]

PlacesOf(f) == {Place(f, i) : i \in DOMAIN sources.files[f]}
FirstPlaces(f, n) == {Place(f, i) : i \in 1 .. n}
PlacesIn(D) == UNION {PlacesOf(f) : f \in D}

LEMMA CountingAdds ==
  ASSUME NEW v, NEW counts \in CountsType, NEW x, Class(v, x) \in Kinds \cup {Unknown},
         x.explicit \in BOOLEAN
  PROVE  /\ Counting(v, counts, x) \in CountsType
         /\ \A k \in Kinds \cup {Unknown} :
               /\ Counting(v, counts, x)[k].sites
                     = counts[k].sites + (IF k = Class(v, x) THEN 1 ELSE 0)
               /\ Counting(v, counts, x)[k].explicit
                     = counts[k].explicit + (IF k = Class(v, x) /\ x.explicit THEN 1 ELSE 0)
  <1> DEFINE c == Class(v, x)
             more == IF x.explicit THEN counts[c].explicit + 1 ELSE counts[c].explicit
             entry == [counts[c] EXCEPT !.sites = counts[c].sites + 1, !.explicit = more]
  <1>1. Counting(v, counts, x) = [counts EXCEPT ![c] = entry]
    BY DEF Counting, CountsType
  <1>2. counts[c] \in [sites : Nat, explicit : Nat]
    BY DEF CountsType
  <1>3. /\ entry \in [sites : Nat, explicit : Nat]
        /\ entry.sites = counts[c].sites + 1 /\ entry.explicit = more
    <2>1. counts[c].sites \in Nat /\ counts[c].explicit \in Nat
          /\ counts[c] = [sites |-> counts[c].sites, explicit |-> counts[c].explicit]
      BY <1>2
    <2>2. counts[c].sites + 1 \in Nat /\ more \in Nat
      BY <2>1
    <2>3. entry = [sites |-> counts[c].sites + 1, explicit |-> more]
      <3> DEFINE s == counts[c].sites + 1
                 old == counts[c]
      <3>1. old = [sites |-> old.sites, explicit |-> old.explicit]
        BY <2>1
      <3> HIDE DEF more, s, old
      <3>2. [old EXCEPT !.sites = s] = [sites |-> s, explicit |-> old.explicit]
        BY <3>1
      <3> DEFINE mid == [old EXCEPT !.sites = s]
      <3>3. mid = [sites |-> s, explicit |-> old.explicit]
        BY <3>2
      <3> HIDE DEF mid
      <3>4. [mid EXCEPT !.explicit = more] = [sites |-> s, explicit |-> more]
        BY <3>3
      <3>5. QED
        BY <3>4 DEF mid, s, old
    <2> HIDE DEF more
    <2>4. QED
      BY <2>2, <2>3
  <1> HIDE DEF entry
  <1>4. /\ Counting(v, counts, x) \in CountsType
        /\ \A k \in Kinds \cup {Unknown} :
              Counting(v, counts, x)[k] = IF k = c THEN entry ELSE counts[k]
    BY <1>1, <1>3 DEF CountsType
  <1>5. \A k \in Kinds \cup {Unknown} :
           counts[k].sites \in Nat /\ counts[k].explicit \in Nat
    BY DEF CountsType
  <1> HIDE DEF c
  <1>6. ASSUME NEW k \in Kinds \cup {Unknown}
        PROVE  /\ Counting(v, counts, x)[k].sites
                     = counts[k].sites + (IF k = c THEN 1 ELSE 0)
               /\ Counting(v, counts, x)[k].explicit
                     = counts[k].explicit + (IF k = c /\ x.explicit THEN 1 ELSE 0)
    <2>1. CASE k = c
      BY <1>3, <1>4, <1>5, <2>1
    <2>2. CASE k # c
      BY <1>4, <1>5, <2>2
    <2>3. QED
      BY <2>1, <2>2
  <1>7. QED
    BY <1>4, <1>6 DEF c

\* One more constructor.
LEMMA OneMoreSite ==
  ASSUME NEW v, ToSet(v) \subseteq Kinds, NEW counts, NEW S, IsFiniteSet(S),
         CountsAre(v, counts, S), NEW x, x \notin S, x.explicit \in BOOLEAN
  PROVE  IsFiniteSet(S \cup {x}) /\ CountsAre(v, Counting(v, counts, x), S \cup {x})
  <1> DEFINE T == S \cup {x}
             new == Counting(v, counts, x)
  <1>1. IsFiniteSet(T)
    BY FS_AddElement
  <1>2. Class(v, x) \in Kinds \cup {Unknown}
    BY DEF Class
  <1>3. /\ new \in CountsType
        /\ \A k \in Kinds \cup {Unknown} :
              /\ new[k].sites = counts[k].sites + (IF k = Class(v, x) THEN 1 ELSE 0)
              /\ new[k].explicit
                    = counts[k].explicit + (IF k = Class(v, x) /\ x.explicit THEN 1 ELSE 0)
    BY <1>2, CountingAdds DEF CountsAre
  <1> HIDE DEF new
  <1>4. ASSUME NEW k \in Kinds \cup {Unknown}
        PROVE  /\ new[k].sites = Cardinality(SitesIn(v, T, k))
               /\ new[k].explicit = Cardinality(ExplicitIn(v, T, k))
    <2>1. SitesIn(v, S, k) \in SUBSET S /\ ExplicitIn(v, S, k) \in SUBSET S
      BY DEF SitesIn, ExplicitIn
    <2>2. /\ IsFiniteSet(SitesIn(v, S, k)) /\ IsFiniteSet(ExplicitIn(v, S, k))
          /\ Cardinality(SitesIn(v, S, k)) \in Nat /\ Cardinality(ExplicitIn(v, S, k)) \in Nat
      BY <2>1, FS_Subset, FS_CardinalityType
    <2>3. x \notin SitesIn(v, S, k) /\ x \notin ExplicitIn(v, S, k)
      BY DEF SitesIn, ExplicitIn
    <2>4. /\ counts[k].sites = Cardinality(SitesIn(v, S, k))
          /\ counts[k].explicit = Cardinality(ExplicitIn(v, S, k))
      BY DEF CountsAre
    <2>5. new[k].sites = Cardinality(SitesIn(v, T, k))
      <3>1. CASE k = Class(v, x)
        <4>1. SitesIn(v, T, k) = SitesIn(v, S, k) \cup {x}
          BY <3>1 DEF SitesIn
        <4>2. Cardinality(SitesIn(v, T, k)) = Cardinality(SitesIn(v, S, k)) + 1
          BY <2>2, <2>3, <4>1, FS_AddElement
        <4>3. new[k].sites = counts[k].sites + 1
          BY <1>3, <3>1
        <4>4. QED
          BY <2>4, <4>2, <4>3
      <3>2. CASE k # Class(v, x)
        <4>1. SitesIn(v, T, k) = SitesIn(v, S, k)
          BY <3>2 DEF SitesIn
        <4>2. QED
          BY <1>3, <2>2, <2>4, <3>2, <4>1
      <3>3. QED
        BY <3>1, <3>2
    <2>6. new[k].explicit = Cardinality(ExplicitIn(v, T, k))
      <3>1. CASE k = Class(v, x) /\ x.explicit
        <4>1. ExplicitIn(v, T, k) = ExplicitIn(v, S, k) \cup {x}
          BY <3>1 DEF ExplicitIn
        <4>2. Cardinality(ExplicitIn(v, T, k)) = Cardinality(ExplicitIn(v, S, k)) + 1
          BY <2>2, <2>3, <4>1, FS_AddElement
        <4>3. new[k].explicit = counts[k].explicit + 1
          BY <1>3, <3>1
        <4>4. QED
          BY <2>4, <4>2, <4>3
      <3>2. CASE ~ (k = Class(v, x) /\ x.explicit)
        <4>1. ExplicitIn(v, T, k) = ExplicitIn(v, S, k)
          BY <3>2 DEF ExplicitIn
        <4>2. QED
          BY <1>3, <2>2, <2>4, <3>2, <4>1
      <3>3. QED
        BY <3>1, <3>2
    <2>7. QED
      BY <2>5, <2>6
  <1>5. QED
    BY <1>1, <1>3, <1>4 DEF CountsAre, new

\* One more file.
LEMMA OneMoreFile ==
  ASSUME NEW v, ToSet(v) \subseteq Kinds, NEW counts, NEW S, IsFiniteSet(S),
         CountsAre(v, counts, S),
         NEW f, sources.files[f] \in Seq(Sites), \A x \in S : x.file # f
  PROVE  /\ IsFiniteSet(S \cup PlacesOf(f))
         /\ CountsAre(v, AllSites!Fold(v, counts, sources.files[f]), S \cup PlacesOf(f))
  <1>1. PICK t \in Seq(Sites) : t = sources.files[f]
    OBVIOUS
  <1>2. PICK n \in Nat : n = Len(t) /\ DOMAIN t = 1 .. n /\ \A i \in 1 .. n : t[i] \in Sites
    OBVIOUS
  <1>3. PICK h : /\ h[0] = counts
                 /\ \A k \in 1 .. n : h[k] = Counting(v, h[k - 1], t[k])
                 /\ h[n] = AllSites!Fold(v, counts, t)
    <2>1. \E h : AllSites!ChainOf(v, counts, t, n, h)
      BY <1>2, AllSites!FoldIsChain
    <2>2. QED
      BY <2>1 DEF AllSites!ChainOf
  <1> DEFINE Good(k) == /\ IsFiniteSet(S \cup FirstPlaces(f, k))
                        /\ CountsAre(v, h[k], S \cup FirstPlaces(f, k))
             Bad == {k \in 0 .. n : ~ Good(k)}
  <1>4. Bad = {}
    <2>1. SUFFICES ASSUME Bad # {} PROVE FALSE
      OBVIOUS
    <2>2. PICK k \in Bad : \A m \in Bad : k <= m
      <3>1. Bad \subseteq Nat
        BY <1>2
      <3> HIDE DEF Bad
      <3>2. QED
        BY <2>1, <3>1, AllSites!Summing!SmallestNumber
    <2>3. k \in 0 .. n /\ ~ Good(k)
      OBVIOUS
    <2>4. k # 0
      <3>1. FirstPlaces(f, 0) = {}
        BY DEF FirstPlaces
      <3>2. S \cup FirstPlaces(f, 0) = S
        BY <3>1
      <3>3. Good(0)
        BY <1>3, <3>2
      <3> HIDE DEF Good
      <3>4. QED
        BY <2>3, <3>3
    <2>5. k \in 1 .. n /\ k - 1 \in 0 .. n
      BY <1>2, <2>3, <2>4
    <2>6. Good(k - 1)
      <3> HIDE DEF Good
      <3>1. k - 1 \notin Bad
        <4> HIDE DEF Bad
        <4>1. QED
          BY <2>2, <2>5
      <3>2. QED
        BY <2>5, <3>1
    <2> DEFINE x == Place(f, k)
               U == S \cup FirstPlaces(f, k - 1)
    <2>7. U \cup {x} = S \cup FirstPlaces(f, k)
      <3>1. 1 .. k = (1 .. k - 1) \cup {k}
        BY <2>5
      <3>2. FirstPlaces(f, k) = FirstPlaces(f, k - 1) \cup {Place(f, k)}
        BY ONLY <3>1 DEF FirstPlaces
      <3>3. QED
        BY <3>2
    <2>8. x \notin U
      <3>1. x \notin S
        BY DEF Place
      <3>2. \A i \in 1 .. k - 1 : Place(f, i).at # x.at
        BY <2>5 DEF Place
      <3>3. QED
        BY <3>1, <3>2 DEF FirstPlaces
    <2>9. /\ x.explicit = t[k].explicit /\ x.kind = t[k].kind
          /\ t[k].explicit \in BOOLEAN
      BY <1>1, <1>2, <2>5 DEF Place, Sites
    <2>10. Counting(v, h[k - 1], x) = h[k]
      <3>1. h[k] = Counting(v, h[k - 1], t[k])
        BY <1>3, <2>5
      <3>2. QED
        BY <2>9, <3>1 DEF Counting, Class
    <2> HIDE DEF x, U
    <2>11. IsFiniteSet(U \cup {x}) /\ CountsAre(v, Counting(v, h[k - 1], x), U \cup {x})
      BY <2>6, <2>8, <2>9, OneMoreSite DEF U
    <2>12. Good(k)
      BY <2>7, <2>10, <2>11
    <2>13. QED
      BY <2>3, <2>12
  <1>5. Good(n)
    <2> HIDE DEF Good
    <2>1. n \in 0 .. n
      BY <1>2
    <2>2. QED
      BY <1>4, <2>1
  <1>6. FirstPlaces(f, n) = PlacesOf(f)
    BY <1>1, <1>2 DEF FirstPlaces, PlacesOf
  <1>7. QED
    BY <1>1, <1>3, <1>5, <1>6

\* The model's fold is this one.
LEMMA FoldOfFile ==
  ASSUME NEW counts, NEW seq
  PROVE  FoldLeft(Counted, counts, seq) = AllSites!Fold(tool.variants, counts, seq)
  BY DEF FoldLeft, Counted, MapThenFoldSet, AllSites!Fold, AllSites!FoldLeft,
         AllSites!MapThenFoldSet, Max, AllSites!Max, Counting, Class

-----------------------------------------------------------------------------
(***************************************************************************)
(* The summary.                                                            *)
(***************************************************************************)

LEMMA KindsAreFinite ==
  IsFiniteSet(Kinds) /\ IsFiniteSet(Kinds \cup {Unknown}) /\ Unknown \notin Kinds
  BY AuditAssumption, FS_AddElement

\* The sites of all kinds are all sites.
LEMMA SitesAddUp ==
  ASSUME NEW v, ToSet(v) \subseteq Kinds, NEW counts, NEW S, IsFiniteSet(S),
         CountsAre(v, counts, S)
  PROVE  /\ MapThenSumSet(LAMBDA k : counts[k].sites, DOMAIN counts) = Cardinality(S)
         /\ MapThenSumSet(LAMBDA k : counts[k].explicit, DOMAIN counts)
               = Cardinality({x \in S : x.explicit})
  <1> DEFINE K == Kinds \cup {Unknown}
             class == [x \in S |-> Class(v, x)]
             E == {x \in S : x.explicit}
  <1>1. IsFiniteSet(K) /\ IsFiniteSet(E) /\ DOMAIN counts = K
    BY KindsAreFinite, FS_Subset DEF CountsAre, CountsType
  <1>2. \A x \in S : class[x] = Class(v, x) /\ class[x] \in K
    BY DEF Class
  <1>3. \A k \in K : {x \in S : class[x] = k} = SitesIn(v, S, k)
    BY DEF SitesIn
  <1>4. \A k \in K : {x \in E : class[x] = k} = ExplicitIn(v, S, k)
    BY DEF ExplicitIn
  <1>5. {x \in S : class[x] \in K} = S /\ {x \in E : class[x] \in K} = E
    BY <1>2
  <1>6. E \subseteq S
    OBVIOUS
  <1> HIDE DEF K, class, E
  <1>7. \A k \in K : /\ SitesOf(counts, k) = Cardinality({x \in S : class[x] = k})
                     /\ ExplicitOf(counts, k) = Cardinality({x \in E : class[x] = k})
    BY <1>3, <1>4 DEF CountsAre, SitesOf, ExplicitOf, K
  <1>8. AllSites!Sum(counts, K) = Cardinality(S)
    <2>1. AllSites!IsFiniteSet(K) /\ AllSites!IsFiniteSet(S)
      BY <1>1 DEF IsFiniteSet, AllSites!IsFiniteSet
    <2>2. \A T : AllSites!Cardinality(T) = Cardinality(T)
      BY DEF Cardinality, AllSites!Cardinality
    <2>3. \A k \in K : SitesOf(counts, k) = AllSites!Cardinality({x \in S : class[x] = k})
      BY <1>7, <2>2
    <2>4. AllSites!Sum(counts, K) = AllSites!Cardinality({x \in S : class[x] \in K})
      BY ONLY <2>1, <2>3, AllSites!SumOfClasses
    <2>5. QED
      BY <1>5, <2>2, <2>4
  <1>9. ExplicitSites!Sum(counts, K) = Cardinality(E)
    <2>1. ExplicitSites!IsFiniteSet(K) /\ ExplicitSites!IsFiniteSet(E)
      BY <1>1 DEF IsFiniteSet, ExplicitSites!IsFiniteSet
    <2>2. \A T : ExplicitSites!Cardinality(T) = Cardinality(T)
      BY DEF Cardinality, ExplicitSites!Cardinality
    <2>3. \A k \in K : ExplicitOf(counts, k) = ExplicitSites!Cardinality({x \in E : class[x] = k})
      BY <1>7, <2>2
    <2>4. ExplicitSites!Sum(counts, K) = ExplicitSites!Cardinality({x \in E : class[x] \in K})
      BY ONLY <2>1, <2>3, ExplicitSites!SumOfClasses
    <2>5. QED
      BY <1>5, <2>2, <2>4
  <1>10. MapThenSumSet(LAMBDA k : counts[k].sites, K) = AllSites!Sum(counts, K)
    BY DEF MapThenSumSet, MapThenFoldSet, SitesOf, AllSites!Sum, AllSites!MapThenSumSet,
           AllSites!MapThenFoldSet
  <1>11. MapThenSumSet(LAMBDA k : counts[k].explicit, K) = ExplicitSites!Sum(counts, K)
    BY DEF MapThenSumSet, MapThenFoldSet, ExplicitOf, ExplicitSites!Sum,
           ExplicitSites!MapThenSumSet, ExplicitSites!MapThenFoldSet
  <1>12. QED
    BY <1>1, <1>8, <1>9, <1>10, <1>11 DEF E

Splits(S, A, B) == A \subseteq S /\ B \subseteq S /\ A \cup B = S /\ A \cap B = {}

\* A set is as large as the two parts it is split into.
LEMMA SplitInTwo ==
  ASSUME NEW S, IsFiniteSet(S), NEW A, NEW B, Splits(S, A, B)
  PROVE  /\ Cardinality(A) \in Nat /\ Cardinality(B) \in Nat /\ Cardinality(S) \in Nat
         /\ Cardinality(S) = Cardinality(A) + Cardinality(B)
  <1>1. IsFiniteSet(A) /\ IsFiniteSet(B)
    BY FS_Subset DEF Splits
  <1>2. Cardinality(A) \in Nat /\ Cardinality(B) \in Nat /\ Cardinality(S) \in Nat
    BY <1>1, FS_CardinalityType
  <1>3. Cardinality(A \cup B) = Cardinality(A) + Cardinality(B) - Cardinality(A \cap B)
    BY <1>1, FS_Union
  <1>4. Cardinality(A \cap B) = 0
    BY FS_EmptySet DEF Splits
  <1>5. A \cup B = S
    BY DEF Splits
  <1>6. Cardinality(S) = Cardinality(A) + Cardinality(B) - 0
    BY ONLY <1>3, <1>4, <1>5
  <1>7. Cardinality(S) = Cardinality(A) + Cardinality(B)
    BY ONLY <1>2, <1>6
  <1>8. QED
    BY ONLY <1>2, <1>7

\* What the counts say of one kind.
LEMMA CountsOfKind ==
  ASSUME NEW v, ToSet(v) \subseteq Kinds, NEW counts, NEW S, IsFiniteSet(S),
         CountsAre(v, counts, S), NEW k \in Kinds \cup {Unknown}
  PROVE  /\ counts[k].sites \in Nat /\ counts[k].explicit \in Nat
         /\ counts[k].sites - counts[k].explicit = Cardinality(VagueIn(v, S, k))
         /\ Cardinality(VagueIn(v, S, k)) \in Nat
         /\ counts[k].sites = Cardinality(SitesIn(v, S, k))
         /\ counts[k].sites > 0 <=> SitesIn(v, S, k) # {}
         /\ Cardinality(VagueIn(v, S, k)) > 0 <=> VagueIn(v, S, k) # {}
         /\ VagueIn(v, S, k) \subseteq SitesIn(v, S, k)
  <1> DEFINE A == SitesIn(v, S, k)
             B == ExplicitIn(v, S, k)
             C == VagueIn(v, S, k)
  <1>1. A \subseteq S /\ B \subseteq A /\ C \subseteq A /\ Splits(A, B, C)
    BY DEF SitesIn, ExplicitIn, VagueIn, Splits
  <1>2. counts[k].sites = Cardinality(A) /\ counts[k].explicit = Cardinality(B)
    BY DEF CountsAre
  <1> HIDE DEF A, B, C
  <1>3. IsFiniteSet(A) /\ IsFiniteSet(C)
    BY <1>1, FS_Subset
  <1>4. /\ Cardinality(A) = Cardinality(B) + Cardinality(C)
        /\ Cardinality(A) \in Nat /\ Cardinality(B) \in Nat /\ Cardinality(C) \in Nat
    BY ONLY <1>1, <1>3, SplitInTwo
  <1>5. (Cardinality(A) > 0 <=> A # {}) /\ (Cardinality(C) > 0 <=> C # {})
    BY <1>3, <1>4, FS_EmptySet
  <1>6. counts[k].sites - counts[k].explicit = Cardinality(C)
    BY <1>2, <1>4
  <1>7. QED
    BY <1>1, <1>2, <1>4, <1>5, <1>6 DEF A, C

LEMMA SummaryIsRight ==
  ASSUME NEW v, ToSet(v) \subseteq Kinds, NEW counts, NEW S, IsFiniteSet(S),
         CountsAre(v, counts, S)
  PROVE  LET s == Summary(counts)
             vague(k) == {x \in S : x.kind = k /\ ~ x.explicit}
         IN /\ s \in [sites : Nat, explicit : Nat, default : Nat, classified : Nat,
                      usedKinds : Nat, precise : Nat, vague : Nat]
            /\ s.sites = Cardinality(S)
            /\ s.default = Cardinality({x \in S : ~ x.explicit})
            /\ s.classified = Cardinality({x \in S : x.kind \in ToSet(v)})
            /\ s.vague = Cardinality({k \in ToSet(v) : vague(k) # {}})
            /\ s.precise + s.vague = s.usedKinds
  <1> DEFINE K == Kinds \cup {Unknown}
             E == {x \in S : x.explicit}
             N == {x \in S : ~ x.explicit}
             known == {x \in S : x.kind \in ToSet(v)}
             unknown == SitesIn(v, S, Unknown)
             used == {k \in Kinds : counts[k].sites > 0}
             whole == {k \in used : counts[k].sites - counts[k].explicit = 0}
             part == {k \in used : counts[k].sites - counts[k].explicit > 0}
             vague == {k \in ToSet(v) : {x \in S : x.kind = k /\ ~ x.explicit} # {}}
  <1>1. Cardinality(S) = Cardinality(E) + Cardinality(N)
        /\ Cardinality(S) \in Nat /\ Cardinality(E) \in Nat /\ Cardinality(N) \in Nat
    <2>1. Splits(S, E, N)
      BY DEF Splits
    <2> HIDE DEF E, N
    <2>2. QED
      BY ONLY <2>1, IsFiniteSet(S), SplitInTwo
  <1>2. Cardinality(S) = Cardinality(known) + Cardinality(unknown)
        /\ Cardinality(known) \in Nat /\ Cardinality(unknown) \in Nat
    <2>1. \A x \in S : Class(v, x) = Unknown <=> x.kind \notin ToSet(v)
      BY KindsAreFinite DEF Class
    <2>2. Splits(S, known, unknown)
      BY <2>1 DEF SitesIn, Splits
    <2> HIDE DEF known, unknown
    <2>3. QED
      BY ONLY <2>2, IsFiniteSet(S), SplitInTwo
  <1>3. \A k \in Kinds : /\ counts[k].sites \in Nat /\ counts[k].explicit \in Nat
                         /\ counts[k].sites - counts[k].explicit \in Nat
    <2>1. \A k \in Kinds \cup {Unknown} :
             /\ counts[k].sites \in Nat /\ counts[k].explicit \in Nat
             /\ counts[k].sites - counts[k].explicit \in Nat
      BY ONLY ToSet(v) \subseteq Kinds, IsFiniteSet(S), CountsAre(v, counts, S), CountsOfKind
    <2>2. QED
      BY <2>1
  <1>4. /\ Cardinality(used) = Cardinality(whole) + Cardinality(part)
        /\ Cardinality(used) \in Nat /\ Cardinality(whole) \in Nat /\ Cardinality(part) \in Nat
    <2>1. IsFiniteSet(used)
      BY KindsAreFinite, FS_Subset
    <2>2. \A k \in used : (k \in whole <=> k \notin part) /\ (k \in whole \/ k \in part)
      BY <1>3
    <2>3. whole \subseteq used /\ part \subseteq used
      OBVIOUS
    <2>4. PICK A, B, U : A = whole /\ B = part /\ U = used
      OBVIOUS
    <2> HIDE DEF used, whole, part
    <2>5. Splits(U, A, B)
      BY <2>2, <2>3, <2>4 DEF Splits
    <2>6. IsFiniteSet(U)
      BY <2>1, <2>4
    <2>7. /\ Cardinality(U) = Cardinality(A) + Cardinality(B)
          /\ Cardinality(U) \in Nat /\ Cardinality(A) \in Nat /\ Cardinality(B) \in Nat
      BY ONLY <2>5, <2>6, SplitInTwo
    <2>8. QED
      BY <2>4, <2>7
  <1>5. part = vague
    <2>1. ASSUME NEW k \in Kinds
          PROVE  k \in part <=> k \in vague
      <3> DEFINE A == SitesIn(v, S, k)
                 C == VagueIn(v, S, k)
      <3>1. /\ counts[k].sites > 0 <=> A # {}
            /\ counts[k].sites - counts[k].explicit > 0 <=> C # {}
            /\ C \subseteq A
        BY ONLY k \in Kinds, ToSet(v) \subseteq Kinds, IsFiniteSet(S), CountsAre(v, counts, S),
                CountsOfKind
      <3>2. k \in part <=> C # {}
        BY <3>1
      <3>3. \A x \in S : Class(v, x) = k <=> k \in ToSet(v) /\ x.kind = k
        BY KindsAreFinite DEF Class
      <3>4. C = {x \in S : k \in ToSet(v) /\ x.kind = k /\ ~ x.explicit}
        BY <3>3 DEF VagueIn
      <3> HIDE DEF part
      <3>5. QED
        BY <3>2, <3>4
    <2>2. part \subseteq Kinds /\ vague \subseteq Kinds
      OBVIOUS
    <2> HIDE DEF part, vague
    <2>3. QED
      BY <2>1, <2>2
  <1>6. counts[Unknown].sites = Cardinality(unknown)
    BY ONLY ToSet(v) \subseteq Kinds, IsFiniteSet(S), CountsAre(v, counts, S), CountsOfKind
  <1>7. /\ MapThenSumSet(LAMBDA k : counts[k].sites, DOMAIN counts) = Cardinality(S)
        /\ MapThenSumSet(LAMBDA k : counts[k].explicit, DOMAIN counts) = Cardinality(E)
    BY SitesAddUp
  <1>8. Summary(counts) =
           [sites |-> Cardinality(S), explicit |-> Cardinality(E),
            default |-> Cardinality(S) - Cardinality(E),
            classified |-> Cardinality(S) - Cardinality(unknown),
            usedKinds |-> Cardinality(used), precise |-> Cardinality(whole),
            vague |-> Cardinality(part)]
    BY <1>6, <1>7 DEF Summary
  <1> HIDE DEF E, N, known, unknown, used, whole, part, vague
  <1>9. /\ Cardinality(S) - Cardinality(E) = Cardinality(N)
        /\ Cardinality(S) - Cardinality(unknown) = Cardinality(known)
    BY <1>1, <1>2
  <1>10. Summary(counts) =
           [sites |-> Cardinality(S), explicit |-> Cardinality(E),
            default |-> Cardinality(N), classified |-> Cardinality(known),
            usedKinds |-> Cardinality(used), precise |-> Cardinality(whole),
            vague |-> Cardinality(vague)]
    BY <1>5, <1>8, <1>9
  <1>11. /\ Summary(counts) \in [sites : Nat, explicit : Nat, default : Nat, classified : Nat,
                                 usedKinds : Nat, precise : Nat, vague : Nat]
         /\ Summary(counts).sites = Cardinality(S)
         /\ Summary(counts).default = Cardinality(N)
         /\ Summary(counts).classified = Cardinality(known)
         /\ Summary(counts).vague = Cardinality(vague)
         /\ Summary(counts).precise = Cardinality(whole)
         /\ Summary(counts).usedKinds = Cardinality(used)
    BY <1>1, <1>2, <1>4, <1>5, <1>10
  <1>12. Cardinality(whole) + Cardinality(vague) = Cardinality(used)
    BY <1>4, <1>5
  <1>13. QED
    BY <1>11, <1>12 DEF N, known, vague

-----------------------------------------------------------------------------
(***************************************************************************)
(* The runs of the two tools.                                              *)
(***************************************************************************)

AuditShape ==
    /\ sources \in [enum : Enums, files : [Sources -> Texts \cup {Broken}]]
    /\ tool = [name |-> tool.name, check |-> tool.check, at |-> tool.at,
               variants |-> tool.variants, left |-> tool.left,
               counts |-> tool.counts, exit |-> tool.exit]
    /\ tool.name \in {"codes", "spans"}
    /\ tool.at \in {"rest", "enum", "adapter", "scan"}

\* The files that are no longer left have been counted, and none was broken.
CountedSoFar ==
    /\ \A g \in Sources \ tool.left : sources.files[g] # Broken
    /\ IsFiniteSet(PlacesIn(Sources \ tool.left))
    /\ CountsAre(tool.variants, tool.counts, PlacesIn(Sources \ tool.left))

\* Beyond the property: while nobody edits the sources, a run holds the variants
\* of the enum as it is, and the counts of the files it has read.
AuditInv ==
    /\ AuditShape
    /\ tool.at = "enum" => tool.counts = Counts
    /\ tool.at = "adapter" => tool.name = "codes"
    /\ tool.at = "scan" => tool.name = "spans" /\ tool.left \subseteq Sources
    /\ (tool.at \in {"adapter", "scan"} /\ steady) =>
          tool.variants = sources.enum /\ WellFormed(sources.enum)
    /\ (tool.at = "scan" /\ steady) => CountedSoFar
    /\ AuditMatchesSources

LEMMA VariantsAreKinds ==
  ASSUME AuditShape
  PROVE  sources.enum \in Seq(Kinds) /\ ToSet(sources.enum) \subseteq Kinds
  BY AuditAssumption DEF AuditShape, ToSet

\* No variant occurs twice.
LEMMA OncePerVariant ==
  ASSUME NEW v \in Seq(Kinds), WellFormed(v), NEW k \in ToSet(v)
  PROVE  Cardinality({i \in DOMAIN v : v[i] = k}) = 1
  <1> DEFINE D == 1 .. Len(v)
             T == ToSet(v)
  <1>1. Len(v) \in Nat /\ DOMAIN v = D /\ Cardinality(T) = Len(v)
    BY DEF WellFormed
  <1>2. IsFiniteSet(D) /\ Cardinality(D) = Len(v)
    <2>1. PICK n \in Nat : n = Len(v)
      BY <1>1
    <2>2. IsFiniteSet(1 .. n) /\ Cardinality(1 .. n) = n
      BY FS_Interval
    <2>3. QED
      BY <2>1, <2>2
  <1>3. v \in Surjection(D, T)
    BY <1>1 DEF Surjection, ToSet
  <1>4. v \in Injection(D, T)
    <2> HIDE DEF D, T
    <2>1. QED
      BY <1>1, <1>2, <1>3, FS_Surjection
  <1>5. PICK i \in D : v[i] = k
    BY <1>1 DEF ToSet
  <1>6. \A j \in D : v[j] = k => j = i
    BY <1>4, <1>5 DEF Injection, IsInjective
  <1>7. {j \in DOMAIN v : v[j] = k} = {i}
    BY <1>1, <1>5, <1>6
  <1>8. QED
    BY <1>7, FS_Singleton

\* The counts of all files make an inventory that describes them.
LEMMA RenderedDescribes ==
  ASSUME AuditInv, tool.at = "scan", tool.left = {}, steady
  PROVE  Rendered # Absent /\ Describes(Rendered)
  <1> DEFINE v == tool.variants
             S == PlacesIn(Sources)
             s == Summary(tool.counts)
  <1>1. /\ v = sources.enum /\ v \in Seq(Kinds) /\ ToSet(v) \subseteq Kinds
        /\ sources \in [enum : Enums, files : [Sources -> Texts \cup {Broken}]]
    BY VariantsAreKinds DEF AuditInv, AuditShape
  <1>2. /\ IsFiniteSet(S) /\ CountsAre(v, tool.counts, S)
        /\ \A g \in Sources : sources.files[g] # Broken
    <2>1. Sources \ tool.left = Sources
      OBVIOUS
    <2>2. QED
      BY <2>1 DEF AuditInv, CountedSoFar
  <1>3. Constructors = S
    <2>1. {g \in Sources : sources.files[g] # Broken} = Sources
      BY <1>2
    <2>2. QED
      BY <2>1 DEF Constructors, PlacesIn, PlacesOf, Place
  <1> HIDE DEF S
  <1>4. /\ s \in [sites : Nat, explicit : Nat, default : Nat, classified : Nat,
                  usedKinds : Nat, precise : Nat, vague : Nat]
        /\ s.sites = Cardinality(S)
        /\ s.default = Cardinality({x \in S : ~ x.explicit})
        /\ s.classified = Cardinality({x \in S : x.kind \in ToSet(v)})
        /\ s.vague = Cardinality({k \in ToSet(v) : {x \in S : x.kind = k /\ ~ x.explicit} # {}})
        /\ s.precise + s.vague = s.usedKinds
    BY <1>1, <1>2, SummaryIsRight
  <1>5. ASSUME NEW k \in ToSet(v)
        PROVE  /\ tool.counts[k].sites = Cardinality({x \in S : x.kind = k})
               /\ tool.counts[k].sites - tool.counts[k].explicit
                     = Cardinality({x \in S : x.kind = k /\ ~ x.explicit})
    <2>1. k \in Kinds
      BY <1>1
    <2>2. /\ tool.counts[k].sites = Cardinality(SitesIn(v, S, k))
          /\ tool.counts[k].sites - tool.counts[k].explicit = Cardinality(VagueIn(v, S, k))
      <3> HIDE DEF v
      <3>1. QED
        BY <1>1, <1>2, <2>1, CountsOfKind
    <2>3. \A x : Class(v, x) = k <=> x.kind = k
      BY <2>1, KindsAreFinite DEF Class
    <2>4. SitesIn(v, S, k) = {x \in S : x.kind = k}
          /\ VagueIn(v, S, k) = {x \in S : x.kind = k /\ ~ x.explicit}
      BY <2>3 DEF SitesIn, VagueIn
    <2>5. QED
      BY <2>2, <2>4
  <1> HIDE DEF s
  <1>6. Rendered = [variants |-> v, counts |-> tool.counts, summary |-> s, fingerprint |-> sources]
    BY DEF Rendered, s
  <1>7. Rendered # Absent
    <2>1. tool.counts \in [Kinds \cup {Unknown} -> [sites : Nat, explicit : Nat]]
      BY <1>2 DEF CountsAre, CountsType
    <2> HIDE DEF v
    <2>2. Rendered \in Inventory
      BY <1>1, <1>4, <1>6, <2>1 DEF Inventory
    <2>3. QED
      BY <2>2, AbsentAssumption
  <1>8. /\ Rendered.variants = v /\ Rendered.counts = tool.counts
        /\ Rendered.summary = s /\ Rendered.fingerprint = sources
    BY <1>6
  <1>9. \A k : Missing(k) = {x \in S : x.kind = k /\ ~ x.explicit}
    BY <1>3 DEF Missing
  <1>10. {k \in ToSet(v) : Missing(k) # {}}
            = {k \in ToSet(v) : {x \in S : x.kind = k /\ ~ x.explicit} # {}}
    BY <1>9
  <1>11. Describes(Rendered)
    <2>1. ToSet(sources.enum) = ToSet(v)
      BY <1>1
    <2>2. \A k \in ToSet(v) :
             /\ Rendered.counts[k].sites = Cardinality({c \in Constructors : c.kind = k})
             /\ Rendered.counts[k].sites - Rendered.counts[k].explicit = Cardinality(Missing(k))
      BY <1>3, <1>5, <1>8, <1>9
    <2> HIDE DEF v
    <2>3. QED
      BY <1>1, <1>3, <1>4, <1>8, <1>10, <2>1, <2>2 DEF Describes
  <1>12. QED
    BY <1>7, <1>11

\* Every step of a run, and every edit, keeps the invariant.
LEMMA AuditStep ==
  ASSUME AuditInv, [AuditNext]_auditVars
  PROVE  AuditInv'
  <1>1. AuditShape
    BY DEF AuditInv
  <1>2. ASSUME NEW name \in {"codes", "spans"}, NEW check \in BOOLEAN, Run(name, check)
        PROVE  AuditInv'
    <2>1. tool' = [name |-> name, check |-> check, at |-> "enum", variants |-> <<>>,
                   left |-> {}, counts |-> Counts, exit |-> -1]
      BY <1>2 DEF Run, Resting
    <2>2. /\ tool'.name = name /\ tool'.at = "enum" /\ tool'.counts = Counts
          /\ tool'.check = check /\ tool'.variants = <<>> /\ tool'.left = {}
          /\ tool'.exit = -1
      BY <2>1
    <2>3. UNCHANGED sources
      BY <1>2 DEF Run
    <2>4. AuditShape'
      BY <1>1, <2>1, <2>2, <2>3 DEF AuditShape
    <2>5. AuditMatchesSources'
      BY <2>2 DEF AuditMatchesSources
    <2>6. QED
      BY <2>2, <2>4, <2>5 DEF AuditInv
  \* The run ends, with a status other than 0 or with a committed file that is right.
  <1>3. ASSUME NEW n, tool' = Exits(n), UNCHANGED sources, steady' = steady,
               n = 0 /\ steady =>
                  IF tool.name = "codes"
                  THEN /\ adapter' = sources.enum
                       /\ \A k \in ToSet(sources.enum) :
                             Cardinality({i \in DOMAIN adapter' : adapter'[i] = k}) = 1
                  ELSE inventory' # Absent /\ Describes(inventory')
        PROVE  AuditInv'
    <2>1. /\ tool'.name = tool.name /\ tool'.at = "rest" /\ tool'.exit = n
          /\ tool' = [name |-> tool'.name, check |-> tool'.check, at |-> tool'.at,
                      variants |-> tool'.variants, left |-> tool'.left,
                      counts |-> tool'.counts, exit |-> tool'.exit]
      BY <1>1, <1>3 DEF AuditShape, Exits
    <2>2. AuditShape'
      BY <1>1, <1>3, <2>1 DEF AuditShape
    <2>3. AuditMatchesSources'
      <3>1. \A i : Describes(i)' <=> Describes(i)
        BY <1>3 DEF Describes, Constructors, Missing
      <3>2. QED
        BY <1>3, <2>1, <3>1 DEF AuditMatchesSources, Describes, Constructors, Missing
    <2>4. QED
      BY <2>1, <2>2, <2>3 DEF AuditInv
  <1>4. CASE ReadEnum
    <2>1. CASE ~ WellFormed(sources.enum)
      BY <1>3, <1>4, <2>1 DEF ReadEnum
    <2>2. CASE WellFormed(sources.enum)
      <3> DEFINE at == IF tool.name = "codes" THEN "adapter" ELSE "scan"
      <3>1. /\ tool.counts = Counts /\ UNCHANGED <<sources, steady>>
            /\ tool' = [tool EXCEPT !.variants = sources.enum, !.left = Sources, !.at = at]
        BY <1>4, <2>2 DEF ReadEnum, AuditInv
      <3>2. /\ tool' = [name |-> tool.name, check |-> tool.check, at |-> at,
                        variants |-> sources.enum, left |-> Sources,
                        counts |-> tool.counts, exit |-> tool.exit]
            /\ tool'.name = tool.name /\ tool'.check = tool.check /\ tool'.at = at
            /\ tool'.variants = sources.enum /\ tool'.left = Sources
            /\ tool'.counts = Counts /\ tool'.exit = tool.exit
        <4> HIDE DEF at
        <4>1. QED
          BY <1>1, <3>1 DEF AuditShape
      <3>3. AuditShape'
        BY <1>1, <3>1, <3>2 DEF AuditShape
      <3>4. CountedSoFar'
        <4>1. Sources \ tool'.left = {}
          BY <3>2
        <4>2. PlacesIn({})' = {} /\ IsFiniteSet({})
          BY FS_EmptySet DEF PlacesIn
        <4>3. CountsAre(tool'.variants, tool'.counts, {})
          <5>1. \A k : SitesIn(tool'.variants, {}, k) = {} /\ ExplicitIn(tool'.variants, {}, k) = {}
            BY DEF SitesIn, ExplicitIn
          <5>2. /\ Counts \in CountsType
                /\ \A k \in Kinds \cup {Unknown} : Counts[k].sites = 0 /\ Counts[k].explicit = 0
            BY DEF Counts, CountsType
          <5>3. QED
            BY <3>2, <5>1, <5>2, FS_EmptySet DEF CountsAre
        <4>4. QED
          BY <4>1, <4>2, <4>3 DEF CountedSoFar
      <3>5. WellFormed(sources.enum)'
        BY <2>2, <3>1
      <3>6. AuditMatchesSources'
        BY <3>2 DEF AuditMatchesSources
      <3>7. QED
        BY <1>1, <3>1, <3>2, <3>3, <3>4, <3>5, <3>6 DEF AuditInv, AuditShape
    <2>3. QED
      BY <2>1, <2>2
  <1>5. ASSUME tool.at = "adapter", steady, adapter' = tool.variants
        PROVE  /\ adapter' = sources.enum
               /\ \A k \in ToSet(sources.enum) :
                     Cardinality({i \in DOMAIN adapter' : adapter'[i] = k}) = 1
    <2>1. adapter' = sources.enum /\ WellFormed(sources.enum)
      BY <1>5 DEF AuditInv
    <2>2. QED
      BY <1>1, <2>1, VariantsAreKinds, OncePerVariant
  <1>6. CASE WriteAdapter
    <2>1. tool.name = "codes"
      BY <1>6 DEF WriteAdapter, AuditInv
    <2>2. QED
      BY <1>3, <1>5, <1>6, <2>1 DEF WriteAdapter
  <1>7. CASE CheckAdapter
    <2>1. tool.name = "codes"
      BY <1>7 DEF CheckAdapter, AuditInv
    <2> DEFINE n == IF adapter = Absent THEN 2 ELSE IF adapter = tool.variants THEN 0 ELSE 1
    <2>2. n = 0 => adapter = tool.variants
      OBVIOUS
    <2>3. tool' = Exits(n) /\ UNCHANGED <<sources, adapter, steady>> /\ tool.at = "adapter"
      BY <1>7 DEF CheckAdapter
    <2> HIDE DEF n
    <2>4. QED
      BY <1>3, <1>5, <2>1, <2>2, <2>3
  <1>8. CASE ScanFile
    <2>1. PICK f \in tool.left :
             tool' = IF sources.files[f] = Broken THEN Exits(2)
                     ELSE [tool EXCEPT !.left = @ \ {f},
                                       !.counts = FoldLeft(Counted, @, sources.files[f])]
      BY <1>8 DEF ScanFile
    <2>2. /\ tool.at = "scan" /\ tool.name = "spans" /\ f \in Sources
          /\ tool.left \subseteq Sources /\ UNCHANGED <<sources, adapter, inventory, steady>>
      BY <1>8 DEF ScanFile, AuditInv
    <2>3. CASE sources.files[f] = Broken
      BY <1>3, <2>1, <2>2, <2>3
    <2>4. PICK left : left = tool.left \ {f}
      OBVIOUS
    <2>5. CASE sources.files[f] # Broken
      <3> DEFINE counts == FoldLeft(Counted, tool.counts, sources.files[f])
      <3>1. tool' = [tool EXCEPT !.left = left, !.counts = counts]
        BY <2>1, <2>4, <2>5
      <3>2. counts = AllSites!Fold(tool.variants, tool.counts, sources.files[f])
        BY FoldOfFile
      <3> HIDE DEF counts
      <3>3. /\ tool'.name = tool.name /\ tool'.at = tool.at /\ tool'.variants = tool.variants
            /\ tool'.left = left /\ tool'.counts = counts
            /\ tool' = [name |-> tool'.name, check |-> tool'.check, at |-> tool'.at,
                        variants |-> tool'.variants, left |-> tool'.left,
                        counts |-> tool'.counts, exit |-> tool'.exit]
        BY <1>1, <3>1 DEF AuditShape
      <3>4. AuditShape'
        BY <1>1, <2>2, <3>3 DEF AuditShape
      <3>5. ASSUME steady
            PROVE  CountedSoFar'
        <4> DEFINE D == Sources \ tool.left
                   S == PlacesIn(D)
        <4>1. Sources \ left = D \cup {f}
          BY <2>2, <2>4
        <4>2. PlacesIn(D \cup {f}) = S \cup PlacesOf(f)
          BY DEF PlacesIn
        <4>3. \A x \in S : x.file # f
          BY DEF PlacesIn, PlacesOf, Place
        <4>4. sources.files[f] \in Seq(Sites)
          BY <1>1, <2>2, <2>5, AuditAssumption DEF AuditShape
        <4>5. /\ \A g \in D : sources.files[g] # Broken
              /\ IsFiniteSet(S) /\ CountsAre(tool.variants, tool.counts, S)
              /\ ToSet(tool.variants) \subseteq Kinds
          BY <1>1, <2>2, <3>5, VariantsAreKinds DEF AuditInv, CountedSoFar
        <4> HIDE DEF D, S
        <4>6. /\ IsFiniteSet(S \cup PlacesOf(f))
              /\ CountsAre(tool.variants, counts, S \cup PlacesOf(f))
          BY <3>2, <4>3, <4>4, <4>5, OneMoreFile
        <4>7. \A T : PlacesIn(T)' = PlacesIn(T)
          BY <2>2 DEF PlacesIn, PlacesOf, Place
        <4>8. \A g \in D \cup {f} : sources.files[g] # Broken
          BY <2>5, <4>5
        <4>9. PlacesIn(Sources \ left)' = S \cup PlacesOf(f)
          BY <2>2, <4>1, <4>2, <4>7 DEF PlacesIn, PlacesOf, Place
        <4>10. QED
          BY <2>2, <3>3, <4>1, <4>6, <4>8, <4>9 DEF CountedSoFar
      <3>6. AuditMatchesSources'
        BY <2>2, <3>3 DEF AuditMatchesSources
      <3>7. (tool.variants = sources.enum /\ WellFormed(sources.enum))' <=>
               (tool.variants = sources.enum /\ WellFormed(sources.enum))
        BY <2>2, <3>3
      <3>8. tool'.left \subseteq Sources
        BY <2>2, <2>4, <3>3
      <3>9. QED
        BY <2>2, <3>3, <3>4, <3>5, <3>6, <3>7, <3>8 DEF AuditInv
    <2>6. QED
      BY <2>3, <2>5
  <1>9. CASE WriteInventory
    <2>1. tool.at = "scan" /\ tool.left = {} /\ tool.name = "spans"
          /\ inventory' = Rendered /\ tool' = Exits(0) /\ UNCHANGED <<sources, steady>>
      BY <1>9 DEF WriteInventory, AuditInv
    <2>2. QED
      BY <1>3, <2>1, RenderedDescribes
  <1>10. CASE CheckInventory
    <2> DEFINE n == IF inventory # Absent /\ inventory = Rendered THEN 0 ELSE 2
    <2>1. n = 0 => inventory = Rendered
      OBVIOUS
    <2>2. tool.at = "scan" /\ tool.left = {} /\ tool.name = "spans"
          /\ tool' = Exits(n) /\ UNCHANGED <<sources, inventory, steady>>
      BY <1>10 DEF CheckInventory, AuditInv
    <2> HIDE DEF n
    <2>3. QED
      BY <1>3, <2>1, <2>2, RenderedDescribes
  <1>11. CASE Touch
    <2>1. tool' = tool /\ steady' = FALSE
          /\ sources' \in [enum : Enums, files : [Sources -> Texts \cup {Broken}]]
      <3>1. sources \in [enum : Enums, files : [Sources -> Texts \cup {Broken}]]
        BY <1>1 DEF AuditShape
      <3>2. CASE \E e \in Enums : sources' = [sources EXCEPT !.enum = e]
        BY <1>11, <3>1, <3>2 DEF Touch
      <3>3. ASSUME NEW f \in Sources, NEW t \in Texts, sources' = [sources EXCEPT !.files[f] = t]
            PROVE  sources' \in [enum : Enums, files : [Sources -> Texts \cup {Broken}]]
        BY <3>1, <3>3
      <3>4. QED
        BY <1>11, <3>2, <3>3 DEF Touch
    <2>2. AuditShape'
      BY <1>1, <2>1 DEF AuditShape
    <2>3. AuditMatchesSources'
      BY <2>1 DEF AuditMatchesSources
    <2>4. QED
      BY <2>1, <2>2, <2>3 DEF AuditInv
  <1>12. CASE UNCHANGED auditVars
    <2>1. AuditMatchesSources'
      <3>1. UNCHANGED <<sources, adapter, inventory, tool, steady>>
        BY <1>12 DEF auditVars
      <3>2. Describes(inventory)' <=> Describes(inventory)
        BY <3>1 DEF Describes, Constructors, Missing
      <3>3. QED
        BY <3>1, <3>2 DEF AuditInv, AuditMatchesSources
    <2>2. CountedSoFar' <=> CountedSoFar
      BY <1>12 DEF auditVars, CountedSoFar, PlacesIn, PlacesOf, Place
    <2>3. AuditShape'
      BY <1>1, <1>12 DEF auditVars, AuditShape
    <2>4. QED
      BY <1>12, <2>1, <2>2, <2>3 DEF auditVars, AuditInv
  <1>13. QED
    BY <1>2, <1>4, <1>6, <1>7, <1>8, <1>9, <1>10, <1>11, <1>12 DEF AuditNext

LEMMA AuditStart ==
  ASSUME AuditInit
  PROVE  AuditInv
  <1>1. tool = [name |-> "codes", check |-> FALSE, at |-> "rest", variants |-> <<>>,
                left |-> {}, counts |-> Counts, exit |-> -1]
    BY DEF AuditInit, Resting
  <1>2. tool.at = "rest" /\ tool.exit = -1 /\ tool.name = "codes" /\ tool.check = FALSE
        /\ tool.variants = <<>> /\ tool.left = {} /\ tool.counts = Counts
    BY <1>1
  <1>3. AuditShape
    BY <1>1, <1>2 DEF AuditInit, AuditShape
  <1>4. AuditMatchesSources
    BY <1>2 DEF AuditMatchesSources
  <1>5. QED
    BY <1>2, <1>3, <1>4 DEF AuditInv

\* A run that ends with status 0 while nobody edits the sources leaves, or has
\* found, a committed file that is right for them: every kind is mapped once,
\* and the inventory's counts and totals are those of all constructors of all
\* files (main of scripts/generate_diagnostic_codes.py and of
\* scripts/diagnostic_span_inventory.py).
THEOREM AuditIsRight == AuditSpec => []AuditMatchesSources
  <1>1. AuditInit => AuditInv
    BY AuditStart
  <1>2. AuditInv /\ [AuditNext]_auditVars => AuditInv'
    BY AuditStep
  <1>3. AuditInv => AuditMatchesSources
    BY DEF AuditInv
  <1>4. QED
    BY <1>1, <1>2, <1>3, PTL DEF AuditSpec

-----------------------------------------------------------------------------
(***************************************************************************)
(* The scan of one constructor: the lexer of the reference.                *)
(***************************************************************************)
IsText == source \in Seq(ToSet(source))

\* The equations of the lexer and of the end of a literal.
LexedValue(p, f, i) == IF i = 1 THEN Lex("code", 0) ELSE LexedBy(f[i - 1], i - 1)
LexedRank(p, i) == i

EndValue(delimiter, f, j) ==
    IF j >= End THEN End
    ELSE IF At(j) # "\\" /\ Stands(delimiter, j) THEN j + Len(delimiter)
    ELSE f[j + LiteralStep(j)]
EndRank(delimiter, j) == End + 1 - j

Lexing == INSTANCE RecursionTheorems WITH Value <- LexedValue, Rank <- LexedRank
Ending == INSTANCE RecursionTheorems WITH Value <- EndValue, Rank <- EndRank

LEMMA TextFacts ==
  ASSUME IsText
  PROVE  /\ Len(source) \in Nat /\ DOMAIN source = 1 .. Len(source)
         /\ End \in Nat /\ End = Len(source) + 1 /\ End >= 1
  <1>1. Len(source) \in Nat /\ DOMAIN source = 1 .. Len(source)
    BY DEF IsText
  <1>2. QED
    BY <1>1 DEF End

LEMMA CharacterFacts ==
  ASSUME NEW i
  PROVE  /\ i \in 1 .. Len(source) => At(i) = source[i]
         /\ At(i) # "" => i \in 1 .. Len(source)
  BY DEF At

LEMMA PlaceFacts ==
  ASSUME IsText, NEW p \in 1 .. Len(source)
  PROVE  /\ Len(source) \in Nat /\ End \in Nat /\ End = Len(source) + 1 /\ p \in Int /\ 1 <= p /\ p < End
         /\ At(p) = source[p]
  <1>1. Len(source) \in Nat /\ End = Len(source) + 1
    BY TextFacts
  <1>2. At(p) = source[p]
    BY CharacterFacts
  <1>3. QED
    BY <1>1, <1>2

\* What was lexed follows from what came before, one character at a time.
LEMMA LexedIs ==
  ASSUME IsText
  PROVE  /\ Lexed[1] = Lex("code", 0)
         /\ \A i \in 1 .. Len(source) : Lexed[i + 1] = LexedBy(Lexed[i], i)
  <1> DEFINE D == 1 .. End
             L == Lexing!Solution(0, D)
  <1>1. Lexed = L
    BY DEF Lexed, Lexing!Solution, LexedValue, Lex
  <1>2. Lexing!Recursive(0, D)
    <2>1. \A x \in D : LexedRank(0, x) \in Nat
      BY TextFacts DEF LexedRank
    <2>2. ASSUME NEW x \in D, NEW g, NEW h,
                 \A y \in D : LexedRank(0, y) < LexedRank(0, x) => g[y] = h[y]
          PROVE  LexedValue(0, g, x) = LexedValue(0, h, x)
      <3>1. CASE x = 1
        BY <3>1 DEF LexedValue
      <3>2. CASE x # 1
        <4>1. x - 1 \in D /\ x - 1 < x
          BY <3>2, TextFacts
        <4>2. g[x - 1] = h[x - 1]
          BY <2>2, <4>1 DEF LexedRank
        <4>3. QED
          BY <3>2, <4>2 DEF LexedValue
      <3>3. QED
        BY <3>1, <3>2
    <2>3. QED
      BY <2>1, <2>2 DEF Lexing!Recursive
  <1> HIDE DEF D
  <1>3. \A x \in D : Lexing!Solution(0, D)[x] = LexedValue(0, Lexing!Solution(0, D), x)
    BY <1>2, Lexing!RecursiveFunction
  <1>4. \A x \in D : L[x] = LexedValue(0, L, x)
    BY <1>3
  <1> HIDE DEF L
  <1>5. 1 \in D
    BY TextFacts DEF D
  <1>6. L[1] = Lex("code", 0)
    BY <1>4, <1>5 DEF LexedValue
  <1>7. ASSUME NEW i \in 1 .. Len(source)
        PROVE  L[i + 1] = LexedBy(L[i], i)
    <2>1. i + 1 \in D /\ i + 1 # 1 /\ (i + 1) - 1 = i
      BY TextFacts DEF D
    <2>2. QED
      BY <1>4, <2>1 DEF LexedValue
  <1>8. QED
    BY <1>1, <1>6, <1>7

\* What the lexer counts down, it counts down everywhere.
LEMMA LexerCounts ==
  ASSUME NEW i, NEW kind
  PROVE  LexedBy(Lex(kind, 2), i) = Lex(kind, 1) /\ LexedBy(Lex(kind, 1), i) = Lex(kind, 0)
  <1>1. \A k, n : Lex(k, n).kind = k /\ Lex(k, n).left = n
    BY DEF Lex
  <1>2. QED
    BY <1>1 DEF LexedBy

\* What the lexer makes of a state, one case after the other.
LEMMA LexerSteps ==
  ASSUME NEW i \in Int
  PROVE  /\ \A kind : LexedBy(Lex(kind, 2), i) = Lex(kind, 1) /\ LexedBy(Lex(kind, 1), i) = Lex(kind, 0)
         /\ LexedBy(Lex("code", 0), i) = Begun(i)
         /\ LexedBy(Lex("comment", 0), i) = Lex(IF At(i) = "\n" THEN "code" ELSE "comment", 0)
         /\ \A kind \in {"single", "double", "triple"} :
               /\ At(i) = "\\" => LexedBy(Lex(kind, 0), i) = Lex(kind, 1)
               /\ At(i) # "\\" /\ ~ Ends(kind, i) => LexedBy(Lex(kind, 0), i) = Lex(kind, 0)
               /\ At(i) # "\\" /\ Ends(kind, i) =>
                     LexedBy(Lex(kind, 0), i) = Lex("code", IF kind = "triple" THEN 2 ELSE 0)
  <1>1. \A k, n : Lex(k, n).kind = k /\ Lex(k, n).left = n
    BY DEF Lex
  <1>2. \A kind : LexedBy(Lex(kind, 2), i) = Lex(kind, 1) /\ LexedBy(Lex(kind, 1), i) = Lex(kind, 0)
    BY <1>1 DEF LexedBy
  <1>3. LexedBy(Lex("code", 0), i) = Begun(i)
    BY <1>1 DEF LexedBy
  <1>4. LexedBy(Lex("comment", 0), i) = Lex(IF At(i) = "\n" THEN "code" ELSE "comment", 0)
    <2>1. Ends("comment", i) <=> At(i) = "\n"
      BY DEF Ends
    <2>2. QED
      BY <1>1, <2>1 DEF LexedBy
  <1>5. ASSUME NEW kind \in {"single", "double", "triple"}
        PROVE  /\ At(i) = "\\" => LexedBy(Lex(kind, 0), i) = Lex(kind, 1)
               /\ At(i) # "\\" /\ ~ Ends(kind, i) => LexedBy(Lex(kind, 0), i) = Lex(kind, 0)
               /\ At(i) # "\\" /\ Ends(kind, i) =>
                     LexedBy(Lex(kind, 0), i) = Lex("code", IF kind = "triple" THEN 2 ELSE 0)
    BY <1>1 DEF LexedBy
  <1>6. QED
    BY <1>2, <1>3, <1>4, <1>5

LEMMA TripleIs ==
  ASSUME NEW i \in Int
  PROVE  Triple(i) <=> At(i) = "\"" /\ At(i + 1) = "\"" /\ At(i + 2) = "\""
  <1>1. 0 .. 2 = {0, 1, 2} /\ i + 0 = i
    OBVIOUS
  <1>2. QED
    BY <1>1 DEF Triple

\* The delimiter of a literal of a kind.
Delimited(kind) ==
    IF kind = "triple" THEN <<"\"", "\"", "\"">> ELSE IF kind = "double" THEN <<"\"">> ELSE <<"'">>

Literals == {"single", "double", "triple"}

LEMMA DelimiterEnds ==
  ASSUME NEW kind \in Literals, NEW j \in Int
  PROVE  /\ Stands(Delimited(kind), j) <=> Ends(kind, j)
         /\ Len(Delimited(kind)) = IF kind = "triple" THEN 3 ELSE 1
  <1>1. CASE kind = "triple"
    <2>1. /\ DOMAIN Delimited(kind) = {1, 2, 3} /\ Len(Delimited(kind)) = 3
          /\ Delimited(kind)[1] = "\"" /\ Delimited(kind)[2] = "\"" /\ Delimited(kind)[3] = "\""
      BY <1>1 DEF Delimited
    <2>2. j + 1 - 1 = j /\ j + 2 - 1 = j + 1 /\ j + 3 - 1 = j + 2
      OBVIOUS
    <2>3. Stands(Delimited(kind), j) <=> At(j) = "\"" /\ At(j + 1) = "\"" /\ At(j + 2) = "\""
      BY <2>1, <2>2 DEF Stands
    <2>4. Ends(kind, j) <=> Triple(j)
      BY <1>1 DEF Ends
    <2>5. QED
      BY <1>1, <2>1, <2>3, <2>4, TripleIs
  <1>2. CASE kind # "triple"
    <2>1. PICK q : q = IF kind = "double" THEN "\"" ELSE "'"
      OBVIOUS
    <2>2. Delimited(kind) = <<q>>
      BY <1>2, <2>1 DEF Delimited
    <2>3. Ends(kind, j) <=> At(j) = q
      BY <1>2, <2>1 DEF Ends, Literals
    <2>4. DOMAIN <<q>> = {1} /\ <<q>>[1] = q /\ Len(<<q>>) = 1 /\ j + 1 - 1 = j
      OBVIOUS
    <2>5. Stands(<<q>>, j) <=> At(j) = q
      BY <2>4 DEF Stands
    <2>6. QED
      BY <1>2, <2>2, <2>3, <2>4, <2>5
  <1>3. QED
    BY <1>1, <1>2

\* The end of a literal, one character or one escape at a time.
LEMMA LiteralEndIs ==
  ASSUME IsText, NEW delimiter
  PROVE  /\ \A j \in 1 .. Len(source) :
               LiteralEnd(j, delimiter) =
                  IF At(j) # "\\" /\ Stands(delimiter, j) THEN j + Len(delimiter)
                  ELSE LiteralEnd(j + LiteralStep(j), delimiter)
         /\ LiteralEnd(End, delimiter) = End /\ LiteralEnd(End + 1, delimiter) = End
  <1> DEFINE D == 1 .. End + 1
             L == Ending!Solution(delimiter, D)
  <1>1. \A j : LiteralEnd(j, delimiter) = L[j]
    BY DEF LiteralEnd, Ending!Solution, EndValue
  <1>2. End \in Nat /\ End = Len(source) + 1 /\ \A j : LiteralStep(j) \in {1, 2}
    BY TextFacts DEF LiteralStep
  <1>3. Ending!Recursive(delimiter, D)
    <2>1. \A x \in D : EndRank(delimiter, x) \in Nat
      BY <1>2 DEF EndRank
    <2>2. ASSUME NEW x \in D, NEW g, NEW h,
                 \A y \in D : EndRank(delimiter, y) < EndRank(delimiter, x) => g[y] = h[y]
          PROVE  EndValue(delimiter, g, x) = EndValue(delimiter, h, x)
      <3>1. CASE x >= End
        BY <3>1 DEF EndValue
      <3>2. CASE ~ (x >= End)
        <4>1. x \in Nat /\ x >= 1 /\ x < End
          BY <1>2, <3>2
        <4>2. PICK y : y = x + LiteralStep(x)
          OBVIOUS
        <4>3. y \in D /\ End + 1 - y < End + 1 - x
          BY <1>2, <4>1, <4>2
        <4>4. g[y] = h[y]
          BY <2>2, <4>3 DEF EndRank
        <4>5. QED
          BY <3>2, <4>2, <4>4 DEF EndValue
      <3>3. QED
        BY <3>1, <3>2
    <2>3. QED
      BY <2>1, <2>2 DEF Ending!Recursive
  <1> HIDE DEF D
  <1>4. \A x \in D : Ending!Solution(delimiter, D)[x] = EndValue(delimiter, Ending!Solution(delimiter, D), x)
    BY <1>3, Ending!RecursiveFunction
  <1>5. \A x \in D : L[x] = EndValue(delimiter, L, x)
    BY <1>4
  <1> HIDE DEF L
  <1>6. ASSUME NEW j \in 1 .. Len(source)
        PROVE  LiteralEnd(j, delimiter) =
                  IF At(j) # "\\" /\ Stands(delimiter, j) THEN j + Len(delimiter)
                  ELSE LiteralEnd(j + LiteralStep(j), delimiter)
    <2>1. j \in D /\ ~ (j >= End)
      BY <1>2 DEF D
    <2>2. QED
      BY <1>1, <1>5, <2>1 DEF EndValue
  <1>7. L[End] = End /\ L[End + 1] = End
    <2>1. End \in D /\ End + 1 \in D /\ End >= End /\ End + 1 >= End
      BY <1>2 DEF D
    <2>2. QED
      BY <1>5, <2>1 DEF EndValue
  <1>8. QED
    BY <1>1, <1>6, <1>7

\* What is code.
LEMMA CodeIs ==
  ASSUME IsText
  PROVE  /\ CodeAt \subseteq 1 .. Len(source)
         /\ \A i \in 1 .. Len(source) :
               i \in CodeAt <=> \/ Lexed[i].kind = "code" /\ source[i] \notin {"#", "\"", "'"}
                                \/ Lexed[i].kind = "comment" /\ source[i] = "\n"
  BY TextFacts DEF CodeAt

\* A literal ends where the lexer has read its end, and has no code in it.
Literal(j, end) ==
    /\ end \in j .. End
    /\ \A i \in j .. end - 1 : i \notin CodeAt
    /\ end < End => Lexed[end] = Lex("code", 0)

LEMMA KindIs == \A kind, left : Lex(kind, left).kind = kind
  BY DEF Lex

LEMMA LiteralScanned ==
  ASSUME IsText, NEW kind \in Literals, NEW start0 \in 1 .. End, Lexed[start0] = Lex(kind, 0)
  PROVE  Literal(start0, LiteralEnd(start0, Delimited(kind)))
  <1> DEFINE EndOf(j) == LiteralEnd(j, Delimited(kind))
             Bad == {n \in Nat : \E j \in 1 .. End : /\ n = End - j /\ Lexed[j] = Lex(kind, 0)
                                                     /\ ~ Literal(j, EndOf(j))}
  <1>1. SUFFICES ASSUME Bad # {} PROVE FALSE
    <2>1. End - start0 \in Nat
      BY TextFacts
    <2>2. QED
      BY <2>1
  <1>2. PICK n \in Bad : \A m \in Bad : n <= m
    <2>1. Bad \subseteq Nat
      OBVIOUS
    <2>2. QED
      BY ONLY <1>1, <2>1, Lexing!SmallestNumber
  <1>3. PICK j \in 1 .. End : n = End - j /\ Lexed[j] = Lex(kind, 0) /\ ~ Literal(j, EndOf(j))
    OBVIOUS
  <1>4. ASSUME NEW k \in 1 .. End, k > j, Lexed[k] = Lex(kind, 0)
        PROVE  Literal(k, EndOf(k))
    <2>1. End - k \in Nat /\ End - k < n
      BY <1>3, <1>4, TextFacts
    <2>2. End - k \notin Bad
      BY <1>2, <2>1
    <2>3. QED
      BY <1>4, <2>1, <2>2
  <1> HIDE DEF Bad
  <1>5. EndOf(End) = End /\ EndOf(End + 1) = End
    BY LiteralEndIs
  <1>6. j # End
    <2>1. Literal(End, End)
      BY TextFacts DEF Literal
    <2>2. QED
      BY <1>3, <1>5, <2>1
  <1>7. /\ j \in 1 .. Len(source) /\ j \in Int /\ End \in Nat /\ End = Len(source) + 1
        /\ At(j) = source[j]
    <2>1. End \in Nat /\ End = Len(source) + 1 /\ Len(source) \in Nat
      BY TextFacts
    <2>2. j \in 1 .. Len(source) /\ j \in Int
      BY <1>3, <1>6, <2>1
    <2>3. QED
      BY <2>1, <2>2, CharacterFacts
  <1>8. EndOf(j) = IF At(j) # "\\" /\ Ends(kind, j) THEN j + Len(Delimited(kind))
                   ELSE EndOf(j + LiteralStep(j))
    BY <1>7, LiteralEndIs, DelimiterEnds
  <1>9. kind # "code" /\ kind # "comment" /\ j \notin CodeAt
    <2>1. kind # "code" /\ kind # "comment"
      BY DEF Literals
    <2>2. Lexed[j].kind = kind
      BY <1>3, KindIs
    <2>3. QED
      BY <1>7, <2>1, <2>2, CodeIs
  <1>10. Lexed[j + 1] = LexedBy(Lex(kind, 0), j)
    BY <1>3, <1>7, LexedIs
  <1>11. CASE At(j) = "\\"
    <2>1. EndOf(j) = EndOf(j + 2) /\ Lexed[j + 1] = Lex(kind, 1)
      BY <1>7, <1>8, <1>10, <1>11, LexerSteps DEF LiteralStep, Literals
    <2>2. CASE j + 1 = End
      <3>1. EndOf(j) = End /\ j + 1 = End
        BY <1>5, <1>7, <2>1, <2>2
      <3>2. Literal(j, End)
        BY <1>7, <1>9, <3>1 DEF Literal
      <3>3. QED
        BY <1>3, <3>1, <3>2
    <2>3. CASE j + 1 # End
      <3>1. j + 1 \in 1 .. Len(source) /\ (j + 1) + 1 = j + 2 /\ j + 2 \in 1 .. End
        BY <1>7, <2>3
      <3>2. j + 1 \notin CodeAt
        <4>1. Lexed[j + 1].kind = kind
          BY <2>1, KindIs
        <4>2. QED
          BY <1>9, <3>1, <4>1, CodeIs
      <3>3. Lexed[j + 2] = Lex(kind, 0)
        BY <2>1, <3>1, LexedIs, LexerSteps
      <3>4. Literal(j + 2, EndOf(j + 2))
        BY <1>4, <1>7, <3>1, <3>3
      <3>5. PICK e : e = EndOf(j + 2)
        OBVIOUS
      <3>6. e \in j .. End /\ \A i \in j .. e - 1 : i = j \/ i = j + 1 \/ i \in j + 2 .. e - 1
        BY <1>7, <3>4, <3>5 DEF Literal
      <3>7. Literal(j, e)
        BY <1>9, <3>2, <3>4, <3>5, <3>6 DEF Literal
      <3>8. QED
        BY <1>3, <2>1, <3>5, <3>7
    <2>4. QED
      BY <2>2, <2>3
  <1>12. CASE At(j) # "\\" /\ ~ Ends(kind, j)
    <2>1. EndOf(j) = EndOf(j + 1) /\ Lexed[j + 1] = Lex(kind, 0)
      BY <1>7, <1>8, <1>10, <1>12, LexerSteps DEF LiteralStep, Literals
    <2>2. Literal(j + 1, EndOf(j + 1))
      BY <1>4, <1>7, <2>1
    <2>3. PICK e : e = EndOf(j + 1)
      OBVIOUS
    <2>4. e \in j .. End /\ \A i \in j .. e - 1 : i = j \/ i \in j + 1 .. e - 1
      BY <1>7, <2>2, <2>3 DEF Literal
    <2>5. Literal(j, e)
      BY <1>9, <2>2, <2>3, <2>4 DEF Literal
    <2>6. QED
      BY <1>3, <2>1, <2>3, <2>5
  <1>13. CASE At(j) # "\\" /\ Ends(kind, j) /\ kind # "triple"
    <2>1. EndOf(j) = j + 1 /\ Lexed[j + 1] = Lex("code", 0)
      BY <1>7, <1>8, <1>10, <1>13, LexerSteps, DelimiterEnds DEF Literals
    <2>2. j + 1 \in j .. End /\ \A i \in j .. (j + 1) - 1 : i = j
      BY <1>7
    <2>3. Literal(j, j + 1)
      BY <1>9, <2>1, <2>2 DEF Literal
    <2>4. QED
      BY <1>3, <2>1, <2>3
  <1>14. CASE At(j) # "\\" /\ Ends(kind, j) /\ kind = "triple"
    <2>1. EndOf(j) = j + 3 /\ Lexed[j + 1] = Lex("code", 2)
      BY <1>7, <1>8, <1>10, <1>14, LexerSteps, DelimiterEnds DEF Literals
    <2>2. At(j + 1) = "\"" /\ At(j + 2) = "\""
      BY <1>7, <1>14, TripleIs DEF Ends
    <2>3. /\ j + 1 \in 1 .. Len(source) /\ j + 2 \in 1 .. Len(source)
          /\ source[j + 1] = "\"" /\ source[j + 2] = "\""
      BY <2>2, CharacterFacts
    <2>4. (j + 1) + 1 = j + 2 /\ (j + 2) + 1 = j + 3
      BY <1>7
    <2>5. Lexed[j + 2] = Lex("code", 1)
      <3>1. LexedBy(Lex("code", 2), j + 1) = Lex("code", 1)
        BY LexerCounts
      <3>2. QED
        BY <2>1, <2>3, <2>4, <3>1, LexedIs
    <2>6. Lexed[j + 3] = Lex("code", 0)
      <3>1. LexedBy(Lex("code", 1), j + 2) = Lex("code", 0)
        BY LexerCounts
      <3>2. QED
        BY <2>3, <2>4, <2>5, <3>1, LexedIs
    <2>7. j + 1 \notin CodeAt /\ j + 2 \notin CodeAt
      <3>1. Lexed[j + 1].kind = "code" /\ Lexed[j + 2].kind = "code"
        BY <2>1, <2>5, KindIs
      <3>2. QED
        BY <2>3, <3>1, CodeIs
    <2>8. j + 3 \in j .. End /\ \A i \in j .. (j + 3) - 1 : i = j \/ i = j + 1 \/ i = j + 2
      <3>1. Len(source) \in Nat
        BY TextFacts
      <3>2. j \in Int /\ j + 2 \in 1 .. Len(source) /\ End = Len(source) + 1
        BY <1>7, <2>3
      <3>3. QED
        BY ONLY <3>1, <3>2
    <2>9. Literal(j, j + 3)
      BY <1>9, <2>6, <2>7, <2>8 DEF Literal
    <2>10. QED
      BY <1>3, <2>1, <2>9
  <1>15. QED
    BY <1>11, <1>12, <1>13, <1>14

\* Where the mask goes on, the lexer is in code, or at the end of a comment.
Ready(p) ==
    p < End => \/ Lexed[p] = Lex("code", 0)
               \/ Lexed[p] = Lex("comment", 0) /\ source[p] = "\n"

\* A literal of a kind begins.
LEMMA LiteralBegins ==
  ASSUME IsText, NEW p \in 1 .. Len(source), Lexed[p] = Lex("code", 0), NEW kind \in Literals,
         At(p) = IF kind = "single" THEN "'" ELSE "\"", kind = "triple" <=> Triple(p)
  PROVE  \E q \in p + 1 .. End : /\ q = p + Len(Delimited(kind)) /\ Delimiter(p) = Delimited(kind)
                                 /\ Lexed[q] = Lex(kind, 0) /\ \A i \in p .. q - 1 : i \notin CodeAt
  <1>1. /\ Len(source) \in Nat /\ End \in Nat /\ End = Len(source) + 1 /\ p \in Int /\ 1 <= p /\ p < End
        /\ At(p) = source[p]
    BY PlaceFacts
  <1>2. p \notin CodeAt
    <2>1. Lexed[p].kind = "code"
      BY KindIs
    <2>2. QED
      BY <1>1, <2>1, CodeIs
  <1>3. Lexed[p + 1] = Begun(p)
    <2>1. LexedBy(Lex("code", 0), p) = Begun(p)
      BY <1>1, LexerSteps
    <2>2. QED
      BY <2>1, LexedIs
  <1>4. CASE kind = "triple"
    <2>1. At(p) = "\"" /\ At(p + 1) = "\"" /\ At(p + 2) = "\""
      BY <1>1, <1>4, TripleIs
    <2>2. p + 1 \in 1 .. Len(source) /\ p + 2 \in 1 .. Len(source)
      BY <2>1, CharacterFacts
    <2>3. Delimiter(p) = Delimited(kind) /\ Len(Delimited(kind)) = 3
      BY <1>4, <2>1 DEF Delimiter, Delimited
    <2>4. Lexed[p + 1] = Lex("triple", 2)
      BY <1>3, <1>4 DEF Begun
    <2>5. (p + 1) + 1 = p + 2 /\ (p + 2) + 1 = p + 3
      BY ONLY <1>1
    <2>6. Lexed[p + 2] = Lex("triple", 1)
      <3>1. LexedBy(Lex("triple", 2), p + 1) = Lex("triple", 1)
        BY LexerCounts
      <3>2. QED
        BY <2>2, <2>4, <2>5, <3>1, LexedIs
    <2>7. Lexed[p + 3] = Lex("triple", 0)
      <3>1. LexedBy(Lex("triple", 1), p + 2) = Lex("triple", 0)
        BY LexerCounts
      <3>2. QED
        BY <2>2, <2>5, <2>6, <3>1, LexedIs
    <2>8. p + 1 \notin CodeAt /\ p + 2 \notin CodeAt
      <3>1. Lexed[p + 1].kind = "triple" /\ Lexed[p + 2].kind = "triple"
        BY <2>4, <2>6, KindIs
      <3>2. QED
        BY <2>2, <3>1, CodeIs
    <2>9. p + 3 \in p + 1 .. End /\ \A i \in p .. (p + 3) - 1 : i = p \/ i = p + 1 \/ i = p + 2
      BY ONLY <1>1, <2>2
    <2>10. \A i \in p .. (p + 3) - 1 : i \notin CodeAt
      BY <1>2, <2>8, <2>9
    <2>11. QED
      BY <1>4, <2>3, <2>7, <2>9, <2>10
  <1>5. CASE kind # "triple"
    <2>1. Delimiter(p) = Delimited(kind) /\ Len(Delimited(kind)) = 1
      <3>1. CASE kind = "single"
        BY <3>1 DEF Delimiter, Delimited
      <3>2. CASE kind # "single"
        <4>1. kind = "double" /\ At(p) = "\"" /\ ~ (At(p + 1) = "\"" /\ At(p + 2) = "\"")
          BY <1>1, <1>5, <3>2, TripleIs DEF Literals
        <4>2. QED
          BY <4>1 DEF Delimiter, Delimited
      <3>3. QED
        BY <3>1, <3>2
    <2>2. Begun(p) = Lex(kind, 0)
      BY <1>5 DEF Begun, Literals
    <2>3. p + 1 \in p + 1 .. End /\ \A i \in p .. (p + 1) - 1 : i = p
      BY ONLY <1>1, TextFacts
    <2>4. \A i \in p .. (p + 1) - 1 : i \notin CodeAt
      BY <1>2, <2>3
    <2>5. QED
      BY <1>3, <2>1, <2>2, <2>3, <2>4
  <1>6. QED
    BY <1>4, <1>5

\* MaskLiteral blanks no code, and stops where code goes on.
LEMMA LiteralMasked ==
  ASSUME IsText, NEW p \in 1 .. Len(source), Ready(p), At(p) \in {"\"", "'"}
  PROVE  LET delimiter == Delimiter(p)
             end == LiteralEnd(p + Len(delimiter), delimiter)
         IN end \in p + 1 .. End /\ Ready(end) /\ \A i \in p .. end - 1 : i \notin CodeAt
  <1>1. /\ Len(source) \in Nat /\ End \in Nat /\ End = Len(source) + 1 /\ p \in Int /\ 1 <= p /\ p < End
        /\ At(p) = source[p]
    BY PlaceFacts
  <1>2. Lexed[p] = Lex("code", 0)
    BY <1>1 DEF Ready
  <1>3. PICK kind \in Literals : /\ At(p) = IF kind = "single" THEN "'" ELSE "\""
                                 /\ kind = "triple" <=> Triple(p)
    <2>1. CASE At(p) = "'"
      <3>1. ~ Triple(p)
        BY <1>1, <2>1, TripleIs
      <3>2. QED
        BY <2>1, <3>1 DEF Literals
    <2>2. CASE At(p) = "\"" /\ Triple(p)
      BY <2>2 DEF Literals
    <2>3. CASE At(p) = "\"" /\ ~ Triple(p)
      BY <2>3 DEF Literals
    <2>4. QED
      BY <2>1, <2>2, <2>3
  <1>4. PICK q \in p + 1 .. End : /\ q = p + Len(Delimited(kind)) /\ Delimiter(p) = Delimited(kind)
                                  /\ Lexed[q] = Lex(kind, 0) /\ \A i \in p .. q - 1 : i \notin CodeAt
    BY <1>2, <1>3, LiteralBegins
  <1>5. PICK e : e = LiteralEnd(q, Delimited(kind))
    OBVIOUS
  <1>6. q \in 1 .. End
    BY ONLY <1>1, q \in p + 1 .. End
  <1>7. Literal(q, e)
    BY <1>4, <1>5, <1>6, LiteralScanned
  <1>8. e \in q .. End /\ e \in p + 1 .. End /\ \A i \in p .. e - 1 : i \in p .. q - 1 \/ i \in q .. e - 1
    <2>1. e \in q .. End
      BY <1>7 DEF Literal
    <2>2. QED
      BY ONLY <1>1, <2>1, q \in p + 1 .. End
  <1>9. \A i \in p .. e - 1 : i \notin CodeAt
    BY <1>4, <1>7, <1>8 DEF Literal
  <1>10. Ready(e)
    BY <1>7 DEF Literal, Ready
  <1>11. QED
    BY <1>4, <1>5, <1>8, <1>9, <1>10

\* The end of a line is the first one.
LEMMA LineEndIs ==
  ASSUME IsText, NEW p \in 1 .. Len(source)
  PROVE  /\ LineEnd(p) \in p .. End
         /\ LineEnd(p) < End => source[LineEnd(p)] = "\n"
         /\ \A i \in p .. LineEnd(p) - 1 : source[i] # "\n"
  <1> DEFINE ends == {j \in p .. Len(source) : source[j] = "\n"}
  <1>1. Len(source) \in Nat /\ End = Len(source) + 1 /\ p \in Int
    BY TextFacts
  <1>2. LineEnd(p) = IF ends = {} THEN End ELSE CHOOSE j \in ends : \A k \in ends : j <= k
    BY DEF LineEnd
  <1>3. CASE ends = {}
    BY <1>1, <1>2, <1>3
  <1>4. CASE ends # {}
    <2>1. ends \subseteq Nat
      BY <1>1
    <2>2. \E j \in ends : \A k \in ends : j <= k
      <3> HIDE DEF ends
      <3>1. QED
        BY <1>4, <2>1, Lexing!SmallestNumber
    <2>3. PICK e : e = LineEnd(p)
      OBVIOUS
    <2>4. e \in ends /\ \A k \in ends : e <= k
      <3> HIDE DEF ends
      <3>1. QED
        BY <1>2, <1>4, <2>2, <2>3
    <2>5. e \in p .. Len(source) /\ source[e] = "\n"
      BY <2>4
    <2>6. ASSUME NEW i \in p .. e - 1
          PROVE  source[i] # "\n"
      <3>1. i \in p .. Len(source) /\ ~ (e <= i)
        BY <1>1, <2>5
      <3>2. QED
        BY <2>4, <3>1
    <2>7. e \in p .. End
      BY <1>1, <2>5
    <2>8. QED
      BY <2>3, <2>5, <2>6, <2>7
  <1>5. QED
    BY <1>3, <1>4

\* MaskComment blanks no code either.
LEMMA CommentMasked ==
  ASSUME IsText, NEW p \in 1 .. Len(source), Ready(p), At(p) = "#"
  PROVE  /\ LineEnd(p) \in p + 1 .. End /\ Ready(LineEnd(p))
         /\ \A i \in p .. LineEnd(p) - 1 : i \notin CodeAt
  <1>1. /\ Len(source) \in Nat /\ End \in Nat /\ End = Len(source) + 1 /\ p \in Int /\ 1 <= p /\ p < End
        /\ At(p) = source[p]
    BY PlaceFacts
  <1>2. Lexed[p] = Lex("code", 0)
    BY <1>1 DEF Ready
  <1>3. PICK e : e = LineEnd(p)
    OBVIOUS
  <1>4. /\ e \in p .. End
        /\ e < End => source[e] = "\n"
        /\ \A i \in p .. e - 1 : source[i] # "\n"
    BY <1>3, LineEndIs
  <1>5. e # p
    BY <1>1, <1>4
  <1> DEFINE Bad == {i \in p + 1 .. e : Lexed[i] # Lex("comment", 0)}
  <1>6. Bad = {}
    <2>1. SUFFICES ASSUME Bad # {} PROVE FALSE
      OBVIOUS
    <2>2. Bad \subseteq Nat
      BY <1>1
    <2>3. PICK i \in Bad : \A k \in Bad : i <= k
      BY ONLY <2>1, <2>2, Lexing!SmallestNumber
    <2>4. i \in p + 1 .. e /\ Lexed[i] # Lex("comment", 0)
      OBVIOUS
    <2>5. CASE i = p + 1
      <3>1. Lexed[p + 1] = Begun(p)
        BY <1>1, <1>2, LexedIs, LexerSteps
      <3>2. Begun(p) = Lex("comment", 0)
        BY <1>1, TripleIs DEF Begun
      <3>3. QED
        BY <2>4, <2>5, <3>1, <3>2
    <2>6. CASE i # p + 1
      <3>1. PICK h : h = i - 1
        OBVIOUS
      <3>2. h \in p + 1 .. e - 1 /\ h + 1 = i /\ h < i /\ h \in 1 .. Len(source) /\ h \in p + 1 .. e
        BY <1>1, <1>4, <2>4, <2>6, <3>1
      <3>3. Lexed[h] = Lex("comment", 0)
        <4>1. h \notin Bad
          BY <2>3, <2>4, <3>2
        <4>2. QED
          BY <3>2, <4>1
      <3>4. At(h) # "\n"
        <4>1. At(h) = source[h]
          BY <3>2, PlaceFacts
        <4>2. h \in p .. e - 1
          BY ONLY <1>1, <3>2
        <4>3. QED
          BY <1>4, <4>1, <4>2
      <3>5. LexedBy(Lex("comment", 0), h) = Lex("comment", 0)
        <4>1. h \in Int
          BY <3>2
        <4>2. QED
          BY <3>4, <4>1, LexerSteps
      <3>6. QED
        BY <2>4, <3>2, <3>3, <3>5, LexedIs
    <2>7. QED
      BY <2>5, <2>6
  <1>7. \A i \in p + 1 .. e : Lexed[i] = Lex("comment", 0)
    BY <1>6
  <1> HIDE DEF Bad
  <1>8. e \in p + 1 .. End
    <2>1. e \in p .. End
      BY <1>4
    <2>2. QED
      BY ONLY <1>1, <2>1, <1>5
  <1>9. ASSUME NEW i \in p .. e - 1
        PROVE  i \notin CodeAt
    <2>1. i \in 1 .. Len(source) /\ source[i] # "\n"
      BY <1>1, <1>4
    <2>2. CASE i = p
      BY <1>1, <2>1, <2>2, CodeIs
    <2>3. CASE i # p
      <3>1. i \in p + 1 .. e
        BY <1>1, <1>4, <2>3
      <3>2. Lexed[i].kind = "comment"
        BY <1>7, <3>1, KindIs
      <3>3. QED
        BY <2>1, <3>2, CodeIs
    <2>4. QED
      BY <2>2, <2>3
  <1>10. Ready(e)
    <2>1. e \in p + 1 .. e
      BY <1>1, <1>8
    <2>2. QED
      BY <1>4, <1>7, <2>1 DEF Ready
  <1>11. QED
    BY <1>3, <1>8, <1>9, <1>10

\* PassCode passes code, or the end of a line.
LEMMA CodePassed ==
  ASSUME IsText, NEW p \in 1 .. Len(source), Ready(p), At(p) \notin {"#", "\"", "'"}
  PROVE  Ready(p + 1) /\ (p \in CodeAt \/ source[p] = "\n")
  <1>1. /\ Len(source) \in Nat /\ End \in Nat /\ End = Len(source) + 1 /\ p \in Int /\ 1 <= p /\ p < End
        /\ At(p) = source[p]
    BY PlaceFacts
  <1>2. CASE Lexed[p] = Lex("code", 0)
    <2>1. Lexed[p + 1] = Begun(p)
      BY <1>1, <1>2, LexedIs, LexerSteps
    <2>2. Begun(p) = Lex("code", 0)
      BY <1>1, TripleIs DEF Begun
    <2>3. Lexed[p].kind = "code"
      BY <1>2, KindIs
    <2>4. QED
      BY <1>1, <2>1, <2>2, <2>3, CodeIs DEF Ready
  <1>3. CASE Lexed[p] = Lex("comment", 0) /\ source[p] = "\n"
    <2>1. LexedBy(Lex("comment", 0), p) = Lex("code", 0)
      BY <1>1, <1>3, LexerSteps
    <2>2. Lexed[p + 1] = Lex("code", 0)
      BY <1>3, <2>1, LexedIs
    <2>3. QED
      BY <1>3, <2>2 DEF Ready
  <1>4. QED
    BY <1>1, <1>2, <1>3 DEF Ready

-----------------------------------------------------------------------------
(***************************************************************************)
(* The scan of one constructor: the mask.                                  *)
(***************************************************************************)
Shown(code, i) == IF i \in code \/ source[i] = "\n" THEN source[i] ELSE " "

MaskedTo(code, m, p) ==
    /\ DOMAIN m = 1 .. Len(source)
    /\ \A i \in 1 .. Len(source) : m[i] = IF i < p THEN Shown(code, i) ELSE source[i]

LEMMA BlankedIs ==
  ASSUME IsText, NEW code, NEW p \in 1 .. End, MaskedTo(code, masked, p), NEW e \in p .. End,
         \A i \in p .. e - 1 : i \notin code
  PROVE  MaskedTo(code, Blanked(p, e), e)
  <1>1. End \in Nat /\ Len(source) \in Nat /\ p \in Int /\ e \in Int /\ p <= e
    BY TextFacts
  <1>2. DOMAIN masked = 1 .. Len(source)
    BY DEF MaskedTo
  <1>3. ASSUME NEW i \in 1 .. Len(source)
        PROVE  Blanked(p, e)[i] = IF i < e THEN Shown(code, i) ELSE source[i]
    <2>1. Blanked(p, e)[i] = IF i \in p .. e - 1 /\ source[i] # "\n" THEN " " ELSE masked[i]
      BY <1>2 DEF Blanked
    <2>2. masked[i] = IF i < p THEN Shown(code, i) ELSE source[i]
      BY DEF MaskedTo
    <2>3. CASE i < p
      <3>1. i < e /\ i \notin p .. e - 1
        BY <1>1, <2>3
      <3>2. QED
        BY <2>1, <2>2, <2>3, <3>1
    <2>4. CASE i \in p .. e - 1
      <3>1. i < e /\ ~ (i < p) /\ i \notin code
        BY <1>1, <2>4
      <3>2. QED
        BY <2>1, <2>2, <2>4, <3>1 DEF Shown
    <2>5. CASE ~ (i < p) /\ i \notin p .. e - 1
      <3>1. ~ (i < e)
        BY <1>1, <2>5
      <3>2. QED
        BY <2>1, <2>2, <2>5, <3>1
    <2>6. QED
      BY <2>3, <2>4, <2>5
  <1>4. DOMAIN Blanked(p, e) = 1 .. Len(source)
    BY <1>2 DEF Blanked
  <1>5. QED
    BY <1>3, <1>4 DEF MaskedTo

LEMMA PassedIs ==
  ASSUME IsText, NEW code, NEW m, NEW p \in 1 .. Len(source), MaskedTo(code, m, p),
         p \in code \/ source[p] = "\n"
  PROVE  MaskedTo(code, m, p + 1)
  <1>1. ASSUME NEW i \in 1 .. Len(source)
        PROVE  m[i] = IF i < p + 1 THEN Shown(code, i) ELSE source[i]
    <2>1. m[i] = IF i < p THEN Shown(code, i) ELSE source[i]
      BY DEF MaskedTo
    <2>2. i < p + 1 <=> i < p \/ i = p
      OBVIOUS
    <2>3. i = p => Shown(code, i) = source[i]
      BY DEF Shown
    <2>4. QED
      BY <2>1, <2>2, <2>3
  <1>2. QED
    BY <1>1 DEF MaskedTo

\* What the mask leaves of a character.
LEMMA MaskLeaves ==
  ASSUME IsText, NEW code, NEW m, MaskedTo(code, m, End), NEW i \in 1 .. Len(source)
  PROVE  /\ m[i] = Shown(code, i)
         /\ i \in code => m[i] = source[i]
         /\ i \notin code => m[i] \in Blanks
         /\ m[i] \in Blanks <=> (i \in code => source[i] \in Blanks)
         /\ m[i] \notin Blanks => i \in code /\ m[i] = source[i]
  <1>1. i < End
    BY PlaceFacts
  <1>2. m[i] = Shown(code, i)
    BY <1>1 DEF MaskedTo
  <1>3. QED
    BY <1>2 DEF Shown, Blanks

-----------------------------------------------------------------------------
(***************************************************************************)
(* The scan of one constructor: the depth of brackets.                     *)
(***************************************************************************)
Before(code, i, chars) == {j \in code : j < i /\ source[j] \in chars}

LEMMA BracketsDiffer == Openers \cap Closers = {}
  BY DEF Openers, Closers

LEMMA BeforeGrows ==
  ASSUME IsText, NEW code, code \subseteq 1 .. Len(source), NEW p \in 1 .. Len(source), NEW chars
  PROVE  /\ Cardinality(Before(code, p, chars)) \in Nat
         /\ p \in code /\ source[p] \in chars =>
               Cardinality(Before(code, p + 1, chars)) = Cardinality(Before(code, p, chars)) + 1
         /\ ~ (p \in code /\ source[p] \in chars) =>
               Cardinality(Before(code, p + 1, chars)) = Cardinality(Before(code, p, chars))
  <1> DEFINE B == Before(code, p, chars)
  <1>1. Len(source) \in Nat /\ p \in Int
    BY PlaceFacts
  <1>2. IsFiniteSet(B)
    <2>1. B \subseteq 1 .. Len(source)
      BY DEF Before
    <2>2. IsFiniteSet(1 .. Len(source))
      BY <1>1, FS_Interval
    <2>3. QED
      BY ONLY <2>1, <2>2, FS_Subset
  <1>3. p \notin B
    BY <1>1 DEF Before
  <1>4. \A j \in code : j \in Int /\ (j < p + 1 <=> j < p \/ j = p)
    BY <1>1
  <1>5. p \in code /\ source[p] \in chars => Before(code, p + 1, chars) = B \cup {p}
    BY <1>4 DEF Before
  <1>6. ~ (p \in code /\ source[p] \in chars) => Before(code, p + 1, chars) = B
    BY <1>4 DEF Before
  <1>7. Cardinality(B) \in Nat /\ Cardinality(B \cup {p}) = Cardinality(B) + 1
    <2> HIDE DEF B
    <2>1. QED
      BY <1>2, <1>3, FS_AddElement, FS_CardinalityType
  <1>8. QED
    BY <1>5, <1>6, <1>7

LEMMA DepthStarts ==
  ASSUME IsText, NEW code, code \subseteq 1 .. Len(source)
  PROVE  DepthAt(code, 1) = 0
  <1>1. \A chars : Before(code, 1, chars) = {}
    <2>1. \A j \in code : ~ (j < 1)
      BY TextFacts
    <2>2. QED
      BY <2>1 DEF Before
  <1>2. DepthAt(code, 1) = Cardinality(Before(code, 1, Openers)) - Cardinality(Before(code, 1, Closers))
    BY DEF DepthAt, Before
  <1>3. DepthAt(code, 1) = Cardinality({}) - Cardinality({})
    BY <1>1, <1>2
  <1>4. Cardinality({}) = 0
    BY FS_EmptySet
  <1>5. QED
    BY <1>3, <1>4

LEMMA DepthStep ==
  ASSUME IsText, NEW code, code \subseteq 1 .. Len(source), NEW p \in 1 .. Len(source)
  PROVE  /\ DepthAt(code, p) \in Int /\ DepthAt(code, p + 1) \in Int
         /\ p \in code /\ source[p] \in Openers => DepthAt(code, p + 1) = DepthAt(code, p) + 1
         /\ p \in code /\ source[p] \in Closers => DepthAt(code, p + 1) = DepthAt(code, p) - 1
         /\ ~ (p \in code /\ source[p] \in Openers \cup Closers) =>
               DepthAt(code, p + 1) = DepthAt(code, p)
  <1>1. \A i : DepthAt(code, i) = Cardinality(Before(code, i, Openers)) - Cardinality(Before(code, i, Closers))
    BY DEF DepthAt, Before
  <1>2. PICK o, c, o2, c2 : /\ o = Cardinality(Before(code, p, Openers))
                            /\ c = Cardinality(Before(code, p, Closers))
                            /\ o2 = Cardinality(Before(code, p + 1, Openers))
                            /\ c2 = Cardinality(Before(code, p + 1, Closers))
    OBVIOUS
  <1>3. /\ o \in Nat
        /\ p \in code /\ source[p] \in Openers => o2 = o + 1
        /\ ~ (p \in code /\ source[p] \in Openers) => o2 = o
    BY <1>2, BeforeGrows
  <1>4. /\ c \in Nat
        /\ p \in code /\ source[p] \in Closers => c2 = c + 1
        /\ ~ (p \in code /\ source[p] \in Closers) => c2 = c
    BY <1>2, BeforeGrows
  <1>5. DepthAt(code, p) = o - c /\ DepthAt(code, p + 1) = o2 - c2
    BY <1>1, <1>2
  <1>6. ~ (source[p] \in Openers /\ source[p] \in Closers)
    BY BracketsDiffer
  <1>7. QED
    BY ONLY <1>3, <1>4, <1>5, <1>6

\* Where there are no brackets the depth stays.
LEMMA DepthKeeps ==
  ASSUME IsText, NEW code, code \subseteq 1 .. Len(source), NEW a \in Int, NEW b \in Int, a <= b,
         \A j \in code : j \in a .. b - 1 => source[j] \notin Openers \cup Closers
  PROVE  DepthAt(code, a) = DepthAt(code, b)
  <1>1. \A i : DepthAt(code, i) = Cardinality(Before(code, i, Openers)) - Cardinality(Before(code, i, Closers))
    BY DEF DepthAt, Before
  <1>2. \A j \in code : j \in Int /\ (j < b <=> j < a \/ j \in a .. b - 1)
    BY TextFacts
  <1>3. Before(code, a, Openers) = Before(code, b, Openers)
    BY <1>2 DEF Before
  <1>4. Before(code, a, Closers) = Before(code, b, Closers)
    BY <1>2 DEF Before
  <1>5. QED
    BY <1>1, <1>3, <1>4

-----------------------------------------------------------------------------
(***************************************************************************)
(* The scan of one constructor: the stack holds the brackets that are      *)
(* open, each at its depth.                                                *)
(***************************************************************************)
OpenAt(code, p, st, s) ==
    \A n \in 1 .. Len(st) :
        /\ s[n] \in code /\ s[n] < p /\ source[s[n]] = st[n] /\ DepthAt(code, s[n]) = n - 1
        /\ \A k \in s[n] + 1 .. p : DepthAt(code, k) >= n

Stacked(code, p, st) ==
    /\ st \in Seq(Openers) /\ DepthAt(code, p) = Len(st)
    /\ \E s : OpenAt(code, p, st, s)

Paired(code, i) ==
    DepthAt(code, i) >= 1 /\ \E j \in Partner(code, i) : source[j] = Opener(source[i])

ClosedBefore(code, p) == \A i \in code : i < p /\ source[i] \in Closers => Paired(code, i)

LEMMA SequenceFits ==
  ASSUME NEW S, NEW st \in Seq(S)
  PROVE  /\ Len(st) \in Nat /\ DOMAIN st = 1 .. Len(st) /\ \A n \in 1 .. Len(st) : st[n] \in S
         /\ \A x \in S : /\ Append(st, x) \in Seq(S) /\ Len(Append(st, x)) = Len(st) + 1
                         /\ \A n \in 1 .. Len(st) : Append(st, x)[n] = st[n]
                         /\ Append(st, x)[Len(st) + 1] = x
         /\ st # <<>> => /\ Front(st) \in Seq(S) /\ Len(Front(st)) = Len(st) - 1 /\ Len(st) >= 1
                         /\ Last(st) = st[Len(st)] /\ Last(st) \in S
                         /\ \A n \in 1 .. Len(st) - 1 : Front(st)[n] = st[n]
  <1>1. Len(st) \in Nat /\ DOMAIN st = 1 .. Len(st) /\ \A n \in 1 .. Len(st) : st[n] \in S
    OBVIOUS
  <1>2. ASSUME NEW x \in S
        PROVE  /\ Append(st, x) \in Seq(S) /\ Len(Append(st, x)) = Len(st) + 1
               /\ \A n \in 1 .. Len(st) : Append(st, x)[n] = st[n]
               /\ Append(st, x)[Len(st) + 1] = x
    OBVIOUS
  <1>3. ASSUME st # <<>>
        PROVE  /\ Front(st) \in Seq(S) /\ Len(Front(st)) = Len(st) - 1 /\ Len(st) >= 1
               /\ Last(st) = st[Len(st)] /\ Last(st) \in S
               /\ \A n \in 1 .. Len(st) - 1 : Front(st)[n] = st[n]
    <2>1. Len(st) >= 1
      BY <1>3
    <2>2. Front(st) = SubSeq(st, 1, Len(st) - 1) /\ Last(st) = st[Len(st)]
      BY DEF Front, Last
    <2>3. QED
      BY <1>1, <2>1, <2>2
  <1>4. QED
    BY <1>1, <1>2, <1>3

\* OpenBracket.
LEMMA BracketOpens ==
  ASSUME IsText, NEW code, code \subseteq 1 .. Len(source), NEW p \in code, NEW st,
         Stacked(code, p, st), source[p] \in Openers
  PROVE  Stacked(code, p + 1, Append(st, source[p]))
  <1>1. PICK s : OpenAt(code, p, st, s)
    BY DEF Stacked
  <1>2. PICK n : n = Len(st)
    OBVIOUS
  <1>3. PICK new : new = Append(st, source[p])
    OBVIOUS
  <1>4. /\ st \in Seq(Openers) /\ DepthAt(code, p) = n /\ n \in Nat
        /\ new \in Seq(Openers) /\ Len(new) = n + 1 /\ new[n + 1] = source[p]
        /\ \A i \in 1 .. n : new[i] = st[i]
    BY <1>2, <1>3, SequenceFits DEF Stacked
  <1>5. p \in 1 .. Len(source) /\ p \in Int
    BY PlaceFacts
  <1>6. DepthAt(code, p + 1) = n + 1
    BY <1>4, <1>5, DepthStep
  <1> DEFINE t == [i \in 1 .. n + 1 |-> IF i = n + 1 THEN p ELSE s[i]]
  <1>7. ASSUME NEW i \in 1 .. n
        PROVE  /\ t[i] = s[i] /\ s[i] \in code /\ s[i] < p + 1 /\ source[s[i]] = new[i]
               /\ DepthAt(code, s[i]) = i - 1
               /\ \A k \in s[i] + 1 .. p + 1 : DepthAt(code, k) >= i
    <2>1. /\ s[i] \in code /\ s[i] < p /\ source[s[i]] = st[i] /\ DepthAt(code, s[i]) = i - 1
          /\ \A k \in s[i] + 1 .. p : DepthAt(code, k) >= i
      BY <1>1, <1>2 DEF OpenAt
    <2>2. t[i] = s[i] /\ i \in Int /\ i <= n
      BY <1>4
    <2>3. s[i] \in Int
      BY <2>1, PlaceFacts
    <2>4. \A k \in s[i] + 1 .. p + 1 : k \in s[i] + 1 .. p \/ k = p + 1
      BY <1>5, <2>3
    <2>5. DepthAt(code, p + 1) >= i
      BY <1>4, <1>6, <2>2
    <2>6. s[i] < p + 1
      BY <1>5, <2>1, <2>3
    <2>7. QED
      BY <1>4, <2>1, <2>2, <2>4, <2>5, <2>6
  <1>8. /\ t[n + 1] = p /\ p < p + 1 /\ source[p] = new[n + 1] /\ DepthAt(code, p) = (n + 1) - 1
        /\ \A k \in p + 1 .. p + 1 : DepthAt(code, k) >= n + 1
    BY <1>4, <1>5, <1>6
  <1>9. \A i \in 1 .. n + 1 : i \in 1 .. n \/ i = n + 1
    BY <1>4
  <1> HIDE DEF t
  <1>10. OpenAt(code, p + 1, new, t)
    BY <1>4, <1>7, <1>8, <1>9 DEF OpenAt
  <1>11. QED
    BY <1>3, <1>4, <1>6, <1>10 DEF Stacked

\* A bracket closes the last one that is open.
LEMMA LastIsPartner ==
  ASSUME IsText, NEW code, code \subseteq 1 .. Len(source), NEW p \in code, NEW st,
         Stacked(code, p, st), st # <<>>
  PROVE  /\ DepthAt(code, p) >= 1
         /\ \E j \in Partner(code, p) : source[j] = Last(st)
         /\ \A j \in Partner(code, p) : source[j] = Last(st)
  <1>1. PICK s : OpenAt(code, p, st, s)
    BY DEF Stacked
  <1>2. PICK n : n = Len(st)
    OBVIOUS
  <1>3. /\ st \in Seq(Openers) /\ DepthAt(code, p) = n /\ n \in Nat /\ n >= 1
        /\ Last(st) = st[n] /\ Last(st) \in Openers
    BY <1>2, SequenceFits DEF Stacked
  <1>4. PICK j : j = s[n]
    OBVIOUS
  <1>5. /\ j \in code /\ j < p /\ source[j] = Last(st) /\ DepthAt(code, j) = n - 1
        /\ \A k \in j + 1 .. p : DepthAt(code, k) >= n
    <2>1. n \in 1 .. Len(st)
      BY <1>2, <1>3
    <2>2. QED
      BY <1>1, <1>3, <1>4, <2>1 DEF OpenAt
  <1>6. \A k \in code : k \in Int /\ DepthAt(code, k) \in Int
    BY PlaceFacts, DepthStep
  <1>7. j \in Partner(code, p)
    <2>1. \A k \in code : k \in j + 1 .. p => DepthAt(code, k) > n - 1
      BY <1>3, <1>5, <1>6
    <2>2. QED
      BY <1>3, <1>5, <2>1 DEF Partner
  <1>8. ASSUME NEW i \in Partner(code, p)
        PROVE  i = j
    <2>1. /\ i \in code /\ i < p /\ DepthAt(code, i) = n - 1
          /\ \A k \in code : k \in i + 1 .. p => DepthAt(code, k) > DepthAt(code, i)
      BY <1>3 DEF Partner
    <2>2. ~ (i < j)
      <3>1. SUFFICES ASSUME i < j PROVE FALSE
        OBVIOUS
      <3>2. j \in i + 1 .. p
        BY <1>5, <1>6, <2>1, <3>1
      <3>3. QED
        BY <1>3, <1>5, <2>1, <3>2
    <2>3. ~ (j < i)
      <3>1. SUFFICES ASSUME j < i PROVE FALSE
        OBVIOUS
      <3>2. i \in j + 1 .. p
        BY <1>5, <1>6, <2>1, <3>1
      <3>3. QED
        BY <1>3, <1>5, <2>1, <3>2
    <2>4. QED
      BY <1>5, <1>6, <2>1, <2>2, <2>3
  <1>9. QED
    BY <1>3, <1>5, <1>7, <1>8

\* CloseBracket.
LEMMA BracketCloses ==
  ASSUME IsText, NEW code, code \subseteq 1 .. Len(source), NEW p \in code, NEW st,
         Stacked(code, p, st), st # <<>>, source[p] \in Closers
  PROVE  Stacked(code, p + 1, Front(st))
  <1>1. PICK s : OpenAt(code, p, st, s)
    BY DEF Stacked
  <1>2. PICK n : n = Len(st)
    OBVIOUS
  <1>3. PICK new : new = Front(st)
    OBVIOUS
  <1>4. /\ st \in Seq(Openers) /\ DepthAt(code, p) = n /\ n \in Nat /\ n >= 1
        /\ new \in Seq(Openers) /\ Len(new) = n - 1
        /\ \A i \in 1 .. n - 1 : new[i] = st[i]
    BY <1>2, <1>3, SequenceFits DEF Stacked
  <1>5. p \in 1 .. Len(source) /\ p \in Int
    BY PlaceFacts
  <1>6. DepthAt(code, p + 1) = n - 1
    BY <1>4, <1>5, DepthStep
  <1>7. ASSUME NEW i \in 1 .. n - 1
        PROVE  /\ s[i] \in code /\ s[i] < p + 1 /\ source[s[i]] = new[i]
               /\ DepthAt(code, s[i]) = i - 1
               /\ \A k \in s[i] + 1 .. p + 1 : DepthAt(code, k) >= i
    <2>1. i \in 1 .. n
      BY <1>4
    <2>2. /\ s[i] \in code /\ s[i] < p /\ source[s[i]] = st[i] /\ DepthAt(code, s[i]) = i - 1
          /\ \A k \in s[i] + 1 .. p : DepthAt(code, k) >= i
      BY <1>1, <1>2, <2>1 DEF OpenAt
    <2>3. s[i] \in Int
      BY <2>2, PlaceFacts
    <2>4. \A k \in s[i] + 1 .. p + 1 : k \in s[i] + 1 .. p \/ k = p + 1
      BY <1>5, <2>3
    <2>5. DepthAt(code, p + 1) >= i
      BY <1>4, <1>6
    <2>6. s[i] < p + 1
      BY <1>5, <2>2, <2>3
    <2>7. QED
      BY <1>4, <2>2, <2>4, <2>5, <2>6
  <1>8. OpenAt(code, p + 1, new, s)
    BY <1>4, <1>7 DEF OpenAt
  <1>9. QED
    BY <1>3, <1>4, <1>6, <1>8 DEF Stacked

\* Whatever is no bracket.
LEMMA NoBracket ==
  ASSUME IsText, NEW code, code \subseteq 1 .. Len(source), NEW p \in 1 .. Len(source), NEW st,
         Stacked(code, p, st), ~ (p \in code /\ source[p] \in Openers \cup Closers)
  PROVE  Stacked(code, p + 1, st)
  <1>1. PICK s : OpenAt(code, p, st, s)
    BY DEF Stacked
  <1>2. PICK n : n = Len(st)
    OBVIOUS
  <1>3. st \in Seq(Openers) /\ DepthAt(code, p) = n /\ n \in Nat /\ p \in Int
    BY <1>2, SequenceFits DEF Stacked
  <1>4. DepthAt(code, p + 1) = n
    BY <1>3, DepthStep
  <1>5. ASSUME NEW i \in 1 .. n
        PROVE  /\ s[i] \in code /\ s[i] < p + 1 /\ source[s[i]] = st[i]
               /\ DepthAt(code, s[i]) = i - 1
               /\ \A k \in s[i] + 1 .. p + 1 : DepthAt(code, k) >= i
    <2>1. /\ s[i] \in code /\ s[i] < p /\ source[s[i]] = st[i] /\ DepthAt(code, s[i]) = i - 1
          /\ \A k \in s[i] + 1 .. p : DepthAt(code, k) >= i
      BY <1>1, <1>2 DEF OpenAt
    <2>2. s[i] \in Int
      BY <2>1, PlaceFacts
    <2>3. \A k \in s[i] + 1 .. p + 1 : k \in s[i] + 1 .. p \/ k = p + 1
      BY <1>3, <2>2
    <2>4. DepthAt(code, p + 1) >= i
      BY <1>3, <1>4
    <2>5. s[i] < p + 1
      BY <1>3, <2>1, <2>2
    <2>6. QED
      BY <2>1, <2>3, <2>4, <2>5
  <1>6. OpenAt(code, p + 1, st, s)
    BY <1>2, <1>5 DEF OpenAt
  <1>7. QED
    BY <1>2, <1>3, <1>4, <1>6 DEF Stacked

-----------------------------------------------------------------------------
(***************************************************************************)
(* The scan of one constructor: the fields, and the end.                   *)
(***************************************************************************)
Begins(code, a) == a = 1 \/ IsComma(code, a - 1)

IsField(code, p, field) ==
    \E a \in 1 .. p, b \in 0 .. p - 2 :
        field = <<a, b>> /\ a <= b + 1 /\ Begins(code, a) /\ IsComma(code, b + 1)

FieldsBefore(code, p, first, fs) ==
    /\ first \in 1 .. p /\ Begins(code, first)
    /\ fs \in Seq(Int \X Int)
    /\ \A f \in DOMAIN fs : IsField(code, p, fs[f])
    /\ \A a \in 1 .. p : Begins(code, a) => a = first \/ \E f \in DOMAIN fs : fs[f][1] = a

LEMMA FieldGoesOn ==
  ASSUME NEW code, NEW p \in Nat, NEW first, NEW fs, FieldsBefore(code, p, first, fs),
         ~ IsComma(code, p), p >= 1
  PROVE  FieldsBefore(code, p + 1, first, fs)
  <1>1. ASSUME NEW f \in DOMAIN fs
        PROVE  IsField(code, p + 1, fs[f])
    <2>1. PICK a \in 1 .. p, b \in 0 .. p - 2 :
               fs[f] = <<a, b>> /\ a <= b + 1 /\ Begins(code, a) /\ IsComma(code, b + 1)
      BY DEF FieldsBefore, IsField
    <2>2. a \in 1 .. p + 1 /\ b \in 0 .. (p + 1) - 2
      OBVIOUS
    <2>3. QED
      BY <2>1, <2>2 DEF IsField
  <1>2. ASSUME NEW a \in 1 .. p + 1, Begins(code, a)
        PROVE  a = first \/ \E f \in DOMAIN fs : fs[f][1] = a
    <2>1. a # p + 1
      <3>1. SUFFICES ASSUME a = p + 1 PROVE FALSE
        OBVIOUS
      <3>2. a # 1 /\ a - 1 = p
        BY <3>1
      <3>3. QED
        BY <1>2, <3>2 DEF Begins
    <2>2. a \in 1 .. p
      BY <2>1
    <2>3. QED
      BY <1>2, <2>2 DEF FieldsBefore
  <1>3. first \in 1 .. p + 1
    BY DEF FieldsBefore
  <1>4. QED
    BY <1>1, <1>2, <1>3 DEF FieldsBefore

LEMMA FieldIsSplit ==
  ASSUME NEW code, NEW p \in Nat, NEW first, NEW fs, FieldsBefore(code, p, first, fs),
         IsComma(code, p), p >= 1
  PROVE  FieldsBefore(code, p + 1, p + 1, Append(fs, <<first, p - 1>>))
  <1>1. PICK new : new = <<first, p - 1>>
    OBVIOUS
  <1>2. PICK all : all = Append(fs, new)
    OBVIOUS
  <1>3. /\ first \in 1 .. p /\ first \in Int /\ Begins(code, first) /\ fs \in Seq(Int \X Int)
        /\ new \in Int \X Int /\ new[1] = first
    BY <1>1 DEF FieldsBefore
  <1>4. PICK n \in Nat : n = Len(fs)
    BY <1>3
  <1>5. /\ all \in Seq(Int \X Int) /\ DOMAIN all = 1 .. n + 1 /\ DOMAIN fs = 1 .. n
        /\ all[n + 1] = new /\ \A f \in 1 .. n : all[f] = fs[f]
    BY <1>2, <1>3, <1>4
  <1>6. Begins(code, p + 1)
    BY DEF Begins
  <1>7. IsField(code, p + 1, new)
    <2>1. first \in 1 .. p + 1 /\ p - 1 \in 0 .. (p + 1) - 2 /\ first <= (p - 1) + 1 /\ (p - 1) + 1 = p
      BY <1>3
    <2>2. QED
      BY <1>1, <1>3, <2>1 DEF IsField
  <1>8. ASSUME NEW f \in 1 .. n
        PROVE  IsField(code, p + 1, all[f])
    <2>1. PICK a \in 1 .. p, b \in 0 .. p - 2 :
               fs[f] = <<a, b>> /\ a <= b + 1 /\ Begins(code, a) /\ IsComma(code, b + 1)
      BY <1>5 DEF FieldsBefore, IsField
    <2>2. a \in 1 .. p + 1 /\ b \in 0 .. (p + 1) - 2
      OBVIOUS
    <2>3. QED
      BY <1>5, <2>1, <2>2 DEF IsField
  <1>9. \A f \in DOMAIN all : f \in 1 .. n \/ f = n + 1
    BY <1>5
  <1>10. ASSUME NEW a \in 1 .. p + 1, Begins(code, a)
         PROVE  a = p + 1 \/ \E f \in DOMAIN all : all[f][1] = a
    <2>1. CASE a = p + 1
      BY <2>1
    <2>2. CASE a = first
      <3>1. n + 1 \in DOMAIN all /\ all[n + 1][1] = a
        BY <1>3, <1>5, <2>2
      <3>2. QED
        BY <3>1
    <2>3. CASE a # p + 1 /\ a # first
      <3>1. a \in 1 .. p
        BY <2>3
      <3>2. PICK f \in 1 .. n : fs[f][1] = a
        BY <1>5, <1>10, <2>3, <3>1 DEF FieldsBefore
      <3>3. f \in DOMAIN all /\ all[f][1] = a
        BY <1>5, <3>2
      <3>4. QED
        BY <3>3
    <2>4. QED
      BY <2>1, <2>2, <2>3
  <1>11. p + 1 \in 1 .. p + 1
    OBVIOUS
  <1>12. FieldsBefore(code, p + 1, p + 1, all)
    BY <1>5, <1>6, <1>7, <1>8, <1>9, <1>10, <1>11 DEF FieldsBefore
  <1>13. QED
    BY <1>1, <1>2, <1>12

\* A field that names the position is one of those the scanner has split.
Naming(m, field) ==
    \E i \in field[1] .. field[2] :
        m[i] = "p" /\ \A j \in field[1] .. i - 1 : m[j] \in Blanks

LEMMA BlanksAreNone == /\ "p" \notin Blanks /\ "," \notin Blanks
                       /\ Blanks \cap (Openers \cup Closers) = {}
  BY DEF Blanks, Openers, Closers

\* A field that the scanner has split and that names the position.
LEMMA NamingIsName ==
  ASSUME IsText, NEW code, code \subseteq 1 .. Len(source), NEW m, MaskedTo(code, m, End),
         NEW a \in Nat, NEW b \in Int, a >= 1, b <= Len(source), Begins(code, a), Naming(m, <<a, b>>)
  PROVE  \E i \in a .. b : IsName(code, i)
  <1>1. PICK i \in a .. b : m[i] = "p" /\ \A j \in a .. i - 1 : m[j] \in Blanks
    BY DEF Naming
  <1>2. Len(source) \in Nat
    BY TextFacts
  <1>3. i \in 1 .. Len(source) /\ i \in Int /\ a <= i /\ \A j \in a .. i - 1 : j \in 1 .. Len(source)
    BY <1>2
  <1>4. i \in code /\ source[i] = "p"
    <2>1. m[i] \notin Blanks
      BY <1>1, BlanksAreNone
    <2>2. QED
      BY <1>1, <1>3, <2>1, MaskLeaves
  <1>5. \A j \in a .. i - 1 : j \in code => source[j] \in Blanks
    BY <1>1, <1>3, MaskLeaves
  <1>6. DepthAt(code, a) = DepthAt(code, i)
    <2>1. \A j \in code : j \in a .. i - 1 => source[j] \notin Openers \cup Closers
      BY <1>5, BlanksAreNone
    <2>2. a \in Int /\ i \in Int /\ a <= i
      BY <1>3
    <2>3. QED
      BY <2>1, <2>2, DepthKeeps
  <1>7. DepthAt(code, a) = 0
    <2>1. CASE a = 1
      BY <2>1, DepthStarts
    <2>2. CASE a # 1
      <3>1. PICK c : c = a - 1
        OBVIOUS
      <3>2. c \in code /\ source[c] = "," /\ DepthAt(code, c) = 0
        BY <2>2, <3>1 DEF Begins, IsComma
      <3>3. source[c] \notin Openers \cup Closers /\ c \in 1 .. Len(source)
        BY <3>2 DEF Openers, Closers
      <3>4. c + 1 = a
        BY <3>1
      <3>5. QED
        BY <3>2, <3>3, <3>4, DepthStep
    <2>3. QED
      BY <2>1, <2>2
  <1>8. PICK from : from = a - 1
    OBVIOUS
  <1>9. /\ from \in 0 .. i - 1 /\ from + 1 = a
        /\ from = 0 \/ IsComma(code, from)
    BY <1>3, <1>8 DEF Begins
  <1>10. \A j \in from + 1 .. i - 1 : j \in code => source[j] \in Blanks
    BY <1>5, <1>9
  <1>11. IsName(code, i)
    BY <1>4, <1>6, <1>7, <1>9, <1>10 DEF IsName
  <1>12. QED
    BY <1>11

\* A name at the outer level is in the field that begins before it.
LEMMA NameIsNaming ==
  ASSUME IsText, NEW code, code \subseteq 1 .. Len(source), NEW m, MaskedTo(code, m, End),
         NEW i \in Int, i \in code, source[i] = "p", NEW a \in Nat, a >= 1, a <= i,
         \A j \in a .. i - 1 : j \in code => source[j] \in Blanks,
         NEW b \in Int, a <= b + 1,
         (b + 1 \in code /\ source[b + 1] = ",") \/ i < b + 1
  PROVE  Naming(m, <<a, b>>)
  <1>1. i \in 1 .. Len(source) /\ i \in Int /\ Len(source) \in Nat
    BY PlaceFacts
  <1>2. i <= b
    <2>1. CASE i < b + 1
      BY ONLY <2>1, i \in Int, b \in Int
    <2>2. CASE b + 1 \in code /\ source[b + 1] = ","
      <3>1. b + 1 # i /\ "," \notin Blanks
        BY <2>2, BlanksAreNone
      <3>2. b + 1 \notin a .. i - 1
        BY <2>2, <3>1
      <3>3. PICK c \in Int : c = b + 1
        BY ONLY b \in Int
      <3>4. c # i /\ c \notin a .. i - 1
        BY ONLY <3>1, <3>2, <3>3
      <3>5. c > i
        BY ONLY <3>3, <3>4, i \in Int, a \in Nat, c \in Int, b \in Int, a <= b + 1
      <3>6. QED
        BY ONLY <3>3, <3>5, i \in Int, b \in Int
    <2>3. QED
      BY <2>1, <2>2
  <1>3. i \in a .. b /\ \A j \in a .. i - 1 : j \in 1 .. Len(source)
    <2>1. i <= Len(source)
      BY ONLY <1>1
    <2>2. QED
      BY ONLY <1>1, <1>2, <2>1, i \in Int, a \in Nat, b \in Int, a >= 1, a <= i
  <1>4. m[i] = "p"
    BY <1>1, MaskLeaves
  <1>5. \A j \in a .. i - 1 : m[j] \in Blanks
    BY <1>3, MaskLeaves
  <1>6. QED
    BY <1>3, <1>4, <1>5 DEF Naming

\* Only brackets that are paired have been passed.
LEMMA SurplusIsLater ==
  ASSUME IsText, NEW code, code \subseteq 1 .. Len(source), NEW p \in Int, ClosedBefore(code, p)
  PROVE  \A i \in Surplus(code) : i \in Int /\ i >= p
  <1> SUFFICES ASSUME NEW i \in Surplus(code)
               PROVE  i \in Int /\ i >= p
    OBVIOUS
  <1>1. i \in code /\ source[i] \in Closers /\ DepthAt(code, i) = 0
    BY DEF Surplus
  <1>2. i \in Int
    BY <1>1, PlaceFacts
  <1>3. ~ Paired(code, i)
    BY <1>1 DEF Paired
  <1>4. ~ (i < p)
    BY <1>1, <1>3 DEF ClosedBefore
  <1>5. QED
    BY <1>2, <1>4

\* ConstructorEnds: the first bracket without a partner is a brace.
LEMMA EndIsClosing ==
  ASSUME IsText, NEW code, code \subseteq 1 .. Len(source), NEW p \in Int, p \in code,
         ClosedBefore(code, p), DepthAt(code, p) = 0, source[p] = "}"
  PROVE  Closing(code) = {p}
  <1>1. p \in Surplus(code)
    BY DEF Surplus, Closers
  <1>2. \A i \in Surplus(code) : i \in Int /\ i >= p
    BY SurplusIsLater
  <1>3. Partnered(code, p)
    BY DEF ClosedBefore, Partnered, Paired
  <1>4. p \in Closing(code)
    BY <1>1, <1>2, <1>3 DEF Closing
  <1>5. ASSUME NEW i \in Closing(code)
        PROVE  i = p
    <2>1. i \in Surplus(code) /\ i <= p
      BY <1>1 DEF Closing
    <2>2. i \in Int /\ i >= p
      BY <1>2, <2>1
    <2>3. QED
      BY ONLY <2>1, <2>2, p \in Int
  <1>6. QED
    BY <1>4, <1>5

\* Unclosed: the text ends, or a bracket does not match.
LEMMA NothingIsClosing ==
  ASSUME IsText, NEW code, code \subseteq 1 .. Len(source), NEW p \in Int, p \in 1 .. End, NEW st,
         Stacked(code, p, st), ClosedBefore(code, p),
         \/ p = End
         \/ /\ p \in code /\ source[p] \in Closers
            /\ IF st = <<>> THEN source[p] # "}" ELSE Last(st) # Opener(source[p])
  PROVE  Closing(code) = {}
  <1> SUFFICES ASSUME NEW i \in Closing(code)
               PROVE  FALSE
    OBVIOUS
  <1>1. i \in Surplus(code) /\ (\A j \in Surplus(code) : i <= j) /\ source[i] = "}" /\ Partnered(code, i)
    BY DEF Closing
  <1>2. i \in Int /\ i >= p
    BY <1>1, SurplusIsLater
  <1>3. i \in code /\ DepthAt(code, i) = 0 /\ i \in 1 .. Len(source) /\ i < End
    BY <1>1, PlaceFacts DEF Surplus
  <1>4. p # End
    <2>1. End \in Nat
      BY TextFacts
    <2>2. QED
      BY ONLY <1>2, <1>3, <2>1, p \in Int
  <1>5. p \in code /\ source[p] \in Closers
    BY <1>4
  <1>6. CASE st = <<>>
    <2>1. source[p] # "}" /\ DepthAt(code, p) = 0
      BY <1>4, <1>6 DEF Stacked
    <2>2. p \in Surplus(code)
      BY <1>5, <2>1 DEF Surplus
    <2>3. i <= p
      BY <1>1, <2>2
    <2>4. i = p
      BY ONLY <1>2, <2>3, p \in Int
    <2>5. QED
      BY <1>1, <2>1, <2>4
  <1>7. CASE st # <<>>
    <2>1. Last(st) # Opener(source[p])
      BY <1>4, <1>7
    <2>2. DepthAt(code, p) >= 1 /\ \A j \in Partner(code, p) : source[j] = Last(st)
      BY <1>5, <1>7, LastIsPartner
    <2>3. p # i
      <3>1. ~ (0 >= 1)
        BY ONLY p \in Int
      <3>2. QED
        BY <1>3, <2>2, <3>1
    <2>4. p < i
      BY ONLY <1>2, <2>3, p \in Int
    <2>5. \E j \in Partner(code, p) : source[j] = Opener(source[p])
      BY <1>1, <1>5, <2>4 DEF Partnered
    <2>6. QED
      BY <2>1, <2>2, <2>5
  <1>8. QED
    BY <1>6, <1>7

\* What is found is a name at the outer level.
LEMMA FoundIsName ==
  ASSUME IsText, NEW code, code \subseteq 1 .. Len(source), NEW m, MaskedTo(code, m, End),
         NEW p \in 1 .. Len(source), NEW first, NEW fs, FieldsBefore(code, p, first, fs),
         NEW all, all = Append(fs, <<first, p - 1>>)
  PROVE  (\E f \in DOMAIN all : Naming(m, all[f])) <=> \E i \in 1 .. p - 1 : IsName(code, i)
  <1>1. /\ first \in 1 .. p /\ first \in Int /\ Begins(code, first) /\ fs \in Seq(Int \X Int)
        /\ p \in Int /\ Len(source) \in Nat /\ p <= Len(source) /\ first \in Nat /\ first >= 1 /\ first <= p
    BY TextFacts DEF FieldsBefore
  <1>2. PICK n \in Nat : n = Len(fs)
    BY <1>1
  <1>3. /\ DOMAIN all = 1 .. n + 1 /\ DOMAIN fs = 1 .. n
        /\ all[n + 1] = <<first, p - 1>> /\ \A f \in 1 .. n : all[f] = fs[f]
    BY <1>1, <1>2
  <1>4. ASSUME NEW f \in DOMAIN all, Naming(m, all[f])
        PROVE  \E i \in 1 .. p - 1 : IsName(code, i)
    <2>1. \E a \in Nat, b \in Int : /\ all[f] = <<a, b>> /\ a >= 1 /\ b <= p - 1 /\ Begins(code, a)
      <3>1. CASE f = n + 1
        <4>1. all[f] = <<first, p - 1>>
          BY <1>3, <3>1
        <4>2. first \in Nat /\ p - 1 \in Int /\ first >= 1 /\ p - 1 <= p - 1 /\ Begins(code, first)
          BY <1>1
        <4>3. QED
          BY <4>1, <4>2
      <3>2. CASE f # n + 1
        <4>1. f \in 1 .. n
          BY <1>3, <3>2
        <4>2. PICK a \in 1 .. p, b \in 0 .. p - 2 : fs[f] = <<a, b>> /\ Begins(code, a)
          BY <1>3, <4>1 DEF FieldsBefore, IsField
        <4>3. a \in Nat /\ b \in Int /\ a >= 1 /\ b <= p - 1
          BY <1>1
        <4>4. QED
          BY <1>3, <4>1, <4>2, <4>3
      <3>3. QED
        BY <3>1, <3>2
    <2>2. PICK a \in Nat, b \in Int : all[f] = <<a, b>> /\ a >= 1 /\ b <= p - 1 /\ Begins(code, a)
      BY <2>1
    <2>3. b <= Len(source)
      BY ONLY <1>1, <2>2
    <2>4. PICK i \in a .. b : IsName(code, i)
      BY <1>4, <2>2, <2>3, NamingIsName
    <2>5. i \in 1 .. p - 1
      BY <1>1, <2>2
    <2>6. QED
      BY <2>4, <2>5
  <1>5. ASSUME NEW i \in 1 .. p - 1, IsName(code, i)
        PROVE  \E f \in DOMAIN all : Naming(m, all[f])
    <2>1. i \in Int /\ i \in code /\ source[i] = "p"
      BY <1>5 DEF IsName
    <2>2. PICK from \in 0 .. i - 1 :
              /\ from = 0 \/ IsComma(code, from)
              /\ \A j \in from + 1 .. i - 1 : j \in code => source[j] \in Blanks
      BY <1>5 DEF IsName
    <2>3. PICK a : a = from + 1
      OBVIOUS
    <2>4. a \in Nat /\ a >= 1 /\ a <= i /\ a \in 1 .. p /\ a - 1 = from
      BY <1>1, <2>3
    <2>5. Begins(code, a)
      BY <2>2, <2>3, <2>4 DEF Begins
    <2>6. \A j \in a .. i - 1 : j \in code => source[j] \in Blanks
      BY <2>2, <2>3
    <2>7. CASE a = first
      <3>1. p - 1 \in Int /\ a <= (p - 1) + 1 /\ i < (p - 1) + 1
        BY <1>1, <2>4
      <3>2. Naming(m, <<a, p - 1>>)
        BY <2>1, <2>4, <2>6, <3>1, NameIsNaming
      <3>3. n + 1 \in DOMAIN all
        BY <1>3
      <3>4. QED
        BY <1>3, <2>7, <3>2, <3>3
    <2>8. CASE a # first
      <3>1. PICK f \in DOMAIN fs : fs[f][1] = a
        BY <2>4, <2>5, <2>8 DEF FieldsBefore
      <3>2. PICK x \in 1 .. p, b \in 0 .. p - 2 : /\ fs[f] = <<x, b>> /\ x <= b + 1 /\ IsComma(code, b + 1)
        BY DEF FieldsBefore, IsField
      <3>3. x = a /\ b \in Int
        BY <1>1, <3>1, <3>2
      <3>4. b + 1 \in code /\ source[b + 1] = ","
        BY <3>2 DEF IsComma
      <3>5. Naming(m, <<a, b>>)
        BY <2>1, <2>4, <2>6, <3>2, <3>3, <3>4, NameIsNaming
      <3>6. f \in DOMAIN all /\ all[f] = fs[f]
        BY <1>3
      <3>7. QED
        BY <3>2, <3>3, <3>5, <3>6
    <2>9. QED
      BY <2>7, <2>8
  <1>6. QED
    BY <1>4, <1>5

-----------------------------------------------------------------------------
(***************************************************************************)
(* The scan of one constructor: the steps.                                 *)
(***************************************************************************)
\* What is said of the text stays, as the text does.
LEMMA TextStays ==
  ASSUME source' = source
  PROVE  /\ IsText' <=> IsText
         /\ End' = End
         /\ CodeAt' = CodeAt
         /\ \A p : Ready(p)' <=> Ready(p)
         /\ \A code, m, p : MaskedTo(code, m, p)' <=> MaskedTo(code, m, p)
         /\ \A code, p, st : Stacked(code, p, st)' <=> Stacked(code, p, st)
         /\ \A code, p : ClosedBefore(code, p)' <=> ClosedBefore(code, p)
         /\ \A code, p, first, fs : FieldsBefore(code, p, first, fs)' <=> FieldsBefore(code, p, first, fs)
         /\ \A code : Closing(code)' = Closing(code)
         /\ \A code, i : IsName(code, i)' <=> IsName(code, i)
  <1>1. (IsText' <=> IsText) /\ End' = End
    BY DEF IsText, End
  <1>2. \A i : At(i)' = At(i)
    BY DEF At
  <1>3. \A i : Triple(i)' <=> Triple(i)
    BY <1>2 DEF Triple
  <1>4. \A i : Begun(i)' = Begun(i)
    BY <1>2, <1>3 DEF Begun, Lex
  <1>5. \A kind, i : Ends(kind, i)' <=> Ends(kind, i)
    BY <1>2, <1>3 DEF Ends
  <1>6. \A m, i : LexedBy(m, i)' = LexedBy(m, i)
    BY <1>2, <1>4, <1>5 DEF LexedBy, Lex
  <1>7. Lexed' = Lexed
    BY <1>1, <1>6 DEF Lexed, Lex
  <1>8. CodeAt' = CodeAt
    BY <1>7 DEF CodeAt
  <1>9. \A p : Ready(p)' <=> Ready(p)
    BY <1>1, <1>7 DEF Ready, Lex
  <1>10. \A code, i : Shown(code, i)' = Shown(code, i)
    BY DEF Shown
  <1>11. \A code, m, p : MaskedTo(code, m, p)' <=> MaskedTo(code, m, p)
    BY <1>10 DEF MaskedTo
  <1>12. \A code, i : DepthAt(code, i)' = DepthAt(code, i)
    BY DEF DepthAt
  <1>13. \A code, p, st, s : OpenAt(code, p, st, s)' <=> OpenAt(code, p, st, s)
    BY <1>12 DEF OpenAt
  <1>14. \A code, p, st : Stacked(code, p, st)' <=> Stacked(code, p, st)
    BY <1>12, <1>13 DEF Stacked
  <1>15. \A code, i : Partner(code, i)' = Partner(code, i)
    BY <1>12 DEF Partner
  <1>16. \A code, i : Paired(code, i)' <=> Paired(code, i)
    BY <1>12, <1>15 DEF Paired
  <1>17. \A code, p : ClosedBefore(code, p)' <=> ClosedBefore(code, p)
    BY <1>16 DEF ClosedBefore
  <1>18. \A code, i : IsComma(code, i)' <=> IsComma(code, i)
    BY <1>12 DEF IsComma
  <1>19. \A code, a : Begins(code, a)' <=> Begins(code, a)
    BY <1>18 DEF Begins
  <1>20. \A code, p, field : IsField(code, p, field)' <=> IsField(code, p, field)
    BY <1>18, <1>19 DEF IsField
  <1>21. \A code, p, first, fs : FieldsBefore(code, p, first, fs)' <=> FieldsBefore(code, p, first, fs)
    BY <1>19, <1>20 DEF FieldsBefore
  <1>22. \A code : Surplus(code)' = Surplus(code)
    BY <1>12 DEF Surplus
  <1>23. \A code, p : Partnered(code, p)' <=> Partnered(code, p)
    BY <1>15 DEF Partnered
  <1>24. \A code : Closing(code)' = Closing(code)
    BY <1>22, <1>23 DEF Closing
  <1>25. \A code, i : IsName(code, i)' <=> IsName(code, i)
    BY <1>12, <1>18 DEF IsName
  <1>26. QED
    BY <1>1, <1>8, <1>9, <1>11, <1>14, <1>17, <1>21, <1>24, <1>25

\* Beyond the property: while the mask is made it is right up to the index and
\* the lexer is not within a literal there; while fields are split the stack
\* holds the brackets that are open, the brackets before the index have their
\* partners, and the fields before it are cut at the outer commas.
ScanInv ==
    /\ IsText /\ stage \in {"mask", "split", "closed", "unclosed"} /\ index \in 1 .. End
    /\ stage = "mask" => /\ MaskedTo(CodeAt, masked, index) /\ Ready(index)
                         /\ stack = <<>> /\ start = 1 /\ fields = <<>>
    /\ stage # "mask" => MaskedTo(CodeAt, masked, End)
    /\ stage = "split" => /\ Stacked(CodeAt, index, stack) /\ ClosedBefore(CodeAt, index)
                          /\ FieldsBefore(CodeAt, index, start, fields)
    /\ stage = "closed" => /\ Closing(CodeAt) = {index}
                           /\ found <=> \E i \in 1 .. index - 1 : IsName(CodeAt, i)
    /\ stage = "unclosed" => Closing(CodeAt) = {}

\* The same, of the next state, as far as it is about the text as it was.
ScanNow(stg, fnd, m, p, st, first, fs) ==
    /\ stg \in {"mask", "split", "closed", "unclosed"} /\ p \in 1 .. End
    /\ stg = "mask" => /\ MaskedTo(CodeAt, m, p) /\ Ready(p)
                       /\ st = <<>> /\ first = 1 /\ fs = <<>>
    /\ stg # "mask" => MaskedTo(CodeAt, m, End)
    /\ stg = "split" => /\ Stacked(CodeAt, p, st) /\ ClosedBefore(CodeAt, p)
                        /\ FieldsBefore(CodeAt, p, first, fs)
    /\ stg = "closed" => /\ Closing(CodeAt) = {p}
                         /\ fnd <=> \E i \in 1 .. p - 1 : IsName(CodeAt, i)
    /\ stg = "unclosed" => Closing(CodeAt) = {}

LEMMA ScanIsNow ==
  ASSUME IsText, source' = source, NEW stg, NEW fnd, NEW m, NEW p, NEW st, NEW first, NEW fs,
         ScanNow(stg, fnd, m, p, st, first, fs),
         stage' = stg, found' <=> fnd, masked' = m, index' = p, stack' = st, start' = first, fields' = fs
  PROVE  ScanInv'
  <1>1. /\ IsText' /\ End' = End /\ CodeAt' = CodeAt
        /\ \A i : Ready(i)' <=> Ready(i)
        /\ \A code, n, i : MaskedTo(code, n, i)' <=> MaskedTo(code, n, i)
        /\ \A code, i, s : Stacked(code, i, s)' <=> Stacked(code, i, s)
        /\ \A code, i : ClosedBefore(code, i)' <=> ClosedBefore(code, i)
        /\ \A code, i, a, all : FieldsBefore(code, i, a, all)' <=> FieldsBefore(code, i, a, all)
        /\ \A code : Closing(code)' = Closing(code)
        /\ \A code, i : IsName(code, i)' <=> IsName(code, i)
    BY TextStays
  <1>2. QED
    BY <1>1 DEF ScanInv, ScanNow

-----------------------------------------------------------------------------
(***************************************************************************)
(* The scan of one constructor: the steps of the mask.                     *)
(***************************************************************************)
\* What is blanked from the index to e is no code, and the mask is ready at e.
LEMMA MaskMoves ==
  ASSUME ScanInv, stage = "mask", NEW e \in index .. End, Ready(e),
         \A i \in index .. e - 1 : i \notin CodeAt,
         masked' = Blanked(index, e), index' = e,
         UNCHANGED <<source, stack, start, fields, stage, found>>
  PROVE  ScanInv'
  <1>1. /\ IsText /\ index \in 1 .. End /\ MaskedTo(CodeAt, masked, index)
        /\ stack = <<>> /\ start = 1 /\ fields = <<>>
    BY DEF ScanInv
  <1>2. MaskedTo(CodeAt, Blanked(index, e), e)
    BY <1>1, BlankedIs
  <1>3. e \in 1 .. End
    BY <1>1, TextFacts
  <1>4. ScanNow("mask", found, Blanked(index, e), e, <<>>, 1, <<>>)
    BY <1>2, <1>3 DEF ScanNow
  <1>5. QED
    BY <1>1, <1>4, ScanIsNow

\* The index is at a character of the text.
LEMMA PlaceGoesOn ==
  ASSUME NEW n \in Nat, NEW p \in 1 .. n + 1
  PROVE  /\ p < n + 1 => p \in 1 .. n
         /\ p \in 1 .. n => p \in Int /\ p < n + 1 /\ p + 1 \in 1 .. n + 1
         /\ ~ (p < n + 1) => p = n + 1
         /\ \A q \in p + 1 .. n + 1 : q \in p .. n + 1
  OBVIOUS

LEMMA IndexIsWithin ==
  ASSUME ScanInv
  PROVE  /\ At(index) # "" \/ index < End =>
               /\ index \in 1 .. Len(source) /\ At(index) = source[index]
               /\ index \in Int /\ index < End /\ index + 1 \in 1 .. End
         /\ ~ (index < End) => index = End
         /\ \A e \in index + 1 .. End : e \in index .. End
  <1>1. IsText /\ index \in 1 .. End
    BY DEF ScanInv
  <1>2. /\ index \in 1 .. Len(source) => At(index) = source[index]
        /\ At(index) # "" => index \in 1 .. Len(source)
    BY CharacterFacts
  <1>3. PICK n \in Nat : n = Len(source) /\ End = n + 1
    BY <1>1, TextFacts
  <1>4. /\ index < n + 1 => index \in 1 .. n
        /\ index \in 1 .. n => index \in Int /\ index < n + 1 /\ index + 1 \in 1 .. n + 1
        /\ ~ (index < n + 1) => index = n + 1
        /\ \A q \in index + 1 .. n + 1 : q \in index .. n + 1
    BY <1>1, <1>3, PlaceGoesOn
  <1>5. QED
    BY <1>2, <1>3, <1>4

LEMMA CommentSteps ==
  ASSUME ScanInv, MaskComment
  PROVE  ScanInv'
  <1>1. /\ stage = "mask" /\ At(index) = "#" /\ IsText /\ Ready(index)
        /\ masked' = Blanked(index, LineEnd(index)) /\ index' = LineEnd(index)
        /\ UNCHANGED <<source, stack, start, fields, stage, found>>
    BY DEF MaskComment, ScanInv
  <1>2. index \in 1 .. Len(source)
    BY <1>1, IndexIsWithin
  <1>3. PICK e : e = LineEnd(index)
    OBVIOUS
  <1>4. /\ e \in index + 1 .. End /\ Ready(e)
        /\ \A i \in index .. e - 1 : i \notin CodeAt
    BY <1>1, <1>2, <1>3, CommentMasked
  <1>5. e \in index .. End
    BY <1>4, IndexIsWithin
  <1>6. QED
    BY <1>1, <1>3, <1>4, <1>5, MaskMoves

LEMMA LiteralSteps ==
  ASSUME ScanInv, MaskLiteral
  PROVE  ScanInv'
  <1>1. PICK e : e = LiteralEnd(index + Len(Delimiter(index)), Delimiter(index))
    OBVIOUS
  <1>2. /\ stage = "mask" /\ At(index) \in {"\"", "'"} /\ IsText /\ Ready(index)
        /\ masked' = Blanked(index, e) /\ index' = e
        /\ UNCHANGED <<source, stack, start, fields, stage, found>>
    BY <1>1 DEF MaskLiteral, ScanInv
  <1>3. index \in 1 .. Len(source)
    BY <1>2, IndexIsWithin
  <1>4. /\ e \in index + 1 .. End /\ Ready(e)
        /\ \A i \in index .. e - 1 : i \notin CodeAt
    BY <1>1, <1>2, <1>3, LiteralMasked
  <1>5. e \in index .. End
    BY <1>4, IndexIsWithin
  <1>6. QED
    BY <1>2, <1>4, <1>5, MaskMoves

LEMMA CodeSteps ==
  ASSUME ScanInv, PassCode
  PROVE  ScanInv'
  <1>1. /\ stage = "mask" /\ index < End /\ At(index) \notin {"#", "\"", "'"}
        /\ IsText /\ Ready(index) /\ MaskedTo(CodeAt, masked, index)
        /\ stack = <<>> /\ start = 1 /\ fields = <<>>
        /\ source' = source /\ stage' = "mask" /\ (found' <=> found) /\ masked' = masked
        /\ index' = index + 1 /\ stack' = <<>> /\ start' = 1 /\ fields' = <<>>
    BY DEF PassCode, ScanInv
  <1>2. index \in 1 .. Len(source)
    BY <1>1, IndexIsWithin
  <1>3. Ready(index + 1) /\ (index \in CodeAt \/ source[index] = "\n")
    BY <1>1, <1>2, CodePassed
  <1>4. MaskedTo(CodeAt, masked, index + 1)
    BY <1>1, <1>2, <1>3, PassedIs
  <1>5. index + 1 \in 1 .. End
    BY <1>1, IndexIsWithin
  <1>6. PICK q : q = index + 1
    OBVIOUS
  <1>7. ScanNow("mask", found, masked, q, <<>>, 1, <<>>)
    BY <1>3, <1>4, <1>5, <1>6 DEF ScanNow
  <1>8. /\ IsText /\ source' = source /\ stage' = "mask" /\ (found' <=> found) /\ masked' = masked
        /\ index' = q /\ stack' = <<>> /\ start' = 1 /\ fields' = <<>>
    BY <1>1, <1>6
  <1>9. QED
    BY <1>7, <1>8, ScanIsNow

LEMMA EndSteps ==
  ASSUME ScanInv, MaskEnds
  PROVE  ScanInv'
  <1>1. /\ stage = "mask" /\ index >= End /\ IsText /\ index \in 1 .. End
        /\ MaskedTo(CodeAt, masked, index) /\ stack = <<>> /\ start = 1 /\ fields = <<>>
        /\ stage' = "split" /\ index' = 1 /\ UNCHANGED <<source, masked, stack, start, fields, found>>
    BY DEF MaskEnds, ScanInv
  <1>2. MaskedTo(CodeAt, masked, End) /\ 1 \in 1 .. End
    BY <1>1, TextFacts
  <1>3. CodeAt \subseteq 1 .. Len(source)
    BY <1>1, CodeIs
  <1>4. Stacked(CodeAt, 1, <<>>)
    <2>1. /\ <<>> \in Seq(Openers) /\ Len(<<>>) = 0
      OBVIOUS
    <2>2. DepthAt(CodeAt, 1) = 0
      BY <1>1, <1>3, DepthStarts
    <2>3. \E s : OpenAt(CodeAt, 1, <<>>, s)
      BY <2>1 DEF OpenAt
    <2>4. QED
      BY <2>1, <2>2, <2>3 DEF Stacked
  <1>5. ClosedBefore(CodeAt, 1)
    BY <1>1, <1>3, TextFacts DEF ClosedBefore
  <1>6. FieldsBefore(CodeAt, 1, 1, <<>>)
    <2>1. <<>> \in Seq(Int \X Int) /\ DOMAIN <<>> = {}
      OBVIOUS
    <2>2. \A a \in 1 .. 1 : a = 1
      OBVIOUS
    <2>3. QED
      BY <2>1, <2>2 DEF FieldsBefore, Begins
  <1>7. ScanNow("split", found, masked, 1, <<>>, 1, <<>>)
    BY <1>2, <1>4, <1>5, <1>6 DEF ScanNow
  <1>8. QED
    BY <1>1, <1>7, ScanIsNow

-----------------------------------------------------------------------------
(***************************************************************************)
(* The scan of one constructor: the steps that split the fields.           *)
(***************************************************************************)
\* The characters the scanner looks for are no blanks, and differ.
LEMMA MarksDiffer ==
  /\ "," \notin Openers \cup Closers /\ "," \notin Blanks /\ "}" \in Closers
  /\ Blanks \cap (Openers \cup Closers) = {} /\ Openers \cap Closers = {}
  BY DEF Openers, Closers, Blanks

LEMMA ClosedGoesOn ==
  ASSUME IsText, NEW code, code \subseteq 1 .. Len(source), NEW p \in Int, ClosedBefore(code, p),
         p \in code /\ source[p] \in Closers => Paired(code, p)
  PROVE  ClosedBefore(code, p + 1)
  <1>1. SUFFICES ASSUME NEW i \in code, i < p + 1, source[i] \in Closers
                 PROVE  Paired(code, i)
    BY DEF ClosedBefore
  <1>2. i \in Int
    BY TextFacts
  <1>3. i < p \/ i = p
    BY ONLY <1>1, <1>2, p \in Int
  <1>4. QED
    BY <1>1, <1>3 DEF ClosedBefore

\* What holds while fields are split, and what the mask says of the index.
LEMMA SplitFacts ==
  ASSUME ScanInv, Splitting
  PROVE  /\ IsText /\ CodeAt \subseteq 1 .. Len(source) /\ MaskedTo(CodeAt, masked, End)
         /\ Stacked(CodeAt, index, stack) /\ ClosedBefore(CodeAt, index)
         /\ FieldsBefore(CodeAt, index, start, fields)
         /\ index \in 1 .. Len(source) /\ index \in Int /\ index \in Nat /\ index >= 1
         /\ index + 1 \in 1 .. End
         /\ masked[index] \in Openers \cup Closers \cup {","} =>
               index \in CodeAt /\ source[index] = masked[index]
         /\ index \in CodeAt => source[index] = masked[index]
  <1>1. /\ IsText /\ index \in 1 .. End /\ stage = "split" /\ index < End
        /\ MaskedTo(CodeAt, masked, End) /\ Stacked(CodeAt, index, stack)
        /\ ClosedBefore(CodeAt, index) /\ FieldsBefore(CodeAt, index, start, fields)
    BY DEF ScanInv, Splitting
  <1>2. CodeAt \subseteq 1 .. Len(source)
    BY <1>1, CodeIs
  <1>3. /\ index \in 1 .. Len(source) /\ index \in Int /\ index + 1 \in 1 .. End
    BY <1>1, IndexIsWithin
  <1>4. PICK n \in Nat : n = Len(source)
    BY <1>1, TextFacts
  <1>5. index \in Nat /\ index >= 1
    BY ONLY <1>3, <1>4
  <1>6. /\ index \in CodeAt => masked[index] = source[index]
        /\ masked[index] \notin Blanks => index \in CodeAt /\ masked[index] = source[index]
    BY <1>1, <1>3, MaskLeaves
  <1>7. masked[index] \in Openers \cup Closers \cup {","} => masked[index] \notin Blanks
    BY MarksDiffer
  <1>8. QED
    BY <1>1, <1>2, <1>3, <1>5, <1>6, <1>7

LEMMA SplitMoves ==
  ASSUME IsText, MaskedTo(CodeAt, masked, End), index + 1 \in 1 .. End,
         NEW st, NEW first, NEW fs, Stacked(CodeAt, index + 1, st),
         ClosedBefore(CodeAt, index + 1), FieldsBefore(CodeAt, index + 1, first, fs),
         source' = source, masked' = masked, stage' = "split", index' = index + 1,
         stack' = st, start' = first, fields' = fs
  PROVE  ScanInv'
  <1>1. PICK q : q = index + 1
    OBVIOUS
  <1>2. PICK fnd : fnd = found'
    OBVIOUS
  <1>3. ScanNow("split", fnd, masked, q, st, first, fs)
    BY <1>1 DEF ScanNow
  <1>4. /\ IsText /\ source' = source /\ stage' = "split" /\ (found' <=> fnd) /\ masked' = masked
        /\ index' = q /\ stack' = st /\ start' = first /\ fields' = fs
    BY <1>1, <1>2
  <1>5. QED
    BY <1>3, <1>4, ScanIsNow

LEMMA OpenSteps ==
  ASSUME ScanInv, OpenBracket
  PROVE  ScanInv'
  <1>1. /\ Splitting /\ masked[index] \in Openers /\ stage = "split"
        /\ source' = source /\ masked' = masked /\ stage' = stage /\ index' = index + 1
        /\ stack' = Append(stack, masked[index]) /\ start' = start /\ fields' = fields
    BY DEF OpenBracket, Splitting
  <1>2. /\ IsText /\ CodeAt \subseteq 1 .. Len(source) /\ MaskedTo(CodeAt, masked, End)
        /\ Stacked(CodeAt, index, stack) /\ ClosedBefore(CodeAt, index)
        /\ FieldsBefore(CodeAt, index, start, fields)
        /\ index \in Nat /\ index \in Int /\ index >= 1 /\ index + 1 \in 1 .. End
        /\ index \in CodeAt /\ source[index] = masked[index]
    BY <1>1, SplitFacts
  <1>3. source[index] \in Openers /\ source[index] \notin Closers /\ source[index] # ","
    BY <1>1, <1>2, MarksDiffer
  <1>4. Stacked(CodeAt, index + 1, Append(stack, source[index]))
    BY <1>2, <1>3, BracketOpens
  <1>5. ClosedBefore(CodeAt, index + 1)
    BY <1>2, <1>3, ClosedGoesOn
  <1>6. ~ IsComma(CodeAt, index)
    BY <1>3 DEF IsComma
  <1>7. FieldsBefore(CodeAt, index + 1, start, fields)
    BY <1>2, <1>6, FieldGoesOn
  <1>8. /\ IsText /\ MaskedTo(CodeAt, masked, End) /\ index + 1 \in 1 .. End
        /\ source' = source /\ masked' = masked /\ stage' = "split" /\ index' = index + 1
        /\ stack' = Append(stack, source[index]) /\ start' = start /\ fields' = fields
    BY <1>1, <1>2
  <1>9. QED
    BY <1>4, <1>5, <1>7, <1>8, SplitMoves

LEMMA CloseSteps ==
  ASSUME ScanInv, CloseBracket
  PROVE  ScanInv'
  <1>1. /\ Splitting /\ masked[index] \in Closers /\ stage = "split"
        /\ stack # <<>> /\ Last(stack) = Opener(masked[index])
        /\ source' = source /\ masked' = masked /\ stage' = stage /\ index' = index + 1
        /\ stack' = Front(stack) /\ start' = start /\ fields' = fields
    BY DEF CloseBracket, Splitting
  <1>2. /\ IsText /\ CodeAt \subseteq 1 .. Len(source) /\ MaskedTo(CodeAt, masked, End)
        /\ Stacked(CodeAt, index, stack) /\ ClosedBefore(CodeAt, index)
        /\ FieldsBefore(CodeAt, index, start, fields)
        /\ index \in Nat /\ index \in Int /\ index >= 1 /\ index + 1 \in 1 .. End
        /\ index \in CodeAt /\ source[index] = masked[index]
    BY <1>1, SplitFacts
  <1>3. source[index] \in Closers /\ source[index] # ","
    BY <1>1, <1>2, MarksDiffer
  <1>4. Stacked(CodeAt, index + 1, Front(stack))
    BY <1>1, <1>2, <1>3, BracketCloses
  <1>5. Paired(CodeAt, index)
    BY <1>1, <1>2, LastIsPartner DEF Paired
  <1>6. ClosedBefore(CodeAt, index + 1)
    BY <1>2, <1>5, ClosedGoesOn
  <1>7. ~ IsComma(CodeAt, index)
    BY <1>3 DEF IsComma
  <1>8. FieldsBefore(CodeAt, index + 1, start, fields)
    BY <1>2, <1>7, FieldGoesOn
  <1>9. /\ IsText /\ MaskedTo(CodeAt, masked, End) /\ index + 1 \in 1 .. End
        /\ source' = source /\ masked' = masked /\ stage' = "split" /\ index' = index + 1
        /\ stack' = Front(stack) /\ start' = start /\ fields' = fields
    BY <1>1, <1>2
  <1>10. QED
    BY <1>4, <1>6, <1>8, <1>9, SplitMoves

LEMMA FieldSteps ==
  ASSUME ScanInv, FieldEnds
  PROVE  ScanInv'
  <1>1. /\ Splitting /\ masked[index] = "," /\ stage = "split" /\ stack = <<>>
        /\ source' = source /\ masked' = masked /\ stage' = stage /\ index' = index + 1
        /\ stack' = stack /\ start' = index + 1
        /\ fields' = Append(fields, <<start, index - 1>>)
    BY DEF FieldEnds, Splitting
  <1>2. /\ IsText /\ CodeAt \subseteq 1 .. Len(source) /\ MaskedTo(CodeAt, masked, End)
        /\ Stacked(CodeAt, index, stack) /\ ClosedBefore(CodeAt, index)
        /\ FieldsBefore(CodeAt, index, start, fields) /\ index \in 1 .. Len(source)
        /\ index \in Nat /\ index \in Int /\ index >= 1 /\ index + 1 \in 1 .. End
        /\ index \in CodeAt /\ source[index] = ","
    BY <1>1, SplitFacts
  <1>3. source[index] \notin Openers \cup Closers
    BY <1>2, MarksDiffer
  <1>4. Stacked(CodeAt, index + 1, stack)
    BY <1>2, <1>3, NoBracket
  <1>5. ClosedBefore(CodeAt, index + 1)
    BY <1>2, <1>3, ClosedGoesOn
  <1>6. DepthAt(CodeAt, index) = 0
    BY <1>1, <1>2 DEF Stacked
  <1>7. IsComma(CodeAt, index)
    BY <1>2, <1>6 DEF IsComma
  <1>8. FieldsBefore(CodeAt, index + 1, index + 1, Append(fields, <<start, index - 1>>))
    BY <1>2, <1>7, FieldIsSplit
  <1>9. /\ IsText /\ MaskedTo(CodeAt, masked, End) /\ index + 1 \in 1 .. End
        /\ source' = source /\ masked' = masked /\ stage' = "split" /\ index' = index + 1
        /\ stack' = stack /\ start' = index + 1
        /\ fields' = Append(fields, <<start, index - 1>>)
    BY <1>1, <1>2
  <1>10. QED
    BY <1>4, <1>5, <1>8, <1>9, SplitMoves

LEMMA PassSteps ==
  ASSUME ScanInv, PassField
  PROVE  ScanInv'
  <1>1. /\ Splitting /\ masked[index] \notin Openers \cup Closers /\ stage = "split"
        /\ masked[index] # "," \/ stack # <<>>
        /\ source' = source /\ masked' = masked /\ stage' = stage /\ index' = index + 1
        /\ stack' = stack /\ start' = start /\ fields' = fields
    BY DEF PassField, Splitting
  <1>2. /\ IsText /\ CodeAt \subseteq 1 .. Len(source) /\ MaskedTo(CodeAt, masked, End)
        /\ Stacked(CodeAt, index, stack) /\ ClosedBefore(CodeAt, index)
        /\ FieldsBefore(CodeAt, index, start, fields) /\ index \in 1 .. Len(source)
        /\ index \in Nat /\ index \in Int /\ index >= 1 /\ index + 1 \in 1 .. End
        /\ index \in CodeAt => source[index] = masked[index]
    BY <1>1, SplitFacts
  <1>3. ~ (index \in CodeAt /\ source[index] \in Openers \cup Closers)
    BY <1>1, <1>2
  <1>4. Stacked(CodeAt, index + 1, stack)
    BY <1>2, <1>3, NoBracket
  <1>5. ClosedBefore(CodeAt, index + 1)
    BY <1>2, <1>3, ClosedGoesOn
  <1>6. ~ IsComma(CodeAt, index)
    <2>1. SUFFICES ASSUME IsComma(CodeAt, index)
                   PROVE  FALSE
      OBVIOUS
    <2>2. index \in CodeAt /\ source[index] = "," /\ DepthAt(CodeAt, index) = 0
      BY <2>1 DEF IsComma
    <2>3. stack # <<>>
      BY <1>1, <1>2, <2>2
    <2>4. DepthAt(CodeAt, index) >= 1
      BY <1>2, <2>2, <2>3, LastIsPartner
    <2>5. 0 >= 1
      BY <2>2, <2>4
    <2>6. QED
      BY ONLY <2>5
  <1>7. FieldsBefore(CodeAt, index + 1, start, fields)
    BY <1>2, <1>6, FieldGoesOn
  <1>8. /\ IsText /\ MaskedTo(CodeAt, masked, End) /\ index + 1 \in 1 .. End
        /\ source' = source /\ masked' = masked /\ stage' = "split" /\ index' = index + 1
        /\ stack' = stack /\ start' = start /\ fields' = fields
    BY <1>1, <1>2
  <1>9. QED
    BY <1>4, <1>5, <1>7, <1>8, SplitMoves

\* The end of the constructor, or of the search for it.
LEMMA ScanStops ==
  ASSUME IsText, MaskedTo(CodeAt, masked, End), index \in 1 .. End,
         NEW stg \in {"closed", "unclosed"}, NEW fnd, found' <=> fnd,
         stg = "closed" => /\ Closing(CodeAt) = {index}
                           /\ fnd <=> \E i \in 1 .. index - 1 : IsName(CodeAt, i),
         stg = "unclosed" => Closing(CodeAt) = {},
         source' = source, masked' = masked, stage' = stg, index' = index
  PROVE  ScanInv'
  <1>1. PICK st, first, fs : st = stack' /\ first = start' /\ fs = fields'
    OBVIOUS
  <1>2. ScanNow(stg, fnd, masked, index, st, first, fs)
    BY DEF ScanNow
  <1>3. /\ IsText /\ source' = source /\ stage' = stg /\ (found' <=> fnd) /\ masked' = masked
        /\ index' = index /\ stack' = st /\ start' = first /\ fields' = fs
    BY <1>1
  <1>4. QED
    BY <1>2, <1>3, ScanIsNow

LEMMA ConstructorSteps ==
  ASSUME ScanInv, ConstructorEnds
  PROVE  ScanInv'
  <1>1. PICK all : all = Append(fields, <<start, index - 1>>)
    OBVIOUS
  <1>2. /\ Splitting /\ masked[index] = "}" /\ stack = <<>>
        /\ source' = source /\ masked' = masked /\ stage' = "closed" /\ index' = index
        /\ fields' = all
    BY <1>1 DEF ConstructorEnds
  <1>3. PICK fnd : fnd <=> \E f \in DOMAIN all : Naming(masked, all[f])
    OBVIOUS
  <1>4. found' <=> fnd
    BY <1>2, <1>3 DEF ConstructorEnds, NamesPosition, Naming
  <1>5. /\ IsText /\ CodeAt \subseteq 1 .. Len(source) /\ MaskedTo(CodeAt, masked, End)
        /\ Stacked(CodeAt, index, stack) /\ ClosedBefore(CodeAt, index)
        /\ FieldsBefore(CodeAt, index, start, fields) /\ index \in 1 .. Len(source)
        /\ index \in Int /\ index \in CodeAt /\ source[index] = "}"
    BY <1>2, MarksDiffer, SplitFacts
  <1>6. DepthAt(CodeAt, index) = 0
    BY <1>2, <1>5 DEF Stacked
  <1>7. Closing(CodeAt) = {index}
    BY <1>5, <1>6, EndIsClosing
  <1>8. fnd <=> \E i \in 1 .. index - 1 : IsName(CodeAt, i)
    BY <1>1, <1>3, <1>5, FoundIsName
  <1>9. index \in 1 .. End
    BY DEF ScanInv
  <1>10. QED
    BY <1>2, <1>4, <1>5, <1>7, <1>8, <1>9, ScanStops

LEMMA UnclosedSteps ==
  ASSUME ScanInv, Unclosed
  PROVE  ScanInv'
  <1>1. /\ stage = "split" /\ source' = source /\ masked' = masked /\ stage' = "unclosed"
        /\ index' = index /\ found' = found
    BY DEF Unclosed
  <1>2. /\ IsText /\ index \in 1 .. End /\ MaskedTo(CodeAt, masked, End)
        /\ Stacked(CodeAt, index, stack) /\ ClosedBefore(CodeAt, index)
    BY <1>1 DEF ScanInv
  <1>3. CodeAt \subseteq 1 .. Len(source) /\ index \in Int
    <2>1. index \in Int
      BY ONLY <1>2
    <2>2. QED
      BY <1>2, <2>1, CodeIs
  <1>4. \/ index = End
        \/ /\ index \in CodeAt /\ source[index] \in Closers
           /\ IF stack = <<>> THEN source[index] # "}" ELSE Last(stack) # Opener(source[index])
    <2>1. CASE ~ (index < End)
      BY <2>1, IndexIsWithin
    <2>2. CASE index < End
      <3>1. /\ Splitting /\ masked[index] \in Closers
            /\ IF stack = <<>> THEN masked[index] # "}" ELSE Last(stack) # Opener(masked[index])
        <4>1. ~ (index >= End)
          BY <1>2, <2>2, TextFacts
        <4>2. QED
          BY <4>1 DEF Unclosed
      <3>2. index \in CodeAt /\ source[index] = masked[index]
        BY <3>1, SplitFacts
      <3>3. QED
        BY <3>1, <3>2
    <2>3. QED
      BY <2>1, <2>2
  <1>5. Closing(CodeAt) = {}
    BY <1>2, <1>3, <1>4, NothingIsClosing
  <1>6. QED
    BY <1>1, <1>2, <1>5, ScanStops

LEMMA ScanStarts ==
  ASSUME ScanInit
  PROVE  ScanInv
  <1>1. /\ source \in Bodies /\ index = 1 /\ masked = source /\ stack = <<>> /\ start = 1
        /\ fields = <<>> /\ stage = "mask"
    BY DEF ScanInit
  <1>2. IsText
    BY <1>1, ScanAssumption DEF IsText
  <1>3. 1 \in 1 .. End /\ DOMAIN source = 1 .. Len(source) /\ Len(source) \in Nat
    BY <1>2, TextFacts
  <1>4. MaskedTo(CodeAt, masked, 1)
    BY <1>1, <1>3 DEF MaskedTo
  <1>5. Ready(1)
    BY <1>2, LexedIs DEF Ready
  <1>6. QED
    BY <1>1, <1>2, <1>3, <1>4, <1>5 DEF ScanInv

LEMMA ScanSteps ==
  ASSUME ScanInv, [ScanNext]_scanVars
  PROVE  ScanInv'
  <1>1. CASE UNCHANGED scanVars
    <2>1. /\ source' = source /\ masked' = masked /\ stage' = stage /\ (found' <=> found)
          /\ index' = index /\ stack' = stack /\ start' = start /\ fields' = fields
      BY <1>1 DEF scanVars
    <2>2. IsText /\ ScanNow(stage, found, masked, index, stack, start, fields)
      BY DEF ScanInv, ScanNow
    <2>3. QED
      BY <2>1, <2>2, ScanIsNow
  <1>2. CASE ScanNext
    BY <1>2, CommentSteps, LiteralSteps, CodeSteps, EndSteps, OpenSteps, CloseSteps, FieldSteps,
       PassSteps, ConstructorSteps, UnclosedSteps DEF ScanNext
  <1>3. QED
    BY <1>1, <1>2

LEMMA ScanIsExact ==
  ASSUME ScanInv
  PROVE  FieldsAreExact
  <1>1. SUFFICES ASSUME stage \in {"closed", "unclosed"}
                 PROVE  LET code == CodeAt
                        IN /\ \A i \in DOMAIN source :
                                 masked[i] = IF i \in code \/ source[i] = "\n" THEN source[i] ELSE " "
                           /\ stage = "closed" <=> Closing(code) # {}
                           /\ stage = "closed" =>
                                 /\ Closing(code) = {index}
                                 /\ found <=> \E i \in 1 .. index - 1 : IsName(code, i)
    BY DEF FieldsAreExact
  <1>2. /\ IsText /\ MaskedTo(CodeAt, masked, End)
        /\ stage = "closed" => /\ Closing(CodeAt) = {index}
                               /\ found <=> \E i \in 1 .. index - 1 : IsName(CodeAt, i)
        /\ stage = "unclosed" => Closing(CodeAt) = {}
    BY <1>1 DEF ScanInv
  <1>3. ASSUME NEW i \in DOMAIN source
        PROVE  masked[i] = IF i \in CodeAt \/ source[i] = "\n" THEN source[i] ELSE " "
    <2>1. i \in 1 .. Len(source)
      BY <1>2, TextFacts
    <2>2. masked[i] = Shown(CodeAt, i)
      BY <1>2, <2>1, MaskLeaves
    <2>3. QED
      BY <2>2 DEF Shown
  <1>4. stage = "closed" <=> Closing(CodeAt) # {}
    BY <1>1, <1>2
  <1>5. QED
    BY <1>2, <1>3, <1>4

\* Whatever texts are scanned, scan_diagnostic_constructors in
\* scripts/diagnostic_span_inventory.py blanks exactly the literals and the
\* comments, closes a constructor at the first brace without a partner if the
\* brackets before it match, and finds a position exactly when a field at the
\* outer level begins with its name.
THEOREM FieldsAreRight == ScanSpec => []FieldsAreExact
  <1>1. ScanInit => ScanInv
    BY ScanStarts
  <1>2. ScanInv /\ [ScanNext]_scanVars => ScanInv'
    BY ScanSteps
  <1>3. ScanInv => FieldsAreExact
    BY ScanIsExact
  <1>4. QED
    BY <1>1, <1>2, <1>3, PTL DEF ScanSpec

=============================================================================
