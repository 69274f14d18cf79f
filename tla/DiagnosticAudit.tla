---------------------------- MODULE DiagnosticAudit ----------------------------
(***************************************************************************)
(* scripts/generate_diagnostic_codes.py and                                *)
(* scripts/diagnostic_span_inventory.py: two tools that derive a committed *)
(* file from the compiler's sources, one from the enum of diagnostic       *)
(* kinds and one from the enum and every constructor of a diagnostic, and  *)
(* that compare the committed file instead when they are run with --check. *)
(* The sources may be edited between any two reads of a run.               *)
(***************************************************************************)
EXTENDS Integers, Sequences, FiniteSets, SequencesExt

CONSTANTS
    Kinds,     \* diagnostic kinds
    Unknown,   \* a kind expression that names none of them
    Enums,     \* bound: the variant lists the enum may have
    Sources,   \* the .elisa files of the compiler
    Texts,     \* bound: the constructors a file may hold, in order
    Broken,    \* a file with a constructor that is not closed
    Absent,    \* the committed file does not exist
    MaxTouches \* bound: edits of the sources

Sites == [kind : Kinds \cup {Unknown}, explicit : BOOLEAN]

ASSUME AuditAssumption ==
    /\ Unknown \notin Kinds /\ Broken \notin Texts
    /\ IsFiniteSet(Kinds) /\ IsFiniteSet(Sources)
    /\ Enums \subseteq Seq(Kinds) /\ Texts \subseteq Seq(Sites)
    /\ MaxTouches \in Nat

\* docs/diagnostic-span-coverage.json.
Inventory ==
    [variants : Seq(Kinds),
     counts : [Kinds \cup {Unknown} -> [sites : Nat, explicit : Nat]],
     summary : [sites : Nat, explicit : Nat, default : Nat, classified : Nat,
                usedKinds : Nat, precise : Nat, vague : Nat],
     fingerprint : [enum : Enums, files : [Sources -> Texts \cup {Broken}]]]

ASSUME AbsentAssumption == Absent \notin Inventory

VARIABLES
    sources,   \* the enum and the files as they are now
    adapter,   \* src/diagnostic_codes.elisa: the variants it maps, in order
    inventory, \* docs/diagnostic-span-coverage.json
    tool,      \* the run: which tool, --check, where it is, what it has read
    touches,   \* edits so far
    steady     \* nobody has edited the sources since the run began

auditVars == <<sources, adapter, inventory, tool, touches, steady>>

Counts == [k \in Kinds \cup {Unknown} |-> [sites |-> 0, explicit |-> 0]]

Resting == [name |-> "codes", check |-> FALSE, at |-> "rest", variants |-> <<>>,
            left |-> {}, counts |-> Counts, exit |-> -1]

\* The sources and the committed files may be in any state when a tool is run.
AuditInit ==
    /\ sources \in [enum : Enums, files : [Sources -> Texts \cup {Broken}]]
    /\ adapter \in Enums \cup {Absent}
    /\ inventory = Absent
    /\ tool = Resting /\ touches = 0 /\ steady = TRUE

Run(name, check) ==
    /\ tool.at = "rest"
    /\ tool' = [Resting EXCEPT !.name = name, !.check = check, !.at = "enum"]
    /\ steady' = TRUE
    /\ UNCHANGED <<sources, adapter, inventory, touches>>

Exits(status) == [tool EXCEPT !.at = "rest", !.exit = status]

\* Mutant: a name that occurs twice is accepted.
HasVariants(variants) == variants # <<>>

\* enum_variants: at least one variant, and no name twice.
WellFormed(variants) ==
    variants # <<>> /\ Cardinality(ToSet(variants)) = Len(variants)

ReadEnum ==
    /\ tool.at = "enum"
    /\ tool' =
          IF ~WellFormed(sources.enum) THEN Exits(1)
          ELSE [tool EXCEPT !.variants = sources.enum, !.left = Sources,
                            !.at = IF tool.name = "codes" THEN "adapter" ELSE "scan"]
    /\ UNCHANGED <<sources, adapter, inventory, touches, steady>>

(***************************************************************************)
(* The adapter.                                                            *)
(***************************************************************************)
WriteAdapter ==
    /\ tool.at = "adapter" /\ ~tool.check
    /\ adapter' = tool.variants
    /\ tool' = Exits(0)
    /\ UNCHANGED <<sources, inventory, touches, steady>>

CheckAdapter ==
    /\ tool.at = "adapter" /\ tool.check
    /\ tool' = Exits(IF adapter = Absent THEN 2
                     ELSE IF adapter = tool.variants THEN 0 ELSE 1)
    /\ UNCHANGED <<sources, adapter, inventory, touches, steady>>

(***************************************************************************)
(* The inventory.                                                          *)
(***************************************************************************)
\* One more constructor of the kind it names; a name that is no variant
\* counts as unknown.
Counted(counts, site) ==
    LET k == IF site.kind \in ToSet(tool.variants) THEN site.kind ELSE Unknown
    IN [counts EXCEPT ![k].sites = @ + 1,
                      ![k].explicit = IF site.explicit THEN @ + 1 ELSE @]

ScanFile ==
    /\ tool.at = "scan" /\ tool.left # {}
    /\ \E f \in tool.left :
          tool' = IF sources.files[f] = Broken THEN Exits(2)
                  ELSE [tool EXCEPT !.left = @ \ {f},
                                    !.counts = FoldLeft(Counted, @, sources.files[f])]
    /\ UNCHANGED <<sources, adapter, inventory, touches, steady>>

\* The summary: totals over all records, those of no known kind included.
Summary(counts) ==
    LET sites == MapThenSumSet(LAMBDA k : counts[k].sites, DOMAIN counts)
        explicit == MapThenSumSet(LAMBDA k : counts[k].explicit, DOMAIN counts)
        missing(k) == counts[k].sites - counts[k].explicit
        used == {k \in Kinds : counts[k].sites > 0}
    IN [sites |-> sites, explicit |-> explicit,
        default |-> sites - explicit,
        classified |-> sites - counts[Unknown].sites,
        usedKinds |-> Cardinality(used),
        precise |-> Cardinality({k \in used : missing(k) = 0}),
        vague |-> Cardinality({k \in used : missing(k) > 0})]

\* The fingerprint is taken last, of the files as they are then.
Rendered ==
    [variants |-> tool.variants, counts |-> tool.counts,
     summary |-> Summary(tool.counts), fingerprint |-> sources]

WriteInventory ==
    /\ tool.at = "scan" /\ tool.left = {} /\ ~tool.check
    /\ inventory' = Rendered
    /\ tool' = Exits(0)
    /\ UNCHANGED <<sources, adapter, touches, steady>>

CheckInventory ==
    /\ tool.at = "scan" /\ tool.left = {} /\ tool.check
    /\ tool' = Exits(IF inventory # Absent /\ inventory = Rendered THEN 0 ELSE 2)
    /\ UNCHANGED <<sources, adapter, inventory, touches, steady>>

Touch ==
    /\ touches < MaxTouches
    /\ touches' = touches + 1 /\ steady' = FALSE
    /\ \/ \E e \in Enums : sources' = [sources EXCEPT !.enum = e]
       \/ \E f \in Sources, t \in Texts : sources' = [sources EXCEPT !.files[f] = t]
    /\ UNCHANGED <<adapter, inventory, tool>>

AuditNext ==
    \/ \E name \in {"codes", "spans"}, check \in BOOLEAN : Run(name, check)
    \/ ReadEnum \/ WriteAdapter \/ CheckAdapter
    \/ ScanFile \/ WriteInventory \/ CheckInventory
    \/ Touch

AuditSpec == AuditInit /\ [][AuditNext]_auditVars

(***************************************************************************)
(* The reference: the constructors of all files, each with its place.      *)
(***************************************************************************)
Constructors ==
    UNION {{[file |-> f, at |-> i, kind |-> sources.files[f][i].kind,
             explicit |-> sources.files[f][i].explicit] :
                i \in DOMAIN sources.files[f]} :
           f \in {g \in Sources : sources.files[g] # Broken}}

Missing(k) == {c \in Constructors : c.kind = k /\ ~c.explicit}

Describes(inv) ==
    LET variants == ToSet(sources.enum)
        known == {c \in Constructors : c.kind \in variants}
    IN /\ inv.fingerprint = sources /\ inv.variants = sources.enum
       /\ \A k \in variants :
             /\ inv.counts[k].sites = Cardinality({c \in Constructors : c.kind = k})
             /\ inv.counts[k].sites - inv.counts[k].explicit = Cardinality(Missing(k))
       /\ inv.summary.sites = Cardinality(Constructors)
       /\ inv.summary.default = Cardinality({c \in Constructors : ~c.explicit})
       /\ inv.summary.classified = Cardinality(known)
       /\ inv.summary.vague = Cardinality({k \in variants : Missing(k) # {}})
       /\ inv.summary.precise + inv.summary.vague = inv.summary.usedKinds

\* A run that ends with status 0 while nobody edits the sources leaves, or
\* has found, a committed file that is right for them: an adapter with each
\* kind exactly once, an inventory that accounts for every constructor of
\* every file, those of unknown kinds included.
AuditMatchesSources ==
    (tool.at = "rest" /\ tool.exit = 0 /\ steady) =>
        IF tool.name = "codes"
        THEN /\ adapter = sources.enum
             /\ \A k \in ToSet(sources.enum) :
                   Cardinality({i \in DOMAIN adapter : adapter[i] = k}) = 1
        ELSE inventory # Absent /\ Describes(inventory)

=============================================================================
