------------------------------ MODULE MCAlgorithms ------------------------------
(***************************************************************************)
(* The machines that share no state with one another, one of them in each  *)
(* behaviour: the others stay at rest.                                     *)
(***************************************************************************)
EXTENDS IncludeClosure, UpgradeGate, ConstructorScan, DiagnosticAudit, FrameDecoder

CONSTANTS main, a, b, \* files that are included
          k1, k2,     \* diagnostic kinds
          lexer, parser \* files of the compiler

\* A text that is masked and one that is split: all of them up to a length.
BodiesModel ==
    LET written == {"#", "\"", "'", "\\", "\n", "x"}
        split == {"(", ")", "{", "}", ",", "p", "\""}
    IN UNION {[1 .. n -> written] : n \in 0 .. 6} \cup UNION {[1 .. n -> split] : n \in 0 .. 5}

EnumsModel == {<<k1>>, <<k1, k2>>, <<k2, k2>>, <<>>}
TextsModel ==
    LET site(k, e) == [kind |-> k, explicit |-> e]
    IN {<<>>, <<site(k1, TRUE), site(k2, FALSE)>>, <<site(k1, FALSE), site(Unknown, FALSE)>>}

\* A header of up to two fields and some of three, the empty line, a body
\* that may look like a header, and what may follow it.
StreamsModel ==
    LET Line(text) == text \o <<"\r", "\n">>
        field(t) == Line(<<t>>)
        single == {field(t) : t \in {"L0", "L1", "L2", "L3", "type", "encoding", "other", "bad"}}
                  \cup {<<"L1", "\n">>, <<"L1", "\r">>, <<"\r", "\r", "\n">>}
        long == {field("other") \o field("type") \o field("L0"),
                 field("L2") \o Line(<<"other", "x", "x", "x">>),
                 field("L2") \o Line(<<"other", "x", "x", "x", "x">>),
                 Line(<<"other", "x", "type">>)}
        heads == {<<>>} \cup single \cup {c \o d : c \in single, d \in single} \cup long
        bodies == {<<>>, <<"x">>, <<"\r", "\n">>, <<"\n", "x">>, <<"L0">>}
        rests == {<<>>, Line(field("L0")), Line(field("L1")) \o <<"x">>, Line(<<>>), <<"L0">>}
    IN {Line(h) \o body \o rest : h \in heads, body \in bodies, rest \in rests}

VARIABLE subject \* the machine that runs

machines == <<closureVars, gateVars, scanVars, auditVars, frameVars>>

ClosureRests == includes = [c \in Files |-> {}] /\ place = [c \in Files |-> "tree"]
GateRests == args = [tests |-> TRUE, benchmark |-> TRUE] /\ out = [by |-> "earlier run", passed |-> FALSE]
ScanRests == source = <<>>
AuditRests == sources = [enum |-> <<k1>>, files |-> [c \in Sources |-> <<>>]] /\ adapter = Absent
FramesRest == stream = <<"\r", "\n">>

Subjects == {"closure", "gate", "scan", "audit", "frames"}

AtRest(machine, state) == IF subject = machine THEN TRUE ELSE state

MCInit ==
    /\ subject \in Subjects
    /\ AtRest("closure", ClosureRests)
    /\ AtRest("gate", GateRests)
    /\ AtRest("scan", ScanRests)
    /\ AtRest("audit", AuditRests)
    /\ AtRest("frames", FramesRest)
    /\ FrameInit /\ AuditInit /\ GateInit /\ ScanInit /\ ClosureInit

MCNext ==
    /\ UNCHANGED subject
    /\ \/ subject = "closure" /\ ClosureNext /\ UNCHANGED <<gateVars, scanVars, auditVars, frameVars>>
       \/ subject = "gate" /\ GateNext /\ UNCHANGED <<closureVars, scanVars, auditVars, frameVars>>
       \/ subject = "scan" /\ ScanNext /\ UNCHANGED <<closureVars, gateVars, auditVars, frameVars>>
       \/ subject = "audit" /\ AuditNext /\ UNCHANGED <<closureVars, gateVars, scanVars, frameVars>>
       \/ subject = "frames" /\ FrameNext /\ UNCHANGED <<closureVars, gateVars, scanVars, auditVars>>

MCSpec == MCInit /\ [][MCNext]_<<subject, machines>>

=============================================================================
