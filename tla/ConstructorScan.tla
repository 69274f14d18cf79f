----------------------------- MODULE ConstructorScan -----------------------------
(***************************************************************************)
(* scan_diagnostic_constructors in scripts/diagnostic_span_inventory.py,   *)
(* on the text that follows one "Diagnostic {": comments and literals are  *)
(* blanked, the fields up to the closing brace are split at their outer    *)
(* level, and the constructor has a position when one field is named pos.  *)
(*                                                                         *)
(* A text is a sequence of characters, with "p" for the field name "pos:"  *)
(* and "x" for whatever else may stand in a field.                         *)
(***************************************************************************)
EXTENDS Integers, Sequences, FiniteSets, SequencesExt

CONSTANT Bodies \* bound: the texts that are scanned

ASSUME ScanAssumption == \A s \in Bodies : s \in Seq(ToSet(s))

VARIABLES
    source, \* the text
    index,  \* the character the loop is at
    masked, \* the text, blanked up to the index
    stack,  \* brackets that are open
    start,  \* where the field began
    fields, \* the fields split so far, as first and last index
    stage,  \* "mask", "split", "closed" or "unclosed"
    found   \* whether a field is named pos

scanVars == <<source, index, masked, stack, start, fields, stage, found>>

ScanInit ==
    /\ source \in Bodies
    /\ index = 1 /\ masked = source
    /\ stack = <<>> /\ start = 1 /\ fields = <<>>
    /\ stage = "mask" /\ found = FALSE

End == Len(source) + 1
At(i) == IF i \in 1 .. Len(source) THEN source[i] ELSE ""

\* The text with its characters from first to last - 1 blanked, except the
\* ends of lines.
Blanked(first, last) ==
    [i \in DOMAIN masked |->
        IF i \in first .. last - 1 /\ source[i] # "\n" THEN " " ELSE masked[i]]

(***************************************************************************)
(* _mask_literals_and_comments.                                            *)
(***************************************************************************)
LineEnd(i) ==
    LET ends == {j \in i .. Len(source) : source[j] = "\n"}
    IN IF ends = {} THEN End ELSE CHOOSE j \in ends : \A k \in ends : j <= k

\* A double quote opens a long literal when two more follow it.
Delimiter(i) ==
    IF At(i) = "\"" /\ At(i + 1) = "\"" /\ At(i + 2) = "\""
    THEN <<"\"", "\"", "\"">> ELSE <<At(i)>>

Stands(delimiter, i) == \A k \in DOMAIN delimiter : At(i + k - 1) = delimiter[k]

\* Mutant: a backslash in a literal stands for itself.
PlainStep(i) == 1

\* A backslash takes the character that follows it with it.
LiteralStep(i) == IF At(i) = "\\" THEN 2 ELSE 1

\* Where a literal ends that is open at i.
LiteralEnd(i, delimiter) ==
    LET after[j \in 1 .. End + 1] ==
            IF j >= End THEN End
            ELSE IF At(j) # "\\" /\ Stands(delimiter, j) THEN j + Len(delimiter)
            ELSE after[j + LiteralStep(j)]
    IN after[i]

MaskComment ==
    /\ stage = "mask" /\ At(index) = "#"
    /\ masked' = Blanked(index, LineEnd(index))
    /\ index' = LineEnd(index)
    /\ UNCHANGED <<source, stack, start, fields, stage, found>>

MaskLiteral ==
    /\ stage = "mask" /\ At(index) \in {"\"", "'"}
    /\ LET delimiter == Delimiter(index)
           end == LiteralEnd(index + Len(delimiter), delimiter)
       IN masked' = Blanked(index, end) /\ index' = end
    /\ UNCHANGED <<source, stack, start, fields, stage, found>>

PassCode ==
    /\ stage = "mask" /\ index < End /\ At(index) \notin {"#", "\"", "'"}
    /\ index' = index + 1
    /\ UNCHANGED <<source, masked, stack, start, fields, stage, found>>

MaskEnds ==
    /\ stage = "mask" /\ index >= End
    /\ stage' = "split" /\ index' = 1
    /\ UNCHANGED <<source, masked, stack, start, fields, found>>

(***************************************************************************)
(* _split_constructor_fields, and the search for the field named pos.      *)
(***************************************************************************)
Openers == {"(", "[", "{"}
Closers == {")", "]", "}"}
Opener(c) == CASE c = ")" -> "(" [] c = "]" -> "[" [] c = "}" -> "{"

Blanks == {" ", "\n"}

\* FIELD_RE: the first character that is not blank.
NamesPosition(field) ==
    \E i \in field[1] .. field[2] :
        /\ masked[i] = "p"
        /\ \A j \in field[1] .. i - 1 : masked[j] \in Blanks

Splitting == stage = "split" /\ index < End

OpenBracket ==
    /\ Splitting /\ masked[index] \in Openers
    /\ stack' = Append(stack, masked[index])
    /\ index' = index + 1
    /\ UNCHANGED <<source, masked, start, fields, stage, found>>

CloseBracket ==
    /\ Splitting /\ masked[index] \in Closers
    /\ stack # <<>> /\ Last(stack) = Opener(masked[index])
    /\ stack' = Front(stack)
    /\ index' = index + 1
    /\ UNCHANGED <<source, masked, start, fields, stage, found>>

FieldEnds ==
    /\ Splitting /\ masked[index] = "," /\ stack = <<>>
    /\ fields' = Append(fields, <<start, index - 1>>)
    /\ start' = index + 1 /\ index' = index + 1
    /\ UNCHANGED <<source, masked, stack, stage, found>>

PassField ==
    /\ Splitting /\ masked[index] \notin Openers \cup Closers
    /\ masked[index] # "," \/ stack # <<>>
    /\ index' = index + 1
    /\ UNCHANGED <<source, masked, stack, start, fields, stage, found>>

ConstructorEnds ==
    /\ Splitting /\ masked[index] = "}" /\ stack = <<>>
    /\ fields' = Append(fields, <<start, index - 1>>)
    /\ stage' = "closed"
    /\ found' = \E f \in DOMAIN fields' : NamesPosition(fields'[f])
    /\ UNCHANGED <<source, index, masked, stack, start>>

\* A bracket without its partner, or the end of the file.
Unclosed ==
    /\ stage = "split"
    /\ \/ index >= End
       \/ /\ Splitting /\ masked[index] \in Closers
          /\ IF stack = <<>> THEN masked[index] # "}"
             ELSE Last(stack) # Opener(masked[index])
    /\ stage' = "unclosed"
    /\ UNCHANGED <<source, index, masked, stack, start, fields, found>>

ScanNext ==
    \/ MaskComment \/ MaskLiteral \/ PassCode \/ MaskEnds
    \/ OpenBracket \/ CloseBracket \/ FieldEnds \/ PassField
    \/ ConstructorEnds \/ Unclosed

ScanSpec == ScanInit /\ [][ScanNext]_scanVars

(***************************************************************************)
(* The reference: a lexer that looks at one character after the other, and *)
(* brackets told apart by their depth.                                     *)
(***************************************************************************)
\* A kind of text, and how many characters still belong to a delimiter or an
\* escape.
Lex(kind, left) == [kind |-> kind, left |-> left]

Triple(i) == \A k \in 0 .. 2 : At(i + k) = "\""

\* What begins with the character at i of code.
Begun(i) ==
    IF Triple(i) THEN Lex("triple", 2)
    ELSE IF At(i) = "\"" THEN Lex("double", 0)
    ELSE IF At(i) = "'" THEN Lex("single", 0)
    ELSE Lex(IF At(i) = "#" THEN "comment" ELSE "code", 0)

\* Whether a text of that kind ends with the character at i.
Ends(kind, i) ==
    \/ kind = "comment" /\ At(i) = "\n"
    \/ kind = "single" /\ At(i) = "'"
    \/ kind = "double" /\ At(i) = "\""
    \/ kind = "triple" /\ Triple(i)

\* What the character at i makes of m, what those before it have left behind.
LexedBy(m, i) ==
    IF m.left > 0 THEN Lex(m.kind, m.left - 1)
    ELSE IF m.kind = "code" THEN Begun(i)
    ELSE IF m.kind # "comment" /\ At(i) = "\\" THEN Lex(m.kind, 1)
    ELSE IF ~Ends(m.kind, i) THEN m
    ELSE Lex("code", IF m.kind = "triple" THEN 2 ELSE 0)

Lexed ==
    LET before[i \in 1 .. End] ==
            IF i = 1 THEN Lex("code", 0) ELSE LexedBy(before[i - 1], i - 1)
    IN before

\* The characters that belong to no literal and no comment.
CodeAt ==
    LET lexed == Lexed
    IN {i \in DOMAIN source :
           \/ lexed[i].kind = "code" /\ source[i] \notin {"#", "\"", "'"}
           \/ lexed[i].kind = "comment" /\ source[i] = "\n"}

\* How many brackets of code are open before i.
DepthAt(code, i) ==
    LET count(chars) == {j \in code : j < i /\ source[j] \in chars}
    IN Cardinality(count(Openers)) - Cardinality(count(Closers))

\* The bracket that the one at i closes.
Partner(code, i) ==
    {j \in code : /\ j < i /\ source[j] \in Openers
                  /\ DepthAt(code, j) = DepthAt(code, i) - 1
                  /\ \A k \in code : k \in j + 1 .. i => DepthAt(code, k) > DepthAt(code, j)}

Partnered(code, end) ==
    \A i \in code : i < end /\ source[i] \in Closers =>
        \E j \in Partner(code, i) : source[j] = Opener(source[i])

Surplus(code) == {i \in code : source[i] \in Closers /\ DepthAt(code, i) = 0}

\* The end of the constructor.
Closing(code) ==
    {i \in Surplus(code) : /\ \A j \in Surplus(code) : i <= j
                           /\ source[i] = "}" /\ Partnered(code, i)}

IsComma(code, i) == i \in code /\ source[i] = "," /\ DepthAt(code, i) = 0

\* The name of the position begins a field at the outer level.
IsName(code, i) ==
    /\ i \in code /\ source[i] = "p" /\ DepthAt(code, i) = 0
    /\ \E from \in 0 .. i - 1 :
          /\ from = 0 \/ IsComma(code, from)
          /\ \A j \in from + 1 .. i - 1 : j \in code => source[j] \in Blanks

\* The mask blanks exactly the literals and comments, the constructor is
\* closed by the first brace without a partner, every bracket before it has
\* one of its kind, and a position is found when, and only when, a field at
\* the outer level begins with its name.  A constructor that is counted as
\* one without a position, or a literal that hides one, would make the
\* audit of spans wrong without a word.
FieldsAreExact ==
    stage \in {"closed", "unclosed"} =>
        LET code == CodeAt
        IN /\ \A i \in DOMAIN source :
                 masked[i] = IF i \in code \/ source[i] = "\n" THEN source[i] ELSE " "
           /\ stage = "closed" <=> Closing(code) # {}
           /\ stage = "closed" =>
                 /\ Closing(code) = {index}
                 /\ found <=> \E i \in 1 .. index - 1 : IsName(code, i)

=============================================================================
