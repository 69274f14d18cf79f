SPECIFICATION MCSpec
CONSTANTS
    main = main
    a = a
    b = b
    Files = {main, a, b}
    Entry = main
    NoFile = NoFile
    Answers = {{main}, {main, a}, {b, NoFile}}
    Scenarios = {"edit", "open"}
    Latencies = {0, 2, 3, 4}
    Allowance = 50
    MaxRootEdits = 1
    Bodies <- BodiesModel
    k1 = k1
    k2 = k2
    Kinds = {k1, k2}
    Unknown = Unknown
    Enums <- EnumsModel
    lexer = lexer
    parser = parser
    Sources = {lexer, parser}
    Texts <- TextsModel
    Broken = Broken
    Absent = Absent
    MaxTouches = 1
    Streams <- StreamsModel
    MaxHeaderBytes = 11
    MaxHeaderLines = 3
    MaxBodyBytes = 2
INVARIANTS ClosureIsReachable QualifiedMeansCompared FieldsAreExact AuditMatchesSources FramesAreTheStream
CHECK_DEADLOCK FALSE
