\* Two workers; a file acquired twice, synchronized by two requests or while a
\* person uploads a revision of it, and batches of documents and of an address;
\* two export requests of one session, and three requests about the keys and
\* boundaries of two versions of an agent.
SPECIFICATION IntakeSpec
CONSTANTS
    None = None
    ConnectionIds = {c1, c2}
    OAuthStates = {s1, s2}
    Callbacks = {k1, k2}
    Late = {}
    Files = {f1}
    Workers = {w1, w2}
    Batches = {"select", "again", "sync1", "sync2", "revise", "upload", "paste", "url"}
    Kind <- KindOf
    ItemsOf <- RequestItems
    OutcomesOf <- ItemOutcomes
    FileOf <- ItemFile
    File = f1
    Gathered = {"select", "sync1", "upload", "paste", "url"}
    MaxVersion = 2
    Faults = {"stop", "queue"}
    Scenarios <- AllScenarios
    Documents <- SmallDocuments
    MaxChars = 5
    Label = 1
    Allowance = 2
    MaxChunks = 3
    MaxCandidates = 2
    Offered <- SmallExcerpts
    MostOffered = 1
    Numbers = {1, 2, 3}
    Imports = {"i1", "i2", "i3"}
    SourceOf <- SmallLineage
    Editors = {e1, e2}
    Questions = {"requests", "extract", "versions", "ingest", "keys"}
    Exporters = {q1, q2}
    Spans <- SentSpans
    Runs = {r1, r2}
    Sessions = {e1}
    Sent <- SentBatches
    Configs <- SentBoundaries
    Boundaries <- SentBoundaries
    MaxSpans = 2
    MaxSends = 2
    MaxChanges = 1
    FirstRun = r1
    Session = e1
    Versions = {v1, v2}
    Keys = {d1, d2, d3}
    Consoles = {h1, h2, h3}
INVARIANTS
    SourcesTypeOK
    StateUsedOnce
    SealedForOwner
    ReportedIsTrue
    LineageIsLinear
    ReviewableItem
    CoverageIsTruthful
    CloneIsFaithful
    TraceHasOneOwner
    SessionIsOneRun
    CountIsEvidence
    AnsweredMeansClosing
    OneActiveKey
SYMMETRY IntakeSymmetry
CHECK_DEADLOCK FALSE
