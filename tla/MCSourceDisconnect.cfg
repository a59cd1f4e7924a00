\* A worker refreshes the tokens of a connection while it is disconnected.
SPECIFICATION MCSpec
CONSTANTS
    None = None
    ConnectionIds = {c1}
    OAuthStates = {s1}
    Callbacks = {k1}
    Late = {k1}
    Files = {f1}
    Workers = {w1}
    Batches = {"select", "again", "sync1", "sync2", "revise", "upload", "paste", "url"}
    Kind <- KindOf
    ItemsOf <- RequestItems
    OutcomesOf <- ItemOutcomes
    FileOf <- ItemFile
    File = f1
    Gathered = {"upload", "paste", "url"}
    MaxVersion = 1
    Faults = {}
    Scenarios <- SelectOnly
    Documents <- SmallDocuments
    MaxChars = 5
    Label = 1
    Allowance = 2
    MaxChunks = 3
    MaxCandidates = 2
    Offered <- SmallExcerpts
    MostOffered = 1
    Numbers = {1, 2, 3}
    Imports = {"i1", "i2", "i3"}
    SourceOf <- SmallLineage
    Editors = {e1, e2}
    Questions = {"requests"}
PROPERTIES
    DisconnectedStays
CHECK_DEADLOCK FALSE
