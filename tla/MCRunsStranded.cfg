SPECIFICATION FairSpec
CONSTANTS
    Keys = {"timeout", "idle", "finalize", "evaluate"}
    b1 = b1
    b2 = b2
    c1 = c1
    c2 = c2
    s1 = s1
    s2 = s2
    Producers = {w1}
    Workers = {w1}
    Batches = {}
    BatchSpans <- NoBatches
    Spans = {s1, s2}
    TerminalSpans = {s2}
    Calls = {}
    CancelCalls = {}
    HardDeadline = 1
    SettleSeconds = 1
    IdleSeconds = 1
    MaxTime = 1
    MaxSpans = 2
    CasAttempts = 2
    MaxSends = 1
    MaxAttempts = 2
    MaxClaims = 4
    MaxRows = 2
    FaultKinds = {"crash"}
    MaxFaults = 1
    MaxSlow = 0
    CallCompletion <- ExplicitCalls
    CallSettle <- OneSecondCalls
    Completions <- AllCompletions
    NoCompletion = NoCompletion
    Backoff = 1
    None = None
    NoClaim = NoClaim
PROPERTIES EventuallyTerminal
CHECK_DEADLOCK FALSE
