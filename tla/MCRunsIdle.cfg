SPECIFICATION Spec
CONSTANTS
    Keys = {"timeout", "idle", "finalize", "evaluate"}
    b1 = b1
    b2 = b2
    c1 = c1
    c2 = c2
    s1 = s1
    s2 = s2
    Producers = {b1, b2, w1}
    Workers = {w1}
    Batches = {b1, b2}
    BatchSpans <- TwoBatches
    Spans = {s1, s2}
    TerminalSpans = {}
    Calls = {}
    CancelCalls = {}
    HardDeadline = 2
    SettleSeconds = 1
    IdleSeconds = 1
    MaxTime = 2
    MaxSpans = 2
    CasAttempts = 2
    MaxSends = 1
    MaxAttempts = 2
    MaxClaims = 4
    MaxRows = 2
    FaultKinds = {"lost"}
    MaxFaults = 1
    MaxSlow = 0
    CallCompletion <- ExplicitCalls
    CallSettle <- OneSecondCalls
    Completions <- AllCompletions
    NoCompletion = NoCompletion
    Backoff = 1
    None = None
    NoClaim = NoClaim
SYMMETRY WorkerSymmetry
INVARIANTS
    NeverForgotten
CHECK_DEADLOCK FALSE
