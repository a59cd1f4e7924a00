SPECIFICATION Spec
CONSTANTS
    Keys = {"timeout", "idle", "finalize", "evaluate"}
    b1 = b1
    b2 = b2
    c1 = c1
    c2 = c2
    s1 = s1
    s2 = s2
    Producers = {b1, c1, w1}
    Workers = {w1}
    Batches = {b1}
    BatchSpans <- OneBatch
    Spans = {s1, s2}
    TerminalSpans = {s2}
    Calls = {c1}
    CancelCalls = {c1}
    HardDeadline = 1
    SettleSeconds = 1
    IdleSeconds = 1
    MaxTime = 1
    MaxSpans = 2
    CasAttempts = 2
    MaxSends = 1
    MaxAttempts = 2
    MaxClaims = 4
    MaxRows = 2
    FaultKinds = {}
    MaxFaults = 0
    MaxSlow = 0
    CallCompletion <- ExplicitCalls
    CallSettle <- OneSecondCalls
    Completions <- AllCompletions
    NoCompletion = NoCompletion
    Backoff = 1
    None = None
    NoClaim = NoClaim
SYMMETRY WorkerSymmetry
INVARIANTS AbandonedHasNoVerdict
CHECK_DEADLOCK FALSE
