SPECIFICATION Spec
CONSTANTS
    Keys = {"timeout", "idle", "finalize", "evaluate"}
    b1 = b1
    b2 = b2
    c1 = c1
    c2 = c2
    s1 = s1
    s2 = s2
    Producers = {b1, w1, w2}
    Workers = {w1, w2}
    Batches = {b1}
    BatchSpans <- OneBatch
    Spans = {s1, s2}
    TerminalSpans = {s2}
    Calls = {}
    CancelCalls = {}
    HardDeadline = 1
    SettleSeconds = 1
    IdleSeconds = 1
    MaxTime = 1
    MaxSpans = 2
    CasAttempts = 2
    MaxSends = 1
    MaxAttempts = 2
    MaxClaims = 2
    MaxRows = 2
    FaultKinds = {"crash", "error"}
    MaxFaults = 2
    MaxSlow = 1
    CallCompletion <- ExplicitCalls
    CallSettle <- OneSecondCalls
    Completions <- AllCompletions
    NoCompletion = NoCompletion
    Backoff = 1
    None = None
    NoClaim = NoClaim
CONSTRAINT OneTrouble
SYMMETRY WorkerSymmetry
INVARIANTS TypeOK FencedLease EvidenceIsComplete VerdictFromEvidence
PROPERTIES EndedRowsStay KeepsContract
CHECK_DEADLOCK FALSE
