\* The loop on three spans, the runs of RefundSpans and RefundTarget, and
\* pipelines of up to three commands.
SPECIFICATION MCSpec
CONSTANTS
    Spans = {1, 2, 3}
    Times = {0, 1}
    Exported = {1, 2, 3}
    Unknown = Unknown
    Outside = Outside
    None = None
    MaxLinks = 2
    MaxObservations = 5
    Contents <- MCContents
    Completions <- MCCompletions
    Rules <- MCRules
    Allowlist <- MCAllowlist
    Sensitive = {"secret"}
    Scenarios <- MCScenarios
    Responses <- MCResponses
    Accepts = {"user_text"}
    InlineRules <- MCInlineRules
    Commands <- MCCommands
    Strictness = {TRUE, FALSE}
    Timeouts = {0, 3}
    Intervals = {0, 2}
    RequestMost = 2
INVARIANTS
    LinearExtension
    CycleReported
    ReturnsSpanOrder
    ApprovalNotAfterwards
    CausalApprovalCounts
    VerdictJustified
    InsufficientNeverPasses
    
    ExitIsTrue
PROPERTIES
    ViolationNeverForgiven
    WaitEnds
CHECK_DEADLOCK FALSE
