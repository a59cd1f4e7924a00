SPECIFICATION SpansSpec
CONSTANTS
    FirstRun = r1
    Session = e1
    Exporters = {q1, q2}
    Runs = {r1, r2}
    Sessions = {e1}
    Spans <- SentSpans
    Sent <- SentBatches
    Configs <- SentBoundaries
    MaxSpans = 2
    MaxSends = 3
    MaxChanges = 1
    None = None
SYMMETRY RequestSymmetry
PROPERTIES ResendAssigns
CHECK_DEADLOCK FALSE
