SPECIFICATION Spec
CONSTANTS
    Packs = {k1, k2}
    Collections = {k1, k2}
    PolicySource <- OwnSources
    NoSource = NoSource
    Admins = {}
    NoPack = NoPack
    Imports = {i1}
    Extracted = {x1}
    ImportWorkers = {w1}
    Calls = {c1, c2}
    PolicyFaults = {"stop"}
    NoImport = NoImport
    NoWork = NoWork
INVARIANTS LaterVersionsCompile
CHECK_DEADLOCK FALSE
