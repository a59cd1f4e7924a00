SPECIFICATION Spec
CONSTANTS
    Packs = {k1}
    Collections = {k1}
    PolicySource <- OwnSources
    NoSource = NoSource
    Admins = {}
    NoPack = NoPack
    Imports = {i1}
    Extracted = {x1}
    ImportWorkers = {w1}
    Calls = {c1, c2}
    PolicyFaults = {"stop"}
    NoImport = NoImport
    NoWork = NoWork
PROPERTIES SingleFaithful
CHECK_DEADLOCK FALSE
