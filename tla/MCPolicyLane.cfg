SPECIFICATION Spec
CONSTANTS
    Packs = {k1}
    Collections = {k1}
    PolicySource <- OwnSources
    NoSource = NoSource
    Admins = {a1, a2, a3}
    NoPack = NoPack
    Imports = {i1}
    Extracted = {x1, x2}
    ImportWorkers = {w1, w2}
    Calls = {c1, c2}
    PolicyFaults = {"stop"}
    NoImport = NoImport
    NoWork = NoWork
SYMMETRY PolicySymmetry
INVARIANTS OneExtraction PackRulesReviewed ApprovedIsReviewed
PROPERTIES CompiledImmutable CollectionFaithful ContentStays
CHECK_DEADLOCK FALSE
