SPECIFICATION Spec
CONSTANTS
    p1 = p1
    p2 = p2
    r1 = r1
    c1 = c1
    c2 = c2
    None = None
    Procs <- TwoProcs
    Readers <- OneReader
    Contexts <- OneContext
    Versions = 2
    MaxGen = 3
    MaxStops = 2
    MaxLosses = 0
SYMMETRY ProcSymmetry
INVARIANTS
    ActiveComplete
    ReadsCoherent
PROPERTY
    ImplementsAtomicStore
