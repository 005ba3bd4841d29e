SPECIFICATION Spec
CONSTANTS
    p1 = p1
    p2 = p2
    r1 = r1
    c1 = c1
    c2 = c2
    None = None
    Procs <- OneProc
    Readers = {}
    Contexts <- TwoContexts
    Versions = 1
    MaxGen = 3
    MaxStops = 0
    MaxLosses = 2
INVARIANTS
    PointerDurable
CHECK_DEADLOCK FALSE
