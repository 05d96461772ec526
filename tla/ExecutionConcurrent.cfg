CONSTANTS
    p1 = p1
    p2 = p2
    Procs = {p1, p2}
    Capabilities <- AllCapabilities
    MaxId = 5
    MaxSecond = 1
    None = None
SPECIFICATION KernelSpec
CHECK_DEADLOCK FALSE
INVARIANTS   ReceiptsAreDistinct
SYMMETRY RequestSymmetry
