CONSTANTS
    r1 = r1
    r2 = r2
    r3 = r3
    w1 = w1
    c1 = c1
    c2 = c2
    kc = kc
    ka = ka
    kb = kb
    b1 = b1
    Requests = {r1, r2}
    Resolvers = {c1}
    Writers = {w1}
    Keys = {kc, ka, kb}
    Bodies = {b1}
    Typed = {kc, ka, kb}
    Replayed = {}
    Route <- RevisionAndAttestation
    MaxReceipts = 3
    MaxRevisions = 2
    Failures = {"store", "crash"}
    None = None
SPECIFICATION ReviewFaultSpec
CHECK_DEADLOCK FALSE
INVARIANTS RowsHaveReceipts
SYMMETRY ReviewSymmetry
