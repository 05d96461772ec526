CONSTANTS
    j1 = j1
    j2 = j2
    k1 = k1
    k2 = k2
    w1 = w1
    w2 = w2
    opA = opA
    r1 = r1
    NoJob = NoJob
    None = None
    Jobs <- MCJobs
    Keys <- MCKeys
    Workspaces <- MCWorkspaces
    Operations <- MCOperations
    Results <- MCResults
    GlobalLimits <- MCGlobalLimits
    MaxRowVersion = 2
SPECIFICATION RegSpec
SYMMETRY MCSymmetry
INVARIANTS
    RegTypeOK
    LedgerCoherent
    WorkspaceSerialised
    GlobalCapacity
    LogExplainsState
    DispatchAtMostOnce
PROPERTIES
    TerminalOnlyCorrected
    HistoryIsPermanent
CHECK_DEADLOCK FALSE
