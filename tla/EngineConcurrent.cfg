CONSTANTS
    j1 = j1
    k1 = k1
    w1 = w1
    opA = opA
    p1 = p1
    p2 = p2
    NoJob = NoJob
    None = None
    Jobs <- MCJobs
    Keys <- MCKeys
    Workspaces <- MCWorkspaces
    Operations <- MCOperations
    Results <- MCResults
    GlobalLimits <- MCGlobalLimits
    MaxRowVersion = 3
    Procs <- TwoProcs
    Commands <- RunObserveCancel
    RunnerVerdicts <- OneVerdict
    MaxCrashes = 0
    MaxKills = 1
    MaxLaunches = 2
SPECIFICATION EngSafety
SYMMETRY MCSymmetry
INVARIANTS
    AtMostOneLaunch
    
CHECK_DEADLOCK FALSE
