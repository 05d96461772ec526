CONSTANTS
    j1 = j1
    k1 = k1
    w1 = w1
    opA = opA
    p1 = p1
    p2 = p2
    NoJob = NoJob
    None = None
    Jobs <- MCJobs
    Keys <- MCKeys
    Workspaces <- MCWorkspaces
    Operations <- MCOperations
    Results <- MCResults
    GlobalLimits <- MCGlobalLimits
    MaxRowVersion = 3
    Procs <- OneProc
    Commands <- AllCommands
    RunnerVerdicts <- AllVerdicts
    MaxCrashes = 2
    MaxKills = 1
    MaxLaunches = 2
SPECIFICATION EngSpec
INVARIANTS
    BoundNeverLostWithResult
PROPERTIES
    EngineObeysRegistry
    EventuallyResolved
    LateResultRecovered
CHECK_DEADLOCK FALSE
