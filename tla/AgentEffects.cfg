CONSTANTS
    r1 = r1
    r2 = r2
    r3 = r3
    c1 = c1
    s1 = s1
    e1 = e1
    e2 = e2
    w1 = w1
    w2 = w2
    b1 = b1
    launch = launch
    buy = buy
    move = move
    Requests = {r1, r2, r3}
    Resolvers = {c1}
    Keys = {e1, e2, w1}
    Bodies = {b1}
    Typed = {e1, e2, w1}
    Replayed = {}
    None = None
    Route <- EffectRoutes
    RequestId <- EffectIds
    Sender <- EffectSenders
    MaxUses = 1
    MaxWorld = 2
    MaxPauses = 0
    MaxFaults = 1
    Withdrawals = {}
SPECIFICATION AgentFairSpec
CHECK_DEADLOCK FALSE
INVARIANTS SuccessIsReal EveryOrderIsTraceable 
PROPERTIES BoundEffectsSettle
