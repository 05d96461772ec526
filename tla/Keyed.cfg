CONSTANTS
    r1 = r1
    r2 = r2
    c1 = c1
    c2 = c2
    k1 = k1
    k2 = k2
    b1 = b1
    b2 = b2
    Requests = {r1, r2}
    Resolvers = {c1, c2}
    Keys = {k1, k2}
    Bodies = {b1, b2}
    Typed = {k1}
    Replayed = {k2}
    None = None
SPECIFICATION MutationFairSpec
CHECK_DEADLOCK FALSE
INVARIANTS EffectAtMostOnce  RepliesAgree
PROPERTIES TerminalIsFinal 
