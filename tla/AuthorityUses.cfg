CONSTANTS
    p1 = p1
    p2 = p2
    alice = alice
    bob = bob
    agent1 = agent1
    m1 = m1
    m2 = m2
    g1 = g1
    fund = fund
    etf = etf
    trade = trade
    submit = submit
    n1 = n1
    n1s = n1s
    n2 = n2
    Procs = {p1, p2}
    Principals = {alice}
    Agents = {agent1}
    Series = {m1, m2}
    Grants = {g1}
    Policies <- MCPolicies
    Scopes <- MCScopes
    Amounts <- MCAmounts
    Totals <- MCTotals
    UseLimits <- MCUseLimits
    Expiries <- MCExpiries
    ScheduleTimes <- ServerTime
    UseTimes <- ServerOrFirst
    Nonces = {n1, n1s, n2}
    Padded = {n1s}
    Forbidden = {submit}
    MaxTime = 1
    MaxVersions = 2
    MaxEvents = 3
    None = None
SPECIFICATION AuthSpec
CHECK_DEADLOCK FALSE
INVARIANTS AuthTypeOK UsesWithinGrant UsesWithinMandate
 
SYMMETRY AuthSymmetry
