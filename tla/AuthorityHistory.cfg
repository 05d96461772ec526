CONSTANTS
    p1 = p1
    p2 = p2
    alice = alice
    bob = bob
    agent1 = agent1
    m1 = m1
    m2 = m2
    g1 = g1
    fund = fund
    etf = etf
    trade = trade
    submit = submit
    n1 = n1
    n1s = n1s
    n2 = n2
    Procs = {p1, p2}
    Principals = {alice, bob}
    Agents = {agent1}
    Series = {m1}
    Grants = {}
    Policies <- MCPolicies
    Scopes <- MCScopes
    Amounts <- MCAmounts
    Totals <- MCTotals
    UseLimits <- MCUseLimits
    Expiries <- HistoryExpiries
    ScheduleTimes <- Schedule
    UseTimes <- ServerTime
    Nonces = {n1, n1s, n2}
    Padded = {n1s}
    Forbidden = {submit}
    MaxTime = 3
    MaxVersions = 2
    MaxEvents = 6
    None = None
SPECIFICATION AuthSpec
CHECK_DEADLOCK FALSE
INVARIANTS RevocationHolds
PROPERTIES ReductionsTakeEffect
SYMMETRY AuthSymmetry
