------------------------- MODULE MCCapitalAuthority -------------------------
(* Model-checking instances of CapitalAuthority. *)
EXTENDS CapitalAuthority, TLC

CONSTANTS p1, p2, alice, bob, agent1, m1, m2, g1, fund, etf, trade, submit, n1, n1s, n2

USD(n) == [amount |-> n, cur |-> "USD"]
EUR(n) == [amount |-> n, cur |-> "EUR"]

MCPolicies ==
    {[assets |-> {fund, etf}, restricted |-> {etf}, items |-> {trade, submit}, open |-> FALSE,
      level |-> 1, cap |-> USD(2)]}

Scope(assets, items, level, cap) ==
    [assets |-> assets, items |-> items, level |-> level, cap |-> cap]

(* One that the mandate allows, and one for each reason to refuse. *)
MCScopes ==
    {Scope({fund}, {trade}, 1, None), Scope({etf}, {}, None, None), Scope({}, {submit}, None, None),
     Scope({}, {}, 2, None), Scope({}, {}, None, USD(3))}

MCAmounts == {USD(1), USD(3), EUR(1)}
MCTotals == {None, 2}
MCUseLimits == {None, 1}
MCExpiries == {1}
ServerTime == {None}
ServerOrFirst == {None, 0}
Schedule == {None, 1, 2}
HistoryExpiries == {3}

AuthSymmetry ==
    Permutations(Procs) \cup Permutations(Principals) \cup Permutations(Series)
=============================================================================
