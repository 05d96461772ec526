------------------------- MODULE MCRuntimeRegistry -------------------------
(* Small instance of the registry: two request keys race for two Jobs, over *)
(* two workspaces, with requests that carry different global limits.        *)
EXTENDS RuntimeRegistry, TLC

CONSTANTS j1, j2, k1, k2, w1, w2, opA, r1

MCJobs == {j1, j2}
MCKeys == {k1, k2}
MCWorkspaces == {w1, w2}
MCOperations == {opA}
MCResults == {r1}
MCGlobalLimits == {1, 2}

(* Jobs, keys and workspaces are only ever compared for equality.  *)
MCSymmetry ==
    Permutations(MCJobs) \cup Permutations(MCKeys) \cup Permutations(MCWorkspaces)

============================================================================
