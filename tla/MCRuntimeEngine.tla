-------------------------- MODULE MCRuntimeEngine --------------------------
(* Small instances of the engine: one Job, one or two control processes.    *)
EXTENDS RuntimeEngine, TLC

CONSTANTS j1, k1, w1, opA, p1, p2

MCJobs == {j1}
MCKeys == {k1}
MCWorkspaces == {w1}
MCOperations == {opA}
OneProc == {p1}
TwoProcs == {p1, p2}
MCResults == {"runner"} \cup Procs
MCGlobalLimits == {1}
AllCommands == {"run", "observe", "cancel", "list"}
RunObserveCancel == {"run", "observe", "cancel"}
AllVerdicts == {"succeeded", "failed", "timed_out", "invalid"}
OneVerdict == {"succeeded"}

(* Control processes are only ever compared for equality. *)
MCSymmetry == Permutations(Procs)

============================================================================
