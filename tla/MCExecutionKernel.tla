------------------------- MODULE MCExecutionKernel -------------------------
(* Model-checking instances of ExecutionKernel. *)
EXTENDS ExecutionKernel

CONSTANTS p1, p2

AllCapabilities ==
    {"create_order_draft", "run_pretrade_check", "record_approval", "stage_execution_order",
     "submit_simulated_order"}

RequestSymmetry == {[p \in {p1, p2} |-> IF p = p1 THEN p2 ELSE p1]}
=============================================================================
