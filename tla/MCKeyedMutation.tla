-------------------------- MODULE MCKeyedMutation --------------------------
(* Model-checking instances of KeyedMutation. *)
EXTENDS KeyedMutation, TLC

CONSTANTS r1, r2, c1, c2, k1, k2, b1, b2

=============================================================================
