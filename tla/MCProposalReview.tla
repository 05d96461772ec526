-------------------------- MODULE MCProposalReview --------------------------
(* Model-checking instances of ProposalReview. *)
EXTENDS ProposalReview, TLC

CONSTANTS r1, r2, r3, w1, c1, c2, kc, ka, kb, b1

(* One key that creates the proposal and two that revise it. *)
TwoRevisions == [k \in {kc, ka, kb} |-> IF k = kc THEN "create" ELSE "revise"]

(* One key that creates, one that revises and one that attests. *)
RevisionAndAttestation ==
    [k \in {kc, ka, kb} |-> IF k = kc THEN "create" ELSE IF k = ka THEN "revise" ELSE "attest"]

ReviewSymmetry == Permutations(Requests) \cup Permutations(Resolvers)
=============================================================================
