---------------------------- MODULE MCAgentShell ----------------------------
(* Model-checking instances of AgentShell. *)
EXTENDS AgentShell, TLC

CONSTANTS r1, r2, r3, c1, s1, e1, e2, w1, w2, b1, launch, buy, move

(* A paper Effect sent twice, and a World recovery. *)
EffectRoutes == e1 :> "effect" @@ e2 :> "effect" @@ w1 :> "recover"

EffectIds == e1 :> buy @@ e2 :> buy @@ w1 :> move

EffectSenders == r1 :> e1 @@ r2 :> e2 @@ r3 :> w1

(* A start, perhaps a retry, and a World recovery sent twice. *)
WorldRoutes == s1 :> "start" @@ w1 :> "recover" @@ w2 :> "recover"

WorldIds == s1 :> launch @@ w1 :> move @@ w2 :> move

WorldSenders == r1 :> s1 @@ r2 :> w1 @@ r3 :> w2

(* Which of two keys for one request_id comes first does not matter. *)
Swap(a, b) == a :> b @@ b :> a

WorldSymmetry == {Swap(w1, w2) @@ Swap(r2, r3)}
=============================================================================
