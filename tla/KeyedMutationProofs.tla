------------------------ MODULE KeyedMutationProofs ------------------------
(* What the keyed mutation protocol guarantees for any number of requests,  *)
(* resolvers, keys and bodies.                                              *)
EXTENDS KeyedMutation, TLAPS

(* A request between claim and completion is the only one on its key, its   *)
(* receipt is still open to it and no effect but its own is there.          *)
Owning(r) ==
    InFlight(r) =>
        /\ key[r] \in Keys
        /\ state[key[r]] \in {"pending", "reconciled_applied"}
        /\ body[r] = bound[key[r]]
        /\ effects[key[r]] = IF phase[r] = "applied" THEN {r} ELSE {}
        /\ \A s \in Requests : InFlight(s) /\ key[s] = key[r] => s = r

(* A client is told only what a terminal receipt of its own request says.   *)
Told(r) ==
    reply[r] # None =>
        /\ key[r] \in Keys
        /\ state[key[r]] \in Terminal
        /\ reply[r] = response[key[r]]
        /\ body[r] = bound[key[r]]

(* What a receipt says of the effects bound to it.                          *)
Truthful(k) ==
    /\ state[k] = "absent" => effects[k] = {}
    /\ \A e, f \in effects[k] : e = f
    /\ state[k] \in {"committed", "reconciled_applied"} => response[k] \in effects[k]
    /\ state[k] = "rejected" => effects[k] = {}

(* What a resolver has verified is an effect of the receipt it loaded.      *)
Evidence(c) ==
    verified[c] # None => loaded[c] \in Keys /\ verified[c] \in effects[loaded[c]]

(* The inductive invariant.                                                 *)
MutationInv ==
    /\ MutationTypeOK
    /\ \A r \in Requests : Owning(r) /\ Told(r)
    /\ \A k \in Keys : Truthful(k)
    /\ \A c \in Resolvers : Evidence(c)

(* No receipt, no request and no resolver: nothing to say.                  *)
LEMMA InitInv == MutationInit => MutationInv
BY DEF MutationInit, MutationInv, MutationTypeOK, Phases, Owning, Told, Truthful, Evidence,
       InFlight

----------------------------------------------------------------------------
(* A request that is answered before any receipt is touched. *)
LEMMA DenyInv ==
    ASSUME MutationInv, NEW r \in Requests, NEW k \in Keys, NEW b \in Bodies, Deny(r, k, b)
    PROVE  MutationInv'
<1> USE DEF Deny, Arrive, receiptVars, resolverVars
<1>0. MutationTypeOK /\ (\A s \in Requests : Owning(s) /\ Told(s))
      /\ (\A m \in Keys : Truthful(m)) /\ (\A d \in Resolvers : Evidence(d))
  BY DEF MutationInv
<1>1. MutationTypeOK'
  BY <1>0 DEF MutationTypeOK, Phases, Terminal, Owning, InFlight
<1>2. ASSUME NEW s \in Requests PROVE Owning(s)'
  BY <1>0 DEF MutationTypeOK, Owning, InFlight
<1>3. ASSUME NEW s \in Requests PROVE Told(s)'
  BY <1>0 DEF MutationTypeOK, Told, Owning, InFlight, Terminal
<1>4. ASSUME NEW m \in Keys PROVE Truthful(m)'
  BY <1>0 DEF MutationTypeOK, Truthful, Owning, InFlight
<1>5. ASSUME NEW d \in Resolvers PROVE Evidence(d)'
  BY <1>0 DEF MutationTypeOK, Evidence, Owning, InFlight
<1> QED
  BY <1>1, <1>2, <1>3, <1>4, <1>5 DEF MutationInv

(* The exclusive create makes the request the only one on its key. *)
LEMMA ClaimInv ==
    ASSUME MutationInv, NEW r \in Requests, NEW k \in Keys, NEW b \in Bodies, Claim(r, k, b)
    PROVE  MutationInv'
<1> USE DEF Claim, Arrive, resolverVars
<1>0. MutationTypeOK /\ (\A s \in Requests : Owning(s) /\ Told(s))
      /\ (\A m \in Keys : Truthful(m)) /\ (\A d \in Resolvers : Evidence(d))
  BY DEF MutationInv
<1>1. MutationTypeOK'
  BY <1>0 DEF MutationTypeOK, Phases, Terminal, Owning, InFlight
<1>2. ASSUME NEW s \in Requests PROVE Owning(s)'
  <2>1. CASE s = r
    <3>1. key'[r] = k /\ body'[r] = b /\ bound'[k] = b /\ state'[k] = "pending"
          /\ phase'[r] = "claimed" /\ effects'[k] = effects[k]
      BY <1>0 DEF MutationTypeOK
    <3>2. effects[k] = {}
      BY <1>0 DEF Truthful
    <3>3. ASSUME NEW t \in Requests, InFlight(t)', key'[t] = k PROVE t = r
      <4>1. t # r => phase'[t] = phase[t] /\ key'[t] = key[t]
        BY <1>0 DEF MutationTypeOK
      <4>2. InFlight(t) => state[key[t]] # "absent"
        BY <1>0 DEF Owning
      <4> QED
        BY <3>3, <4>1, <4>2 DEF InFlight
    <3> QED
      BY <2>1, <3>1, <3>2, <3>3 DEF Owning
  <2>2. CASE s # r
    <3>1. phase'[s] = phase[s] /\ key'[s] = key[s] /\ body'[s] = body[s]
      BY <1>0, <2>2 DEF MutationTypeOK
    <3>2. InFlight(s) => Owning(s)
      BY <1>0
    <3> QED
      BY <1>0, <2>2, <3>1, <3>2 DEF MutationTypeOK, Owning, InFlight
  <2> QED
    BY <2>1, <2>2
<1>3. ASSUME NEW s \in Requests PROVE Told(s)'
  BY <1>0 DEF MutationTypeOK, Told, Owning, InFlight, Terminal
<1>4. ASSUME NEW m \in Keys PROVE Truthful(m)'
  BY <1>0 DEF MutationTypeOK, Truthful, Owning, InFlight
<1>5. ASSUME NEW d \in Resolvers PROVE Evidence(d)'
  BY <1>0 DEF MutationTypeOK, Evidence, Owning, InFlight
<1> QED
  BY <1>1, <1>2, <1>3, <1>4, <1>5 DEF MutationInv

(* A replayed answer is the stored one, for the same request. *)
LEMMA ReplayInv ==
    ASSUME MutationInv, NEW r \in Requests, NEW k \in Keys, NEW b \in Bodies, Replay(r, k, b) \/ Hold(r, k, b)
    PROVE  MutationInv'
<1> USE DEF Replay, Hold, Arrive, receiptVars, resolverVars
<1>0. MutationTypeOK /\ (\A s \in Requests : Owning(s) /\ Told(s))
      /\ (\A m \in Keys : Truthful(m)) /\ (\A d \in Resolvers : Evidence(d))
  BY DEF MutationInv
<1>1. MutationTypeOK'
  BY <1>0 DEF MutationTypeOK, Phases, Terminal, Owning, InFlight
<1>2. ASSUME NEW s \in Requests PROVE Owning(s)'
  <2>1. CASE s = r
    BY <1>0, <2>1 DEF MutationTypeOK, Owning, Truthful, InFlight
  <2>2. CASE s # r
    <3>1. phase'[s] = phase[s] /\ key'[s] = key[s] /\ body'[s] = body[s]
      BY <1>0, <2>2 DEF MutationTypeOK
    <3>2. InFlight(s) => Owning(s)
      BY <1>0
    <3> QED
      BY <1>0, <2>2, <3>1, <3>2 DEF MutationTypeOK, Owning, InFlight
  <2> QED
    BY <2>1, <2>2
<1>3. ASSUME NEW s \in Requests PROVE Told(s)'
  <2>1. CASE s = r
    BY <1>0, <2>1 DEF MutationTypeOK, Told
  <2>2. CASE s # r
    <3>1. reply'[s] = reply[s] /\ key'[s] = key[s] /\ body'[s] = body[s]
      BY <1>0, <2>2 DEF MutationTypeOK
    <3> QED
      BY <1>0, <3>1 DEF Told
  <2> QED
    BY <2>1, <2>2
<1>4. ASSUME NEW m \in Keys PROVE Truthful(m)'
  BY <1>0 DEF MutationTypeOK, Truthful, Owning, InFlight
<1>5. ASSUME NEW d \in Resolvers PROVE Evidence(d)'
  BY <1>0 DEF MutationTypeOK, Evidence, Owning, InFlight
<1> QED
  BY <1>1, <1>2, <1>3, <1>4, <1>5 DEF MutationInv

(* The route applies its one effect or none. *)
LEMMA RouteInv ==
    ASSUME MutationInv, NEW r \in Requests, RouteStep(r)
    PROVE  MutationInv'
<1> USE DEF RouteStep, Apply, Refuse, Move, receiptVars, resolverVars
<1>0. MutationTypeOK /\ (\A s \in Requests : Owning(s) /\ Told(s))
      /\ (\A m \in Keys : Truthful(m)) /\ (\A d \in Resolvers : Evidence(d))
  BY DEF MutationInv
<1>1. MutationTypeOK'
  BY <1>0 DEF MutationTypeOK, Phases, Terminal, Owning, InFlight
<1>2. ASSUME NEW s \in Requests PROVE Owning(s)'
  <2>1. CASE s = r
    <3>1. InFlight(r) /\ phase[r] = "claimed"
      BY DEF InFlight
    <3>2. key[r] \in Keys /\ effects[key[r]] = {}
      BY <1>0, <3>1 DEF Owning
    <3>3. effects'[key[r]] = IF phase'[r] = "applied" THEN {r} ELSE {}
      <4>1. CASE Apply(r)
        BY <1>0, <3>2, <4>1 DEF MutationTypeOK
      <4>2. CASE Refuse(r)
        BY <1>0, <3>2, <4>2 DEF MutationTypeOK
      <4> QED
        BY <4>1, <4>2
    <3>4. ASSUME NEW t \in Requests, InFlight(t)', key[t] = key[r] PROVE t = r
      <4>1. t # r => phase'[t] = phase[t]
        BY <1>0 DEF MutationTypeOK
      <4> QED
        BY <1>0, <3>1, <3>4, <4>1 DEF Owning, InFlight
    <3>5. UNCHANGED <<state, bound, key, body>>
      OBVIOUS
    <3> QED
      BY <1>0, <2>1, <3>1, <3>2, <3>3, <3>4, <3>5 DEF Owning
  <2>2. CASE s # r
    <3>1. phase'[s] = phase[s] /\ key'[s] = key[s] /\ body'[s] = body[s]
      BY <1>0, <2>2 DEF MutationTypeOK
    <3>2. InFlight(s) => Owning(s)
      BY <1>0
    <3> QED
      BY <1>0, <2>2, <3>1, <3>2 DEF MutationTypeOK, Owning, InFlight
  <2> QED
    BY <2>1, <2>2
<1>3. ASSUME NEW s \in Requests PROVE Told(s)'
  BY <1>0 DEF MutationTypeOK, Told, Owning, InFlight, Terminal
<1>4. ASSUME NEW m \in Keys PROVE Truthful(m)'
  <2>1. key[r] \in Keys /\ effects[key[r]] = {} /\ InFlight(r)
    BY <1>0 DEF MutationTypeOK, Owning, InFlight
  <2>2. CASE m = key[r]
    <3>1. state[m] = "pending"
      BY <1>0, <2>1, <2>2 DEF Owning, Truthful
    <3>2. state'[m] = state[m] /\ effects'[m] \subseteq {r}
      BY <1>0, <2>1, <2>2 DEF MutationTypeOK
    <3> QED
      BY <3>1, <3>2 DEF Truthful
  <2>3. CASE m # key[r]
    <3>1. state'[m] = state[m] /\ effects'[m] = effects[m] /\ response'[m] = response[m]
      BY <1>0, <2>3 DEF MutationTypeOK
    <3> QED
      BY <1>0, <3>1 DEF Truthful
  <2> QED
    BY <2>2, <2>3
<1>5. ASSUME NEW d \in Resolvers PROVE Evidence(d)'
  BY <1>0 DEF MutationTypeOK, Evidence, Owning, InFlight
<1> QED
  BY <1>1, <1>2, <1>3, <1>4, <1>5 DEF MutationInv

(* Completion closes the receipt and leaves nobody on the key. *)
LEMMA CompleteInv ==
    ASSUME MutationInv, NEW r \in Requests, Complete(r)
    PROVE  MutationInv'
<1> USE DEF Complete, resolverVars
<1>0. MutationTypeOK /\ (\A s \in Requests : Owning(s) /\ Told(s))
      /\ (\A m \in Keys : Truthful(m)) /\ (\A d \in Resolvers : Evidence(d))
  BY DEF MutationInv
<1>1. MutationTypeOK'
  BY <1>0 DEF MutationTypeOK, Phases, Terminal, Owning, InFlight
<1>2. ASSUME NEW s \in Requests PROVE Owning(s)'
  BY <1>0 DEF MutationTypeOK, Owning, InFlight
<1>3. ASSUME NEW s \in Requests PROVE Told(s)'
  BY <1>0 DEF MutationTypeOK, Told, Owning, InFlight, Terminal
<1>4. ASSUME NEW m \in Keys PROVE Truthful(m)'
  <2>1. InFlight(r) /\ key[r] \in Keys
    BY <1>0 DEF MutationTypeOK, Owning, InFlight
  <2>2. CASE m = key[r]
    <3>1. response'[m] = r /\ effects'[m] = effects[m]
      BY <1>0, <2>1, <2>2 DEF MutationTypeOK
    <3>2. CASE phase[r] = "applied"
      <4>1. effects[m] = {r} /\ state'[m] = "committed"
        BY <1>0, <2>1, <2>2, <3>2 DEF MutationTypeOK, Owning
      <4> QED
        BY <3>1, <4>1 DEF Truthful
    <3>3. CASE phase[r] = "refused"
      <4>1. effects[m] = {} /\ state'[m] = "rejected"
        BY <1>0, <2>1, <2>2, <3>3 DEF MutationTypeOK, Owning
      <4> QED
        BY <3>1, <4>1 DEF Truthful
    <3> QED
      BY <3>2, <3>3
  <2>3. CASE m # key[r]
    <3>1. state'[m] = state[m] /\ effects'[m] = effects[m] /\ response'[m] = response[m]
      BY <1>0, <2>3 DEF MutationTypeOK
    <3> QED
      BY <1>0, <3>1 DEF Truthful
  <2> QED
    BY <2>2, <2>3
<1>5. ASSUME NEW d \in Resolvers PROVE Evidence(d)'
  BY <1>0 DEF MutationTypeOK, Evidence, Owning, InFlight
<1> QED
  BY <1>1, <1>2, <1>3, <1>4, <1>5 DEF MutationInv

(* A request that ends otherwise changes no receipt. *)
LEMMA LeaveInv ==
    ASSUME MutationInv, NEW r \in Requests, LeavePending(r) \/ CompleteTooLate(r)
    PROVE  MutationInv'
<1> USE DEF LeavePending, CompleteTooLate, Move, receiptVars, resolverVars
<1>0. MutationTypeOK /\ (\A s \in Requests : Owning(s) /\ Told(s))
      /\ (\A m \in Keys : Truthful(m)) /\ (\A d \in Resolvers : Evidence(d))
  BY DEF MutationInv
<1>1. MutationTypeOK'
  BY <1>0 DEF MutationTypeOK, Phases, Terminal, Owning, InFlight
<1>2. ASSUME NEW s \in Requests PROVE Owning(s)'
  <2>1. CASE s = r
    BY <1>0, <2>1 DEF MutationTypeOK, Owning, Truthful, InFlight
  <2>2. CASE s # r
    <3>1. phase'[s] = phase[s] /\ key'[s] = key[s] /\ body'[s] = body[s]
      BY <1>0, <2>2 DEF MutationTypeOK
    <3>2. InFlight(s) => Owning(s)
      BY <1>0
    <3> QED
      BY <1>0, <2>2, <3>1, <3>2 DEF MutationTypeOK, Owning, InFlight
  <2> QED
    BY <2>1, <2>2
<1>3. ASSUME NEW s \in Requests PROVE Told(s)'
  BY <1>0 DEF MutationTypeOK, Told, Owning, InFlight, Terminal
<1>4. ASSUME NEW m \in Keys PROVE Truthful(m)'
  BY <1>0 DEF MutationTypeOK, Truthful, Owning, InFlight
<1>5. ASSUME NEW d \in Resolvers PROVE Evidence(d)'
  BY <1>0 DEF MutationTypeOK, Evidence, Owning, InFlight
<1> QED
  BY <1>1, <1>2, <1>3, <1>4, <1>5 DEF MutationInv

(* Nor does the death of the API process. *)
LEMMA CrashInv ==
    ASSUME MutationInv, ApiCrash
    PROVE  MutationInv'
<1> USE DEF ApiCrash, receiptVars, resolverVars
<1>0. MutationTypeOK /\ (\A s \in Requests : Owning(s) /\ Told(s))
      /\ (\A m \in Keys : Truthful(m)) /\ (\A d \in Resolvers : Evidence(d))
  BY DEF MutationInv
<1>1. MutationTypeOK'
  BY <1>0 DEF MutationTypeOK, Phases, Terminal, Owning, InFlight
<1>2. ASSUME NEW s \in Requests PROVE Owning(s)'
  BY <1>0 DEF MutationTypeOK, Owning, InFlight
<1>3. ASSUME NEW s \in Requests PROVE Told(s)'
  BY <1>0 DEF MutationTypeOK, Told, Owning, InFlight, Terminal
<1>4. ASSUME NEW m \in Keys PROVE Truthful(m)'
  BY <1>0 DEF MutationTypeOK, Truthful, Owning, InFlight
<1>5. ASSUME NEW d \in Resolvers PROVE Evidence(d)'
  BY <1>0 DEF MutationTypeOK, Evidence, Owning, InFlight
<1> QED
  BY <1>1, <1>2, <1>3, <1>4, <1>5 DEF MutationInv

(* Loading, verifying and giving up only read. *)
LEMMA LookInv ==
    ASSUME MutationInv, NEW c \in Resolvers,
           (\E k \in Keys : Load(c, k)) \/ Verify(c) \/ GiveUp(c)
    PROVE  MutationInv'
<1> USE DEF Load, Verify, GiveUp, Rest, receiptVars, requestVars
<1>0. MutationTypeOK /\ (\A s \in Requests : Owning(s) /\ Told(s))
      /\ (\A m \in Keys : Truthful(m)) /\ (\A d \in Resolvers : Evidence(d))
  BY DEF MutationInv
<1>1. MutationTypeOK'
  BY <1>0 DEF MutationTypeOK, Phases, Terminal, Owning, InFlight
<1>2. ASSUME NEW s \in Requests PROVE Owning(s)'
  <2>1. UNCHANGED <<state, bound, effects, phase, key, body>>
    OBVIOUS
  <2> QED
    BY <1>0, <2>1 DEF Owning, InFlight
<1>3. ASSUME NEW s \in Requests PROVE Told(s)'
  BY <1>0 DEF MutationTypeOK, Told, Owning, InFlight, Terminal
<1>4. ASSUME NEW m \in Keys PROVE Truthful(m)'
  BY <1>0 DEF MutationTypeOK, Truthful, Owning, InFlight
<1>5. ASSUME NEW d \in Resolvers PROVE Evidence(d)'
  <2>1. CASE d = c
    <3>1. CASE \E k \in Keys : Load(c, k)
      <4>1. verified[c] = None \/ loaded[c] \in Keys
        BY <1>0 DEF Evidence
      <4> QED
        BY <1>0, <2>1, <3>1, <4>1, NoneAssumption DEF MutationTypeOK, Evidence
    <3>2. CASE Verify(c)
      BY <1>0, <2>1, <3>2 DEF MutationTypeOK, Evidence
    <3>3. CASE GiveUp(c)
      BY <1>0, <2>1, <3>3 DEF MutationTypeOK, Evidence
    <3> QED
      BY <3>1, <3>2, <3>3
  <2>2. CASE d # c
    <3>1. loaded'[d] = loaded[d] /\ verified'[d] = verified[d] /\ effects' = effects
      BY <1>0, <2>2 DEF MutationTypeOK
    <3> QED
      BY <1>0, <3>1 DEF Evidence
  <2> QED
    BY <2>1, <2>2
<1> QED
  BY <1>1, <1>2, <1>3, <1>4, <1>5 DEF MutationInv

(* A resolver closes a receipt with an effect that is there. *)
LEMMA ReconcileInv ==
    ASSUME MutationInv, NEW c \in Resolvers, Reconcile(c)
    PROVE  MutationInv'
<1> USE DEF Reconcile, Rest, requestVars
<1>0. MutationTypeOK /\ (\A s \in Requests : Owning(s) /\ Told(s))
      /\ (\A m \in Keys : Truthful(m)) /\ (\A d \in Resolvers : Evidence(d))
  BY DEF MutationInv
<1>1. MutationTypeOK'
  BY <1>0 DEF MutationTypeOK, Phases, Terminal, Owning, InFlight
<1>2. ASSUME NEW s \in Requests PROVE Owning(s)'
  BY <1>0 DEF MutationTypeOK, Owning, InFlight
<1>3. ASSUME NEW s \in Requests PROVE Told(s)'
  BY <1>0 DEF MutationTypeOK, Told, Owning, InFlight, Terminal
<1>4. ASSUME NEW m \in Keys PROVE Truthful(m)'
  <2>1. loaded[c] \in Keys /\ verified[c] \in effects[loaded[c]]
    BY <1>0 DEF Evidence
  <2>2. CASE m = loaded[c]
    <3>1. state'[m] = "reconciled_applied" /\ response'[m] = verified[c] /\ effects'[m] = effects[m]
      BY <1>0, <2>1, <2>2 DEF MutationTypeOK
    <3> QED
      BY <1>0, <2>1, <2>2, <3>1 DEF Truthful
  <2>3. CASE m # loaded[c]
    <3>1. state'[m] = state[m] /\ effects'[m] = effects[m] /\ response'[m] = response[m]
      BY <1>0, <2>3 DEF MutationTypeOK
    <3> QED
      BY <1>0, <3>1 DEF Truthful
  <2> QED
    BY <2>2, <2>3
<1>5. ASSUME NEW d \in Resolvers PROVE Evidence(d)'
  BY <1>0 DEF MutationTypeOK, Evidence, Owning, InFlight
<1> QED
  BY <1>1, <1>2, <1>3, <1>4, <1>5 DEF MutationInv

----------------------------------------------------------------------------
(* Every step of the protocol preserves the invariant.                      *)
LEMMA NextInv == MutationInv /\ [MutationNext]_mutationVars => MutationInv'
<1> SUFFICES ASSUME MutationInv, [MutationNext]_mutationVars PROVE MutationInv'
  OBVIOUS
<1>1. ASSUME NEW r \in Requests, MiddlewareStep(r) PROVE MutationInv'
  BY <1>1, DenyInv, ClaimInv, ReplayInv, CompleteInv, LeaveInv DEF MiddlewareStep
<1>2. ASSUME NEW r \in Requests, RouteStep(r) PROVE MutationInv'
  BY <1>2, RouteInv
<1>3. CASE ApiCrash
  BY <1>3, CrashInv
<1>4. ASSUME NEW c \in Resolvers, ResolverStep(c) PROVE MutationInv'
  BY <1>4, LookInv, ReconcileInv DEF ResolverStep
<1>5. CASE UNCHANGED mutationVars
  <2>1. MutationTypeOK'
    BY <1>5 DEF mutationVars, MutationInv, MutationTypeOK
  <2>2. ASSUME NEW r \in Requests PROVE Owning(r)' /\ Told(r)'
    BY <1>5 DEF mutationVars, MutationInv, Owning, Told, InFlight
  <2>3. ASSUME NEW k \in Keys PROVE Truthful(k)'
    BY <1>5 DEF mutationVars, MutationInv, Truthful
  <2>4. ASSUME NEW c \in Resolvers PROVE Evidence(c)'
    BY <1>5 DEF mutationVars, MutationInv, Evidence
  <2> QED
    BY <2>1, <2>2, <2>3, <2>4 DEF MutationInv
<1> QED
  BY <1>1, <1>2, <1>3, <1>4, <1>5 DEF MutationNext

(* The inductive invariant holds in every reachable state.                  *)
THEOREM MutationInvariant == MutationSpec => []MutationInv
BY InitInv, NextInv, PTL DEF MutationSpec

(* A keyed write applies at most one effect, however many requests carry    *)
(* the key and whoever crashes (begin_identity_mutation).                   *)
THEOREM MutationEffectAtMostOnce == MutationSpec => []EffectAtMostOnce
<1>1. MutationInv => EffectAtMostOnce
  BY DEF MutationInv, Truthful, EffectAtMostOnce
<1> QED
  BY <1>1, MutationInvariant, PTL

(* A closed receipt tells the truth about its effect, whether a request or  *)
(* a resolver closed it.                                                    *)
THEOREM MutationTellsTheTruth == MutationSpec => []TerminalTellsTheTruth
<1>1. MutationInv => TerminalTellsTheTruth
  BY DEF MutationInv, Truthful, TerminalTellsTheTruth
<1> QED
  BY <1>1, MutationInvariant, PTL

(* Clients of one key that are told an outcome asked for the same thing and *)
(* are told the same outcome.                                               *)
THEOREM MutationRepliesAgree == MutationSpec => []RepliesAgree
<1>1. MutationInv => RepliesAgree
  BY DEF MutationInv, Told, RepliesAgree
<1> QED
  BY <1>1, MutationInvariant, PTL

(* The first writer that closes a receipt wins for good.                    *)
THEOREM MutationTerminalIsFinal == MutationSpec => TerminalIsFinal
<1>1. MutationInv /\ [MutationNext]_mutationVars =>
        \A k \in Keys : state[k] \in Terminal =>
            /\ state'[k] = state[k]
            /\ response'[k] = response[k]
            /\ bound'[k] = bound[k]
  <2> SUFFICES ASSUME MutationInv, [MutationNext]_mutationVars, NEW k \in Keys,
                      state[k] \in Terminal
               PROVE  state'[k] = state[k] /\ response'[k] = response[k] /\ bound'[k] = bound[k]
    OBVIOUS
  <2>0. MutationTypeOK /\ state[k] # "absent" /\ state[k] # "pending"
    BY DEF MutationInv, Terminal
  <2>1. ASSUME NEW r \in Requests, NEW m \in Keys, NEW b \in Bodies, Claim(r, m, b)
        PROVE  state'[k] = state[k] /\ response'[k] = response[k] /\ bound'[k] = bound[k]
    BY <2>0, <2>1 DEF Claim, MutationTypeOK
  <2>2. ASSUME NEW r \in Requests, Complete(r)
        PROVE  state'[k] = state[k] /\ response'[k] = response[k] /\ bound'[k] = bound[k]
    BY <2>0, <2>2 DEF Complete, MutationTypeOK
  <2>3. ASSUME NEW c \in Resolvers, Reconcile(c)
        PROVE  state'[k] = state[k] /\ response'[k] = response[k] /\ bound'[k] = bound[k]
    BY <2>0, <2>3 DEF Reconcile, MutationTypeOK
  <2>4. CASE UNCHANGED receiptVars
    BY <2>4 DEF receiptVars
  <2>5. \/ \E r \in Requests, m \in Keys, b \in Bodies : Claim(r, m, b)
        \/ \E r \in Requests : Complete(r)
        \/ \E c \in Resolvers : Reconcile(c)
        \/ UNCHANGED receiptVars
    BY DEF MutationNext, MiddlewareStep, RouteStep, ResolverStep, Deny, Replay, Hold, Apply,
           Refuse, LeavePending, CompleteTooLate, ApiCrash, Load, Verify, GiveUp, mutationVars,
           receiptVars
  <2> QED
    BY <2>1, <2>2, <2>3, <2>4, <2>5
<1> QED
  BY <1>1, MutationInvariant, PTL DEF MutationSpec, TerminalIsFinal
============================================================================
