--------------------------- MODULE KeyedMutation ---------------------------
(***************************************************************************)
(* The keyed mutation protocol of the API: a write that carries an         *)
(* Idempotency-Key is claimed in a durable identity receipt before its     *)
(* route runs, and the receipt is closed with the route's response         *)
(* afterwards (src/finharness/identity.py, api/app.py).  A receipt that    *)
(* stays pending is closed later by a typed resolver, run by an operator   *)
(* in a process of its own (api/identity_mutation_reconciliation.py).      *)
(*                                                                         *)
(* A key stands for a receipt id: actor, method, path and key of the       *)
(* request.  A body stands for the rest of the request binding: target,    *)
(* semantic headers, body hash and route capability.  Receipts are created *)
(* by link(2) and replaced under a lock when they still have the expected  *)
(* hash, so each of these is one step.  A response is identified by the    *)
(* request whose outcome it reports.                                       *)
(*                                                                         *)
(* What the route does is left open here: a claimed request either applies *)
(* one effect, bound to the receipt, or refuses without one.  The modules  *)
(* of the routes extend this one and say when.                             *)
(***************************************************************************)
EXTENDS Integers, FiniteSets

CONSTANTS
    Requests,    \* keyed writes that reach the middleware
    Resolvers,   \* operator processes that reconcile
    Keys,        \* identity receipt ids
    Bodies,      \* request bindings
    Typed,       \* keys of routes with a typed resolver
    Replayed,    \* keys of routes in mode terminal_replay_only
    None         \* no value

ASSUME ModesAssumption == Typed \subseteq Keys /\ Replayed \subseteq Keys

ASSUME NoneAssumption == None \notin Requests /\ None \notin Keys /\ None \notin Bodies

VARIABLES
    state,       \* "state" of each identity receipt, "absent" when there is no file
    bound,       \* "request" binding of each receipt
    response,    \* "response" of each receipt
    effects,     \* domain effects bound to each receipt, by the request that applied them
    phase,       \* how far each request has come
    key,         \* receipt id of each request
    body,        \* binding of each request
    reply,       \* outcome reported to the client of each request
    loaded,      \* pending receipt each resolver has read
    verified     \* effect each resolver has verified

receiptVars == <<state, bound, response>>
requestVars == <<phase, key, body, reply>>
resolverVars == <<loaded, verified>>
mutationVars == <<state, bound, response, effects, phase, key, body, reply, loaded, verified>>

Terminal == {"committed", "rejected", "reconciled_applied"}

Phases == {"new", "claimed", "applied", "refused", "done"}

MutationInit ==
    /\ state = [k \in Keys |-> "absent"]
    /\ bound = [k \in Keys |-> None]
    /\ response = [k \in Keys |-> None]
    /\ effects = [k \in Keys |-> {}]
    /\ phase = [r \in Requests |-> "new"]
    /\ key = [r \in Requests |-> None]
    /\ body = [r \in Requests |-> None]
    /\ reply = [r \in Requests |-> None]
    /\ loaded = [c \in Resolvers |-> None]
    /\ verified = [c \in Resolvers |-> None]

----------------------------------------------------------------------------
(* The middleware before the route.                                        *)

Admitted(k) == k \in Typed \cup Replayed

Arrive(r, k, b, next, told) ==
    /\ phase[r] = "new"
    /\ phase' = [phase EXCEPT ![r] = next]
    /\ key' = [key EXCEPT ![r] = k]
    /\ body' = [body EXCEPT ![r] = b]
    /\ reply' = [reply EXCEPT ![r] = told]

(* Unregistered and prohibited routes, an invalid browser binding and a    *)
(* body over the limit are answered before any receipt is touched.         *)
Deny(r, k, b) ==
    /\ Arrive(r, k, b, "done", None)
    /\ UNCHANGED <<receiptVars, effects, resolverVars>>

(* Mutant: a pending receipt is taken over by a retry. *)
ClaimOrRetry(r, k, b) ==
    /\ Admitted(k)
    /\ state[k] \in {"absent", "pending"}
    /\ state' = [state EXCEPT ![k] = "pending"]
    /\ bound' = [bound EXCEPT ![k] = b]
    /\ Arrive(r, k, b, "claimed", None)
    /\ UNCHANGED <<response, effects, resolverVars>>

(* begin_identity_mutation wins the exclusive create. *)
Claim(r, k, b) ==
    /\ Admitted(k)
    /\ state[k] = "absent"
    /\ state' = [state EXCEPT ![k] = "pending"]
    /\ bound' = [bound EXCEPT ![k] = b]
    /\ Arrive(r, k, b, "claimed", None)
    /\ UNCHANGED <<response, effects, resolverVars>>

(* Mutant: any request with the key gets the stored response. *)
ReplayAny(r, k, b) ==
    /\ Admitted(k)
    /\ state[k] \in Terminal
    /\ Arrive(r, k, b, "done", response[k])
    /\ UNCHANGED <<receiptVars, effects, resolverVars>>

(* The receipt exists and is terminal: the same request gets its response. *)
Replay(r, k, b) ==
    /\ Admitted(k)
    /\ state[k] \in Terminal
    /\ bound[k] = b
    /\ Arrive(r, k, b, "done", response[k])
    /\ UNCHANGED <<receiptVars, effects, resolverVars>>

(* Conflict for another request, ambiguous while pending: 409 for both. *)
Hold(r, k, b) ==
    /\ Admitted(k)
    /\ state[k] # "absent"
    /\ bound[k] # b \/ state[k] = "pending"
    /\ Arrive(r, k, b, "done", None)
    /\ UNCHANGED <<receiptVars, effects, resolverVars>>

----------------------------------------------------------------------------
(* The route, and the middleware after it.                                 *)

Move(r, from, to) ==
    /\ phase[r] \in from
    /\ phase' = [phase EXCEPT ![r] = to]
    /\ UNCHANGED <<key, body, reply>>

(* The route commits an effect that names the receipt. *)
Apply(r) ==
    /\ Move(r, {"claimed"}, "applied")
    /\ effects' = [effects EXCEPT ![key[r]] = @ \cup {r}]
    /\ UNCHANGED <<receiptVars, resolverVars>>

(* The route answers with an error status and without an effect. *)
Refuse(r) ==
    /\ Move(r, {"claimed"}, "refused")
    /\ UNCHANGED <<receiptVars, effects, resolverVars>>

(* The route raises, asks for recovery, or its response cannot be stored:  *)
(* the receipt stays pending.                                              *)
LeavePending(r) ==
    /\ Move(r, {"claimed", "applied", "refused"}, "done")
    /\ UNCHANGED <<receiptVars, effects, resolverVars>>

(* Mutant: the terminal state is written without comparing. *)
CompleteBlindly(r) ==
    /\ phase[r] \in {"applied", "refused"}
    /\ phase' = [phase EXCEPT ![r] = "done"]
    /\ state' = [state EXCEPT ![key[r]] = IF phase[r] = "applied" THEN "committed" ELSE "rejected"]
    /\ response' = [response EXCEPT ![key[r]] = r]
    /\ reply' = [reply EXCEPT ![r] = r]
    /\ UNCHANGED <<bound, effects, key, body, resolverVars>>

(* complete_identity_mutation: committed or rejected by the status code,   *)
(* if the receipt is still the pending one that was claimed.               *)
Complete(r) ==
    /\ phase[r] \in {"applied", "refused"}
    /\ state[key[r]] = "pending"
    /\ phase' = [phase EXCEPT ![r] = "done"]
    /\ state' = [state EXCEPT ![key[r]] = IF phase[r] = "applied" THEN "committed" ELSE "rejected"]
    /\ response' = [response EXCEPT ![key[r]] = r]
    /\ reply' = [reply EXCEPT ![r] = r]
    /\ UNCHANGED <<bound, effects, key, body, resolverVars>>

(* A resolver closed the receipt first: the completion raises. *)
CompleteTooLate(r) ==
    /\ Move(r, {"applied", "refused"}, "done")
    /\ state[key[r]] # "pending"
    /\ UNCHANGED <<receiptVars, effects, resolverVars>>

InFlight(r) == phase[r] \in {"claimed", "applied", "refused"}

(* The API process dies: every request in it goes, receipts stay. *)
ApiCrash ==
    /\ \E r \in Requests : InFlight(r)
    /\ phase' = [r \in Requests |-> IF InFlight(r) THEN "done" ELSE phase[r]]
    /\ UNCHANGED <<receiptVars, effects, key, body, reply, resolverVars>>

----------------------------------------------------------------------------
(* The typed resolver.                                                     *)

(* A pending receipt of a typed route is loaded. *)
Load(c, k) ==
    /\ loaded[c] = None
    /\ k \in Typed
    /\ state[k] = "pending"
    /\ loaded' = [loaded EXCEPT ![c] = k]
    /\ UNCHANGED <<receiptVars, effects, requestVars, verified>>

(* Mutant: the claimed request is taken for its effect. *)
VerifyClaim(c) ==
    /\ loaded[c] # None
    /\ verified[c] = None
    /\ \E e \in {r \in Requests : key[r] = loaded[c]} :
         verified' = [verified EXCEPT ![c] = e]
    /\ UNCHANGED <<receiptVars, effects, requestVars, loaded>>

(* Mutant: the response is taken from the receipt, which has none yet. *)
VerifyStored(c) ==
    /\ loaded[c] # None
    /\ verified[c] = None
    /\ response[loaded[c]] # None
    /\ verified' = [verified EXCEPT ![c] = response[loaded[c]]]
    /\ UNCHANGED <<receiptVars, effects, requestVars, loaded>>

(* The effect bound to the receipt is found in the domain's own records. *)
Verify(c) ==
    /\ loaded[c] # None
    /\ verified[c] = None
    /\ \E e \in effects[loaded[c]] : verified' = [verified EXCEPT ![c] = e]
    /\ UNCHANGED <<receiptVars, effects, requestVars, loaded>>

Rest(c) ==
    /\ loaded' = [loaded EXCEPT ![c] = None]
    /\ verified' = [verified EXCEPT ![c] = None]

(* record_verified_identity_mutation_reconciliation. *)
Reconcile(c) ==
    /\ verified[c] # None
    /\ state[loaded[c]] = "pending"
    /\ state' = [state EXCEPT ![loaded[c]] = "reconciled_applied"]
    /\ response' = [response EXCEPT ![loaded[c]] = verified[c]]
    /\ Rest(c)
    /\ UNCHANGED <<bound, effects, requestVars>>

(* Nothing verifiable, a lost compare-and-swap, or the process ends. *)
GiveUp(c) ==
    /\ loaded[c] # None
    /\ Rest(c)
    /\ UNCHANGED <<receiptVars, effects, requestVars>>

----------------------------------------------------------------------------
MiddlewareStep(r) ==
    \/ \E k \in Keys, b \in Bodies :
         Deny(r, k, b) \/ Claim(r, k, b) \/ Replay(r, k, b) \/ Hold(r, k, b)
    \/ Complete(r)
    \/ CompleteTooLate(r)
    \/ LeavePending(r)

RouteStep(r) == Apply(r) \/ Refuse(r)

ResolverStep(c) == (\E k \in Keys : Load(c, k)) \/ Verify(c) \/ Reconcile(c) \/ GiveUp(c)

MutationNext ==
    \/ \E r \in Requests : MiddlewareStep(r) \/ RouteStep(r)
    \/ ApiCrash
    \/ \E c \in Resolvers : ResolverStep(c)

MutationSpec == MutationInit /\ [][MutationNext]_mutationVars

(* An operator who keeps reconciling a pending receipt gets to the end of  *)
(* it, though any one attempt may be interrupted.                          *)
MutationFairSpec ==
    /\ MutationSpec
    /\ \A c \in Resolvers :
         /\ \A k \in Keys : SF_mutationVars(Load(c, k))
         /\ SF_mutationVars(Verify(c))
         /\ SF_mutationVars(Reconcile(c))
         /\ WF_mutationVars(GiveUp(c))

----------------------------------------------------------------------------
(* Properties.                                                             *)

MutationTypeOK ==
    /\ state \in [Keys -> {"absent", "pending"} \cup Terminal]
    /\ bound \in [Keys -> Bodies \cup {None}]
    /\ response \in [Keys -> Requests \cup {None}]
    /\ effects \in [Keys -> SUBSET Requests]
    /\ phase \in [Requests -> Phases]
    /\ key \in [Requests -> Keys \cup {None}]
    /\ body \in [Requests -> Bodies \cup {None}]
    /\ reply \in [Requests -> Requests \cup {None}]
    /\ loaded \in [Resolvers -> Keys \cup {None}]
    /\ verified \in [Resolvers -> Requests \cup {None}]

(* However often a keyed write is sent, whatever crashes and whoever       *)
(* reconciles, its route applies at most one effect                        *)
(* (begin_identity_mutation).                                              *)
EffectAtMostOnce ==
    \A k \in Keys : \A e, f \in effects[k] : e = f

(* A receipt closed as a success reports an effect that exists, one closed *)
(* as rejected belongs to a write with no effect                           *)
(* (complete_identity_mutation, the typed resolvers).                      *)
TerminalTellsTheTruth ==
    \A k \in Keys :
        /\ state[k] \in {"committed", "reconciled_applied"} => response[k] \in effects[k]
        /\ state[k] = "rejected" => effects[k] = {}

(* Any two clients that are told an outcome for one key asked for the same *)
(* thing and are told the same outcome (_protocol_response).               *)
RepliesAgree ==
    \A r, s \in Requests :
        (reply[r] # None /\ reply[s] # None /\ key[r] = key[s]) =>
            reply[r] = reply[s] /\ body[r] = body[s]

(* Of the writers that may close a receipt, whether they are requests or   *)
(* resolvers, one wins and what it wrote stays                             *)
(* (durable_compare_and_swap_json).                                        *)
TerminalIsFinal ==
    [][\A k \in Keys : state[k] \in Terminal =>
          /\ state'[k] = state[k]
          /\ response'[k] = response[k]
          /\ bound'[k] = bound[k]]_mutationVars

(* An effect whose answer was lost does not keep its key blocked forever:  *)
(* the receipt of a typed route is closed in the end                       *)
(* (reconcile_identity_mutation_from_domain_truth).                        *)
AppliedIsSettled ==
    \A k \in Typed : effects[k] # {} ~> state[k] \in Terminal
=============================================================================
