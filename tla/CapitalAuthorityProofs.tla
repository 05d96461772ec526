----------------------- MODULE CapitalAuthorityProofs -----------------------
(* Proofs about CapitalAuthority: a use of a grant is committed only while  *)
(* the grant and the mandate behind it stand, for any number of processes,  *)
(* principals, mandates and grants and however far the clock runs.          *)
EXTENDS CapitalAuthority, TLAPS

(* A use under way, before (use) or after (locked) it has the write lock. *)
UseTask ==
    [op : {"use", "locked"}, grant : Grants, who : Principals, agent : Agents, nonce : Nonces,
     scope : Scopes, money : Amounts, at : UseTimes \cup Nat]

(* Why the second validation is enough: everything it looked at is guarded  *)
(* by the lock, so it still holds at every state until the commit.          *)
AuthorityInv ==
    /\ clock \in Nat
    /\ task = [p \in Procs |-> task[p]]
    /\ \A p \in Procs : task[p].op \in {"use", "locked"} => task[p] \in UseTask
    /\ \A p \in Procs : task[p].op = "locked" => Authorised(task[p])

(* Resolution reads versions and events only, not the clock. *)
LEMMA ResolveKept ==
    ASSUME NEW who, NEW at, versions' = versions, events' = events
    PROVE  Resolve(who, at)' = Resolve(who, at)
BY DEF Resolve, Owners, LatestVersion, VersionBefore, StatusOf, EffectiveEvents, LatestEvent,
       EventBefore, Over

(* A use stays authorised while versions, events and grants stay as they are. *)
LEMMA AuthorisedKept ==
    ASSUME NEW use, Authorised(use), UNCHANGED <<versions, events, grants>>
    PROVE  Authorised(use)'
<1>1. Resolve(grants[use.grant].owner, use.at)' = Resolve(grants[use.grant].owner, use.at)
  BY ResolveKept
<1> QED BY <1>1 DEF Authorised, Over

(* What a validation asks for includes being authorised. *)
LEMMA ValidAuthorised ==
    ASSUME NEW use, NEW at, Valid(use, at)
    PROVE  LET grant == grants[use.grant]
               now == Resolve(grant.owner, at)
           IN  /\ grant.status = "active"
               /\ ~Over(grant.exp, at)
               /\ now.status = "active" /\ now.version = grant.version
BY DEF Valid, Standing

(* A step that leaves the tables alone and each task as it is or not a use. *)
LEMMA TablesKeptInv ==
    ASSUME AuthorityInv, UNCHANGED <<versions, events, grants>>, clock' \in Nat,
           task' = [p \in Procs |-> task'[p]],
           \A p \in Procs : task'[p] = task[p] \/ task'[p].op \notin {"use", "locked"}
    PROVE  AuthorityInv'
<1>1. ASSUME NEW p \in Procs, task'[p].op = "locked"
      PROVE  Authorised(task[p])'
  <2>1. task'[p] = task[p] /\ Authorised(task[p])
    BY <1>1 DEF AuthorityInv
  <2> QED BY <2>1, AuthorisedKept
<1> QED BY <1>1 DEF AuthorityInv

(* A step of a writer: nobody holds the lock before it or after it. *)
LEMMA WriterInv ==
    ASSUME AuthorityInv, WriterFree, clock' = clock, task' = [p \in Procs |-> task'[p]],
           \A p \in Procs : task'[p] = task[p] \/ task'[p] = Idle
    PROVE  AuthorityInv'
<1>1. \A p \in Procs : task'[p].op # "locked"
  BY DEF WriterFree, Idle
<1> QED BY <1>1 DEF AuthorityInv, Idle

(* The program starts with no use under way. *)
LEMMA InitInv == AuthInit => AuthorityInv
<1> SUFFICES ASSUME AuthInit PROVE AuthorityInv
  OBVIOUS
<1>1. task = [p \in Procs |-> task[p]] /\ \A p \in Procs : task[p].op = "idle"
  BY DEF AuthInit, Idle
<1> QED BY <1>1 DEF AuthInit, AuthorityInv

(* The first validation leaves a use that does not hold the lock. *)
LEMMA CheckInv ==
    ASSUME NEW p \in Procs, NEW g \in Grants, NEW who \in Principals, NEW agent \in Agents,
           NEW nonce \in Nonces, NEW scope \in Scopes, NEW money \in Amounts, NEW t \in UseTimes,
           AuthorityInv, CheckUse(p, g, who, agent, nonce, scope, money, t)
    PROVE  AuthorityInv'
<1> DEFINE use == [op |-> "use", grant |-> g, who |-> who, agent |-> agent, nonce |-> nonce,
                   scope |-> scope, money |-> money, at |-> t]
<1>1. task' = [task EXCEPT ![p] = use] /\ UNCHANGED <<clock, versions, events, grants>>
  BY DEF CheckUse, mandateVars
<1>2. use \in UseTask /\ use.op # "locked"
  BY DEF UseTask
<1> HIDE DEF use
<1>3. /\ task' = [q \in Procs |-> task'[q]]
      /\ \A q \in Procs : task'[q] = IF q = p THEN use ELSE task[q]
  BY <1>1 DEF AuthorityInv
<1>4. ASSUME NEW q \in Procs, task'[q].op = "locked"
      PROVE  Authorised(task[q])'
  <2>1. task'[q] = task[q] /\ Authorised(task[q])
    BY <1>2, <1>3, <1>4 DEF AuthorityInv
  <2> QED BY <1>1, <2>1, AuthorisedKept
<1> QED BY <1>1, <1>2, <1>3, <1>4 DEF AuthorityInv

(* Taking the lock: the second validation holds at the time recorded. *)
LEMMA LockInv ==
    ASSUME NEW p \in Procs, AuthorityInv, LockUse(p)
    PROVE  AuthorityInv'
<1> DEFINE use == [task[p] EXCEPT !.op = "locked", !.at = At(task[p].at)]
<1>1. task' = [task EXCEPT ![p] = use] /\ UNCHANGED <<clock, versions, events, grants>>
  BY DEF LockUse, mandateVars
<1>2. task[p] \in UseTask
  BY DEF LockUse, AuthorityInv
<1>3. use \in UseTask /\ use.grant = task[p].grant /\ use.at = At(task[p].at)
  BY <1>2 DEF UseTask, At, AuthorityInv
<1>4. Authorised(use)
  BY <1>3, ValidAuthorised DEF LockUse, Authorised
<1> HIDE DEF use
<1>5. /\ task' = [q \in Procs |-> task'[q]]
      /\ \A q \in Procs : task'[q] = IF q = p THEN use ELSE task[q]
  BY <1>1 DEF AuthorityInv
<1>6. ASSUME NEW q \in Procs, task'[q].op = "locked"
      PROVE  Authorised(task[q])'
  <2>1. Authorised(task'[q])
    BY <1>4, <1>5, <1>6 DEF AuthorityInv
  <2> QED BY <1>1, <2>1, AuthorisedKept
<1> QED BY <1>1, <1>3, <1>5, <1>6 DEF AuthorityInv
=============================================================================
