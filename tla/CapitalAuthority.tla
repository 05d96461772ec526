-------------------------- MODULE CapitalAuthority --------------------------
(* The authority a principal delegates to an agent: capital mandates, their *)
(* versions and lifecycle events (statecore/capital_mandates.py), and the   *)
(* grants issued under them and used up by agents                           *)
(* (statecore/agent_authority_grants.py).                                   *)
(*                                                                          *)
(* Handlers run in several server processes over one SQLite file.  Creating *)
(* a mandate or a grant reads, decides and only then writes; a use of a     *)
(* grant validates, takes the write lock and validates again; lifecycle     *)
(* commands and revocations run under the write lock from their first read. *)
(*                                                                          *)
(* Left out: receipt files, which nothing here reads back, refusals, which  *)
(* change nothing, and the administrator's assertion: every command in the  *)
(* model is an admitted one.                                                *)
EXTENDS Integers, Sequences, FiniteSets, FiniteSetsExt

CONSTANTS
    Procs,          \* server processes
    Principals, Agents,
    Series,         \* capital_mandate_id values
    Grants,         \* agent_authority_grant_id values
    Policies,       \* what a mandate may say
    Scopes,         \* what a grant or a use may ask for
    Amounts,        \* the MonetaryAmount values of uses
    Totals,         \* max_total_notional of a grant, None included
    UseLimits,      \* max_uses of a grant, None included
    Expiries,       \* expires_at_utc of mandates and grants, None included
    ScheduleTimes,  \* effective_at_utc of mandates and resumes, None (the server's clock) included
    UseTimes,       \* now_utc of uses, likewise
    Nonces,         \* nonces as they are sent
    Padded,         \* those of them sent with blanks around
    Forbidden,      \* items named by _FORBIDDEN_SCOPE_TOKENS
    MaxTime, MaxVersions, MaxEvents,
    None

VARIABLES
    clock,      \* the servers' UTC clock
    versions,   \* capital_mandate_versions, in the order of their commits
    events,     \* capital_mandate_lifecycle_events, likewise
    mirror,     \* status of each row of capital_mandates
    grants,     \* agent_authority_grants
    uses,       \* agent_authority_grant_consumptions of each grant
    task        \* what each process is in the middle of

mandateVars == <<versions, events, mirror>>
authVars == <<clock, versions, events, mirror, grants, uses, task>>

Times == 0 .. MaxTime
Idle == [op |-> "idle"]
NoGrant == [status |-> "absent"]

(* A nonce is stored without the blanks around it. *)
Strip(n) == IF n \in Padded THEN CHOOSE m \in Nonces : m \notin Padded ELSE n

(* BEGIN IMMEDIATE: one writer at a time. *)
WriterFree == \A p \in Procs : task[p].op # "locked"

At(t) == IF t = None THEN clock ELSE t

Over(exp, at) == exp # None /\ exp <= at

----------------------------------------------------------------------------
(* Resolving a mandate *)

Owners(s) == {versions[i].owner : i \in {i \in DOMAIN versions : versions[i].series = s}}

(* _mandate_resolution_order_key.  Ids and content hashes break the last    *)
(* ties; the position in the table stands for them.                         *)
VersionBefore(i, j) ==
    LET v == versions[i]
        w == versions[j]
    IN  \/ v.eff < w.eff
        \/ v.eff = w.eff /\ v.created < w.created
        \/ v.eff = w.eff /\ v.created = w.created /\ v.number < w.number
        \/ v.eff = w.eff /\ v.created = w.created /\ v.number = w.number /\ i < j

(* Mutant: the time an event was recorded does not break ties. *)
EventBefore_FirstRecorded(i, j) ==
    \/ events[i].eff < events[j].eff
    \/ events[i].eff = events[j].eff /\ i > j

(* _mandate_lifecycle_order_key.  Two events recorded at one clock reading  *)
(* are in fact microseconds apart, in the order of the table.               *)
EventBefore(i, j) ==
    \/ events[i].eff < events[j].eff
    \/ events[i].eff = events[j].eff /\ events[i].created < events[j].created
    \/ events[i].eff = events[j].eff /\ events[i].created = events[j].created /\ i < j

LatestVersion(S) == CHOOSE i \in S : \A j \in S \ {i} : VersionBefore(j, i)

LatestEvent(S) == CHOOSE i \in S : \A j \in S \ {i} : EventBefore(j, i)

EffectiveEvents(v, at) ==
    {i \in DOMAIN events : events[i].version = v /\ events[i].eff <= at}

StatusOf(v, at) ==
    IF Over(versions[v].exp, at) THEN "expired"
    ELSE IF EffectiveEvents(v, at) = {} THEN "unavailable"
    ELSE LET type == events[LatestEvent(EffectiveEvents(v, at))].type
         IN  IF type \in {"activated", "resumed"} THEN "active" ELSE type

(* _resolve_capital_mandate_in_session: the latest effective version of the *)
(* principal, unless a series it is in has another owner too.               *)
Resolve(who, at) ==
    LET mine == {i \in DOMAIN versions : versions[i].owner = who /\ versions[i].eff <= at}
        current == LatestVersion(mine)
    IN  IF \E i \in mine : Owners(versions[i].series) # {who}
        THEN [status |-> "invalid", version |-> 0]
        ELSE IF mine = {} THEN [status |-> "unavailable", version |-> 0]
        ELSE [status |-> StatusOf(current, at), version |-> current]

----------------------------------------------------------------------------
(* Recording a mandate *)

(* _require_mandate_series_owner *)
MayRecord(who, s) ==
    /\ Owners(s) \subseteq {who}
    /\ Owners(s) = {} => mirror[s] = "absent"

(* _build_mandate_version: one more than the last version of the series. *)
NextNumber(who, s) ==
    LET own == {i \in DOMAIN versions : versions[i].series = s /\ versions[i].owner = who}
    IN  1 + Max({0} \cup {versions[i].number : i \in own})

(* _supersede_active_mandates looks up the owner of every other active      *)
(* mandate, and fails when one of them has two.                             *)
OtherActive(s) == {r \in Series \ {s} : mirror[r] = "active"}

(* record_capital_mandate up to its write: owner, last version and the      *)
(* other active mandates are read, nothing is locked.                       *)
PrepareMandate(p, who, s, policy, t, exp) ==
    /\ task[p] = Idle
    /\ Len(versions) < MaxVersions
    /\ MayRecord(who, s)
    /\ exp # None => exp > At(t)
    /\ \A r \in OtherActive(s) : Cardinality(Owners(r)) <= 1
    /\ task' = [task EXCEPT ![p] =
           [op |-> "mandate",
            row |-> [series |-> s, owner |-> who, policy |-> policy, eff |-> At(t), exp |-> exp,
                     created |-> clock, number |-> NextNumber(who, s)],
            superseded |-> {r \in OtherActive(s) : Owners(r) = {who}}]]
    /\ UNCHANGED <<clock, mandateVars, grants, uses>>

(* upsert_records: mirror rows, version and activation in one transaction.  *)
(* (Two requests that say exactly the same thing, to the microsecond, would *)
(* be merged into one version; the model keeps two.)                        *)
CommitMandate(p) ==
    /\ task[p].op = "mandate"
    /\ WriterFree
    /\ Len(versions) < MaxVersions /\ Len(events) < MaxEvents
    /\ LET row == task[p].row
       IN  /\ versions' = Append(versions, row)
           /\ events' = Append(events, [version |-> Len(versions) + 1, type |-> "activated",
                                        eff |-> row.eff, created |-> row.created])
           /\ mirror' = [s \in Series |-> IF s = row.series THEN "active"
                                          ELSE IF s \in task[p].superseded THEN "superseded"
                                          ELSE mirror[s]]
    /\ task' = [task EXCEPT ![p] = Idle]
    /\ UNCHANGED <<clock, grants, uses>>

Reducing == {"suspended", "revoked"}

(* Mutant: a revoked mandate may be resumed. *)
AllowedFrom_ResumeRevoked(type) ==
    CASE type = "suspended" -> {"active"}
      [] type = "resumed"   -> {"suspended", "revoked"}
      [] type = "revoked"   -> {"active", "suspended"}

(* CAPITAL_MANDATE_LIFECYCLE_COMMANDS *)
AllowedFrom(type) ==
    CASE type = "suspended" -> {"active"}
      [] type = "resumed"   -> {"suspended"}
      [] type = "revoked"   -> {"active", "suspended"}

(* Mutant: the event is stored under the name of the command. *)
Command_StoresCommand(who, s, type, t) ==
    LET at == IF type \in Reducing THEN clock ELSE At(t)
        now == Resolve(who, at)
    IN  /\ WriterFree
        /\ Len(events) < MaxEvents
        /\ now.version # 0 /\ versions[now.version].series = s
        /\ now.status \in AllowedFrom(type)
        /\ events' = Append(events, [version |-> now.version, type |-> "mandate_" \o type,
                                     eff |-> at, created |-> clock])
        /\ UNCHANGED <<clock, versions, mirror, grants, uses, task>>

(* _record_lifecycle_command: a reduction takes the server's time, a resume *)
(* may name its own and is judged by the state at that time.                *)
Command(who, s, type, t) ==
    LET at == IF type \in Reducing THEN clock ELSE At(t)
        now == Resolve(who, at)
    IN  /\ WriterFree
        /\ Len(events) < MaxEvents
        /\ now.version # 0 /\ versions[now.version].series = s
        /\ now.status \in AllowedFrom(type)
        /\ events' = Append(events, [version |-> now.version, type |-> type,
                                     eff |-> at, created |-> clock])
        /\ UNCHANGED <<clock, versions, mirror, grants, uses, task>>

----------------------------------------------------------------------------
(* Validating a grant *)

CapWithin(ask, allowed) ==
    ask # None => /\ allowed # None
                  /\ ask.cur = allowed.cur
                  /\ ask.amount <= allowed.amount

(* _scope_within_scope.  assets stands for the fields of the policy         *)
(* payload, items for those of the typed limits, which a mandate may leave  *)
(* open for directions and brokers.                                         *)
ScopeWithin(ask, allowed, restricted, open) ==
    /\ ask.assets \subseteq allowed.assets
    /\ ask.assets \cap restricted = {}
    /\ open \/ ask.items \subseteq allowed.items
    /\ CapWithin(ask.cap, allowed.cap)
    /\ ask.level # None => allowed.level # None /\ ask.level <= allowed.level

(* _scope_within_mandate *)
WithinMandate(scope, policy) == ScopeWithin(scope, policy, policy.restricted, policy.open)

(* _forbidden_scope_reasons *)
Permitted(scope) == (scope.assets \cup scope.items) \cap Forbidden = {}

(* Mutant: a grant that names no cap of its own has none. *)
MoneyContract_OnlyOwnCap(grant, money) ==
    LET cap == versions[grant.version].policy.cap
    IN  /\ cap # None
        /\ grant.cur = cap.cur
        /\ grant.total # None => grant.total > 0 /\ grant.total <= cap.amount
        /\ CapWithin(grant.scope.cap, cap)
        /\ CapWithin(money, IF grant.scope.cap # None THEN grant.scope.cap ELSE money)

(* _mandate_money_contract_reasons: the cap of one use is the grant's own,  *)
(* or else the mandate's.                                                   *)
MoneyContract(grant, money) ==
    LET cap == versions[grant.version].policy.cap
    IN  /\ cap # None
        /\ grant.cur = cap.cur
        /\ grant.total # None => grant.total > 0 /\ grant.total <= cap.amount
        /\ CapWithin(grant.scope.cap, cap)
        /\ CapWithin(money, IF grant.scope.cap # None THEN grant.scope.cap ELSE cap)

(* What every validation asks of a grant and of the mandate behind it. *)
Standing(grant, at) ==
    LET now == Resolve(grant.owner, at)
    IN  /\ grant.status = "active"
        /\ ~Over(grant.exp, at)
        /\ Permitted(grant.scope)
        /\ WithinMandate(grant.scope, versions[grant.version].policy)
        /\ now.status = "active" /\ now.version = grant.version

UsedNotional(g) == MapThenSumSet(LAMBDA i : uses[g][i].money.amount, DOMAIN uses[g])

(* What is left of a grant: uses, notional, and a nonce not seen before.    *)
(* The nonce is compared as it was sent.                                    *)
Capacity(g, nonce, money) ==
    LET grant == grants[g]
    IN  /\ money.cur = grant.cur
        /\ grant.limit # None => Len(uses[g]) < grant.limit
        /\ grant.total # None => /\ UsedNotional(g) < grant.total
                                 /\ UsedNotional(g) + money.amount <= grant.total
        /\ \A i \in DOMAIN uses[g] : uses[g][i].nonce # nonce

(* validate_agent_authority_grant of a request to use a grant. *)
Valid(use, at) ==
    LET grant == grants[use.grant]
    IN  /\ grant # NoGrant
        /\ grant.owner = use.who /\ grant.agent = use.agent
        /\ MoneyContract(grant, use.money)
        /\ Permitted(use.scope)
        /\ ScopeWithin(use.scope, grant.scope, {}, FALSE)
        /\ Capacity(use.grant, use.nonce, use.money)
        /\ Standing(grant, at)

----------------------------------------------------------------------------
(* Issuing, using and revoking a grant *)

(* record_agent_authority_grant up to its write. *)
PrepareGrant(p, g, who, agent, s, scope, exp, limit, total) ==
    LET now == Resolve(who, clock)
        cap == versions[now.version].policy.cap
        row == [status |-> "active", version |-> now.version, owner |-> who, agent |-> agent,
                scope |-> scope, exp |-> exp, limit |-> limit, cur |-> cap.cur, total |-> total]
    IN  /\ task[p] = Idle
        /\ Owners(s) = {who}
        /\ exp # None => exp > clock
        /\ now.status = "active" /\ versions[now.version].series = s
        /\ cap # None
        /\ Standing(row, clock)
        /\ MoneyContract(row, None)
        /\ task' = [task EXCEPT ![p] = [op |-> "grant", grant |-> g, row |-> row]]
        /\ UNCHANGED <<clock, mandateVars, grants, uses>>

(* write_records: the row is inserted, so its id must be new. *)
CommitGrant(p) ==
    /\ task[p].op = "grant"
    /\ WriterFree
    /\ grants[task[p].grant] = NoGrant
    /\ grants' = [grants EXCEPT ![task[p].grant] = task[p].row]
    /\ task' = [task EXCEPT ![p] = Idle]
    /\ UNCHANGED <<clock, mandateVars, uses>>

(* consume_agent_authority_grant validates before it asks for the lock. *)
CheckUse(p, g, who, agent, nonce, scope, money, t) ==
    LET use == [op |-> "use", grant |-> g, who |-> who, agent |-> agent, nonce |-> nonce,
                scope |-> scope, money |-> money, at |-> t]
    IN  /\ task[p] = Idle
        /\ Valid(use, At(t))
        /\ task' = [task EXCEPT ![p] = use]
        /\ UNCHANGED <<clock, mandateVars, grants, uses>>


(* The write lock is taken and everything validated again.  From here on at *)
(* is the time the use was judged at.                                       *)
LockUse(p) ==
    /\ task[p].op = "use"
    /\ WriterFree
    /\ Valid(task[p], At(task[p].at))
    /\ task' = [task EXCEPT ![p] = [@ EXCEPT !.op = "locked", !.at = At(task[p].at)]]
    /\ UNCHANGED <<clock, mandateVars, grants, uses>>

(* Mutant: no unique index on grant and nonce. *)
CommitUse_NoIndex(p) ==
    /\ task[p].op = "locked"
    /\ LET use == task[p]
       IN  uses' = [uses EXCEPT ![use.grant] =
               Append(@, [nonce |-> Strip(use.nonce), scope |-> use.scope, money |-> use.money])]
    /\ task' = [task EXCEPT ![p] = Idle]
    /\ UNCHANGED <<clock, mandateVars, grants>>

(* The row is inserted under uq_agent_authority_grant_consumption_nonce and *)
(* committed, which gives the lock back.                                    *)
CommitUse(p) ==
    /\ task[p].op = "locked"
    /\ LET use == task[p]
       IN  /\ \A i \in DOMAIN uses[use.grant] : uses[use.grant][i].nonce # Strip(use.nonce)
           /\ uses' = [uses EXCEPT ![use.grant] =
               Append(@, [nonce |-> Strip(use.nonce), scope |-> use.scope, money |-> use.money])]
    /\ task' = [task EXCEPT ![p] = Idle]
    /\ UNCHANGED <<clock, mandateVars, grants>>

(* revoke_agent_authority_grant, all of it under the write lock. *)
RevokeGrant(who, g) ==
    /\ WriterFree
    /\ grants[g] # NoGrant /\ grants[g].owner = who
    /\ grants[g].status = "active"
    /\ grants' = [grants EXCEPT ![g].status = "revoked"]
    /\ UNCHANGED <<clock, mandateVars, uses, task>>

(* A failed write, a refusal under the lock or the death of the process:    *)
(* the transaction is rolled back and nothing was changed.                  *)
GiveUp(p) ==
    /\ task[p] # Idle
    /\ task' = [task EXCEPT ![p] = Idle]
    /\ UNCHANGED <<clock, mandateVars, grants, uses>>

Tick ==
    /\ clock < MaxTime
    /\ clock' = clock + 1
    /\ UNCHANGED <<mandateVars, grants, uses, task>>

AuthInit ==
    /\ clock = 0
    /\ versions = <<>> /\ events = <<>>
    /\ mirror = [s \in Series |-> "absent"]
    /\ grants = [g \in Grants |-> NoGrant]
    /\ uses = [g \in Grants |-> <<>>]
    /\ task = [p \in Procs |-> Idle]

AuthNext ==
    \/ Tick
    \/ \E who \in Principals, s \in Series, t \in ScheduleTimes :
          \/ \E type \in {"suspended", "resumed", "revoked"} : Command(who, s, type, t)
          \/ \E p \in Procs, policy \in Policies, exp \in Expiries :
                PrepareMandate(p, who, s, policy, t, exp)
    \/ \E p \in Procs, g \in Grants, who \in Principals, agent \in Agents, scope \in Scopes :
          \/ \E s \in Series, exp \in Expiries, limit \in UseLimits, total \in Totals :
                PrepareGrant(p, g, who, agent, s, scope, exp, limit, total)
          \/ \E nonce \in Nonces, money \in Amounts, t \in UseTimes :
                CheckUse(p, g, who, agent, nonce, scope, money, t)
    \/ \E p \in Procs :
          CommitMandate(p) \/ CommitGrant(p) \/ LockUse(p) \/ CommitUse(p) \/ GiveUp(p)
    \/ \E who \in Principals, g \in Grants : RevokeGrant(who, g)

AuthSpec == AuthInit /\ [][AuthNext]_authVars

----------------------------------------------------------------------------
Currencies == {policy.cap.cur : policy \in {q \in Policies : q.cap # None}}

(* The columns of the tables. *)
VersionRow ==
    [series : Series, owner : Principals, policy : Policies, eff : Times, exp : Expiries,
     created : Times, number : 1 .. MaxVersions]

EventRow ==
    [version : 1 .. MaxVersions, eff : Times, created : Times,
     type : {"activated", "suspended", "resumed", "revoked"}]

GrantRow ==
    [status : {"active", "revoked"}, version : 1 .. MaxVersions, owner : Principals,
     agent : Agents, scope : Scopes, exp : Expiries, limit : UseLimits, total : Totals,
     cur : Currencies]

UseRow == [nonce : Nonces \ Padded, scope : Scopes, money : Amounts]

(* Every table holds rows of its columns, an event belongs to a version     *)
(* that exists, and so does a grant.                                        *)
AuthTypeOK ==
    /\ clock \in Times
    /\ versions \in Seq(VersionRow)
    /\ events \in Seq(EventRow)
    /\ \A i \in DOMAIN events : events[i].version \in DOMAIN versions
    /\ mirror \in [Series -> {"absent", "active", "superseded"}]
    /\ grants \in [Grants -> {NoGrant} \cup GrantRow]
    /\ \A g \in Grants : grants[g] # NoGrant => grants[g].version \in DOMAIN versions
    /\ uses \in [Grants -> Seq(UseRow)]

(* Whatever requests race, a grant is never used more often or for more     *)
(* than it allows, and never twice with one nonce                           *)
(* (consume_agent_authority_grant).                                         *)
UsesWithinGrant ==
    \A g \in Grants : uses[g] # <<>> =>
        /\ grants[g].limit # None => Len(uses[g]) <= grants[g].limit
        /\ grants[g].total # None => UsedNotional(g) <= grants[g].total
        /\ \A i, j \in DOMAIN uses[g] : uses[g][i].nonce = uses[g][j].nonce => i = j

(* Scopes are only ever narrowed: what an agent used is inside the mandate  *)
(* version its grant was issued under, and so is the amount of each use     *)
(* (_scope_within_scope, _mandate_money_contract_reasons).                  *)
UsesWithinMandate ==
    \A g \in Grants : \A i \in DOMAIN uses[g] :
        LET policy == versions[grants[g].version].policy
        IN  /\ WithinMandate(uses[g][i].scope, policy)
            /\ CapWithin(uses[g][i].money, policy.cap)

(* A use that holds the lock: its grant has not been revoked and the        *)
(* mandate resolves, for the time the use was judged at, to the version of  *)
(* the grant, active.                                                       *)
Authorised(use) ==
    LET grant == grants[use.grant]
        now == Resolve(grant.owner, use.at)
    IN  /\ grant.status = "active"
        /\ ~Over(grant.exp, use.at)
        /\ now.status = "active" /\ now.version = grant.version


(* suspend and revoke fail closed at once: as soon as the event is there,   *)
(* the version has the status it says, whatever was scheduled for it        *)
(* (_record_lifecycle_command).                                             *)
ReductionsTakeEffect ==
    [][\A i \in DOMAIN events' \ DOMAIN events : events'[i].type \in Reducing =>
          StatusOf(events[i].version, clock)' = events'[i].type]_authVars

(* A revoked version is never active again, unless by a resume that was     *)
(* scheduled before the revocation for a time after it: no command recorded *)
(* later brings it back (CAPITAL_MANDATE_LIFECYCLE_COMMANDS).               *)
RevocationHolds ==
    \A i \in DOMAIN events :
        events[i].type = "revoked" /\ StatusOf(events[i].version, clock) = "active" =>
            \E k \in 1 .. (i - 1) : /\ events[k].version = events[i].version
                                    /\ events[k].type = "resumed"
                                    /\ events[k].eff > events[i].eff

(* revoked is terminal for that version. *)
(* The code does not guarantee this: see "Formulas that do not hold" in    *)
(* the README.                                                             *)
RevokedIsTerminal ==
    \A i \in DOMAIN events :
        events[i].type = "revoked" => StatusOf(events[i].version, clock) # "active"

(* Versions of a series are numbered one by one. *)
(* The code does not guarantee this: see "Formulas that do not hold" in    *)
(* the README.                                                             *)
VersionNumbersIncrease ==
    \A i, j \in DOMAIN versions :
        versions[i].series = versions[j].series /\ i < j => versions[i].number < versions[j].number

(* A series has one owner. *)
(* The code does not guarantee this: see "Formulas that do not hold" in    *)
(* the README.                                                             *)
OneOwnerPerSeries == \A s \in Series : Cardinality(Owners(s)) <= 1
=============================================================================
