-------------------------- MODULE RuntimeRegistry --------------------------
(***************************************************************************)
(* The transactional registry of the recoverable execution runtime         *)
(* (crates/finharness-runtime/src/runtime/registry.rs, types.rs and the    *)
(* SQL migrations).  Every mutating operation of the registry is one       *)
(* IMMEDIATE SQLite transaction, so every operation is one action here.    *)
(*                                                                         *)
(* A Job has exactly one Attempt (attempt_number is always 1), so both     *)
(* rows are indexed by the Job.  A row that has not been inserted yet has  *)
(* attempt state "absent".  An operation the code rejects changes nothing; *)
(* why it is rejected is the value of its Outcome operator, which the      *)
(* engine model reads to take the error path the code takes.               *)
(***************************************************************************)
EXTENDS Integers, FiniteSets, Sequences

CONSTANTS
    Jobs,          \* job identifiers (UUIDs drawn by submit)
    Keys,          \* pairs (principal, clientRequestId)
    Workspaces,    \* workspace identifiers: one per resource key
    Operations,    \* operation digests: what a request asks for
    Results,       \* digests of terminal results
    GlobalLimits,  \* values a request may carry as globalLimit
    NoJob,         \* "no row" for an idempotency key
    None,          \* SQL NULL
    MaxRowVersion  \* bound: how often mark_bundle_ready may bump row_version

ASSUME RegistryAssumption ==
    /\ IsFiniteSet(Jobs)
    /\ NoJob \notin Jobs
    /\ None \notin Results \cup Keys \cup Workspaces \cup Operations
    /\ None \notin {"succeeded", "failed", "timed_out", "cancelled", "lost", "orphaned"}
    /\ GlobalLimits \subseteq Nat
    /\ MaxRowVersion \in Nat

VARIABLES
    jobs,          \* table jobs
    attempts,      \* table attempts
    rowVersion,    \* column attempts.row_version, the optimistic lock
    reservations,  \* table concurrency_reservations, by Job: column state
    globalLimit,   \* the same rows, column global_limit
    idempotency,   \* table idempotency_keys
    artifacts,     \* table artifacts: kinds registered for the Job's Attempt
    events         \* table job_events, one append-only log per Job

regVars ==
    <<jobs, attempts, rowVersion, reservations, globalLimit, idempotency, artifacts, events>>

----------------------------------------------------------------------------
(* Attempt states and the transition table of types.rs. *)

RunnerTerminal == {"succeeded", "failed", "timed_out", "cancelled"}

Terminal == RunnerTerminal \cup {"lost", "orphaned"}

AttemptStates ==
    {"accepted", "starting", "running", "stopping", "recovering"} \cup Terminal

IsTerminal(s) == s \in Terminal


CanTransition(s) ==
    CASE s = "accepted"   -> {"starting", "cancelled", "failed", "lost", "orphaned"}
      [] s = "starting"   -> {"running", "recovering"} \cup Terminal
      [] s = "running"    -> {"stopping", "recovering"} \cup Terminal
      [] s = "stopping"   -> {"recovering"} \cup (Terminal \ {"succeeded"})
      [] s = "recovering" -> {"starting", "running", "stopping"} \cup Terminal
      [] OTHER            -> {}

ArtifactKinds == {"stdout", "stderr", "execution_result", "control_result"}

EventTypes ==
    {"REQUEST_RECEIVED", "JOB_RECORD_CREATED", "ATTEMPT_CREATED", "BUNDLE_READY",
     "DISPATCH_ISSUED", "RUNNER_BOUND", "STOP_REQUESTED", "PROCESS_EXITED",
     "JOB_TERMINAL", "RUNNER_RESULT_RECOVERED", "JOB_RESOLUTION_CORRECTED"}

Event(type, from, to) == [type |-> type, from |-> from, to |-> to]

----------------------------------------------------------------------------
(* Derived facts the SQL queries compute. *)

Exists(j) == attempts[j].state # "absent"

Holds(j) == reservations[j] \in {"active", "held_orphaned"}

Holders == {j \in Jobs : Holds(j)}

(* Mutant: the workspace count forgets orphans that still hold capacity. *)
HoldersOf_ActiveOnly(ws) ==
    {j \in Jobs : reservations[j] = "active" /\ jobs[j].workspace = ws}

HoldersOf(ws) == {j \in Holders : jobs[j].workspace = ws}

Resolved(j) == jobs[j].resolution # None

WorkspaceExecutionLimit == 1

----------------------------------------------------------------------------
AbsentJob ==
    [key |-> None, operation |-> None, workspace |-> None,
     desired |-> "run", resolution |-> None, current |-> "none"]

AbsentAttempt ==
    [state |-> "absent", bundle |-> "none", identity |-> "none",
     intent |-> "natural", result |-> None]

RegInit ==
    /\ jobs = [j \in Jobs |-> AbsentJob]
    /\ attempts = [j \in Jobs |-> AbsentAttempt]
    /\ rowVersion = [j \in Jobs |-> 0]
    /\ reservations = [j \in Jobs |-> "none"]
    /\ globalLimit = [j \in Jobs |-> 0]
    /\ idempotency = [k \in Keys |-> NoJob]
    /\ artifacts = [j \in Jobs |-> {}]
    /\ events = [j \in Jobs |-> <<>>]

----------------------------------------------------------------------------
(* submit: the idempotency key is looked up before any capacity is counted. *)

(* Mutant: the global limit is compared one too late. *)
SubmitOutcome_OffByOne(k, op, ws, limit) ==
    IF idempotency[k] # NoJob
    THEN IF jobs[idempotency[k]].operation = op THEN "Existing" ELSE "IdempotencyConflict"
    ELSE IF Cardinality(HoldersOf(ws)) >= WorkspaceExecutionLimit THEN "ConcurrencyLimit"
    ELSE IF Cardinality(Holders) > limit THEN "ConcurrencyLimit"
    ELSE "Created"

SubmitOutcome(k, op, ws, limit) ==
    IF idempotency[k] # NoJob
    THEN IF jobs[idempotency[k]].operation = op THEN "Existing" ELSE "IdempotencyConflict"
    ELSE IF Cardinality(HoldersOf(ws)) >= WorkspaceExecutionLimit THEN "ConcurrencyLimit"
    ELSE IF Cardinality(Holders) >= limit THEN "ConcurrencyLimit"
    ELSE "Created"

Submit(j, k, op, ws, limit) ==
    /\ ~Exists(j)
    /\ SubmitOutcome(k, op, ws, limit) = "Created"
    /\ jobs' = [jobs EXCEPT ![j] =
           [key |-> k, operation |-> op, workspace |-> ws,
            desired |-> "run", resolution |-> None, current |-> "attempt"]]
    /\ attempts' = [attempts EXCEPT ![j] = [@ EXCEPT !.state = "accepted"]]
    /\ reservations' = [reservations EXCEPT ![j] = "active"]
    /\ globalLimit' = [globalLimit EXCEPT ![j] = limit]
    /\ idempotency' = [idempotency EXCEPT ![k] = j]
    /\ events' = [events EXCEPT ![j] =
           <<Event("REQUEST_RECEIVED", None, None),
             Event("JOB_RECORD_CREATED", None, None),
             Event("ATTEMPT_CREATED", None, "accepted")>>]
    /\ UNCHANGED <<rowVersion, artifacts>>

(* mark_bundle_ready: may be repeated while the Attempt is accepted.        *)
MarkBundleReadyOutcome(j, v) ==
    IF attempts[j].state = "accepted" /\ rowVersion[j] = v
    THEN "ok" ELSE "AttemptStateConflict"

(* Mutant: the row version is stepped the wrong way. *)
MarkBundleReady_Decrements(j, v) ==
    /\ MarkBundleReadyOutcome(j, v) = "ok"
    /\ v < MaxRowVersion
    /\ attempts' = [attempts EXCEPT ![j] =
           [@ EXCEPT !.bundle = "ready"]]
    /\ rowVersion' = [rowVersion EXCEPT ![j] = v - 1]
    /\ events' = [events EXCEPT ![j] =
           Append(@, Event("BUNDLE_READY", "accepted", "accepted"))]
    /\ UNCHANGED <<jobs, reservations, globalLimit, idempotency, artifacts>>

MarkBundleReady(j, v) ==
    /\ MarkBundleReadyOutcome(j, v) = "ok"
    /\ v < MaxRowVersion
    /\ attempts' = [attempts EXCEPT ![j] =
           [@ EXCEPT !.bundle = "ready"]]
    /\ rowVersion' = [rowVersion EXCEPT ![j] = v + 1]
    /\ events' = [events EXCEPT ![j] =
           Append(@, Event("BUNDLE_READY", "accepted", "accepted"))]
    /\ UNCHANGED <<jobs, reservations, globalLimit, idempotency, artifacts>>

(* mark_dispatch_issued: the at-most-once boundary, committed before the    *)
(* process is launched.                                                     *)
(* Mutant: an Attempt already starting may be dispatched again. *)
MarkDispatchIssuedOutcome_Reissues(j, v) ==
    IF /\ attempts[j].state \in {"accepted", "starting"}
       /\ rowVersion[j] = v
       /\ attempts[j].bundle = "ready"
    THEN "ok" ELSE "AttemptStateConflict"

MarkDispatchIssuedOutcome(j, v) ==
    IF /\ attempts[j].state = "accepted"
       /\ rowVersion[j] = v
       /\ attempts[j].bundle = "ready"
    THEN "ok" ELSE "AttemptStateConflict"

MarkDispatchIssued(j, v) ==
    /\ MarkDispatchIssuedOutcome(j, v) = "ok"
    /\ attempts' = [attempts EXCEPT ![j] =
           [@ EXCEPT !.state = "starting"]]
    /\ rowVersion' = [rowVersion EXCEPT ![j] = v + 1]
    /\ events' = [events EXCEPT ![j] =
           Append(@, Event("DISPATCH_ISSUED", "accepted", "starting"))]
    /\ UNCHANGED <<jobs, reservations, globalLimit, idempotency, artifacts>>

(* bind_running: records the supervisor identity of the launched process.   *)
BindRunningOutcome(j, v) ==
    IF attempts[j].state \in {"starting", "recovering"} /\ rowVersion[j] = v
    THEN "ok" ELSE "AttemptStateConflict"

BindRunning(j, v) ==
    /\ BindRunningOutcome(j, v) = "ok"
    /\ attempts' = [attempts EXCEPT ![j] =
           [@ EXCEPT !.state = "running", !.identity = "recorded"]]
    /\ rowVersion' = [rowVersion EXCEPT ![j] = v + 1]
    /\ events' = [events EXCEPT ![j] =
           Append(@, Event("RUNNER_BOUND", attempts[j].state, "running"))]
    /\ UNCHANGED <<jobs, reservations, globalLimit, idempotency, artifacts>>

----------------------------------------------------------------------------
(* request_cancel *)

RequestCancelOutcome(j) ==
    IF ~Exists(j) THEN "JobNotFound"
    ELSE IF Resolved(j) THEN "replay"
    ELSE IF jobs[j].current = "none" THEN "RegistryCorrupt"
    ELSE IF IsTerminal(attempts[j].state) THEN "ReconciliationRequired"
    ELSE "ok"

(* The digest stored for a Job cancelled before dispatch is derived from    *)
(* the Job and Attempt ids; it is no Runner's result.                       *)
CancelDigest == "cancel-before-dispatch"

(* Mutant: cancellation before dispatch keeps the capacity. *)
CancelAccepted_KeepsCapacity(j) ==
    /\ RequestCancelOutcome(j) = "ok"
    /\ attempts[j].state = "accepted"
    /\ attempts' = [attempts EXCEPT ![j] =
           [@ EXCEPT !.state = "cancelled", !.intent = "stop_requested",
                     !.result = CancelDigest]]
    /\ rowVersion' = [rowVersion EXCEPT ![j] = @ + 1]
    /\ jobs' = [jobs EXCEPT ![j] =
           [@ EXCEPT !.desired = "cancelled", !.resolution = "cancelled",
                     !.current = "none"]]
    /\ events' = [events EXCEPT ![j] =
           Append(@, Event("STOP_REQUESTED", "accepted", "cancelled"))]
    /\ UNCHANGED <<reservations, globalLimit, idempotency, artifacts>>

CancelAccepted(j) ==
    /\ RequestCancelOutcome(j) = "ok"
    /\ attempts[j].state = "accepted"
    /\ attempts' = [attempts EXCEPT ![j] =
           [@ EXCEPT !.state = "cancelled", !.intent = "stop_requested",
                     !.result = CancelDigest]]
    /\ rowVersion' = [rowVersion EXCEPT ![j] = @ + 1]
    /\ reservations' = [reservations EXCEPT ![j] = "released"]
    /\ jobs' = [jobs EXCEPT ![j] =
           [@ EXCEPT !.desired = "cancelled", !.resolution = "cancelled",
                     !.current = "none"]]
    /\ events' = [events EXCEPT ![j] =
           Append(@, Event("STOP_REQUESTED", "accepted", "cancelled"))]
    /\ UNCHANGED <<globalLimit, idempotency, artifacts>>

(* Mutant: the log always says the stopped Attempt was running. *)
CancelDispatched_LogsRunning(j) ==
    /\ RequestCancelOutcome(j) = "ok"
    /\ attempts[j].state \in {"starting", "running", "recovering"}
    /\ attempts' = [attempts EXCEPT ![j] =
           [@ EXCEPT !.state = "stopping", !.intent = "stop_requested"]]
    /\ rowVersion' = [rowVersion EXCEPT ![j] = @ + 1]
    /\ jobs' = [jobs EXCEPT ![j] = [@ EXCEPT !.desired = "cancelled"]]
    /\ events' = [events EXCEPT ![j] =
           Append(@, Event("STOP_REQUESTED", "running", "stopping"))]
    /\ UNCHANGED <<reservations, globalLimit, idempotency, artifacts>>

CancelDispatched(j) ==
    /\ RequestCancelOutcome(j) = "ok"
    /\ attempts[j].state \in {"starting", "running", "recovering"}
    /\ attempts' = [attempts EXCEPT ![j] =
           [@ EXCEPT !.state = "stopping", !.intent = "stop_requested"]]
    /\ rowVersion' = [rowVersion EXCEPT ![j] = @ + 1]
    /\ jobs' = [jobs EXCEPT ![j] = [@ EXCEPT !.desired = "cancelled"]]
    /\ events' = [events EXCEPT ![j] =
           Append(@, Event("STOP_REQUESTED", attempts[j].state, "stopping"))]
    /\ UNCHANGED <<reservations, globalLimit, idempotency, artifacts>>

CancelStopping(j) ==
    /\ RequestCancelOutcome(j) = "ok"
    /\ attempts[j].state = "stopping"
    /\ jobs' = [jobs EXCEPT ![j] = [@ EXCEPT !.desired = "cancelled"]]
    /\ UNCHANGED <<attempts, rowVersion, reservations, globalLimit, idempotency, artifacts,
                   events>>

RequestCancel(j) == CancelAccepted(j) \/ CancelDispatched(j) \/ CancelStopping(j)

----------------------------------------------------------------------------
(* commit_terminal: s the terminal state, d the result digest, arts the     *)
(* artifact kinds to register, v the row version the caller read.           *)

CommitTerminalOutcome(j, s, d, arts, v) ==
    IF IsTerminal(attempts[j].state)
    THEN IF attempts[j].result = d /\ attempts[j].state = s
         THEN "replay" ELSE "ResultIdentityConflict"
    ELSE IF rowVersion[j] # v THEN "AttemptStateConflict"
    ELSE IF s \notin CanTransition(attempts[j].state) THEN "AttemptStateConflict"
    ELSE IF Resolved(j) THEN "JobAlreadyResolved"
    ELSE IF arts \cap artifacts[j] # {} THEN "ArtifactIdentityConflict"
    ELSE "ok"

CommitTerminal(j, s, d, arts, v) ==
    /\ Exists(j)
    /\ CommitTerminalOutcome(j, s, d, arts, v) = "ok"
    /\ attempts' = [attempts EXCEPT ![j] =
           [@ EXCEPT !.state = s, !.result = d]]
    /\ rowVersion' = [rowVersion EXCEPT ![j] = v + 1]
    /\ artifacts' = [artifacts EXCEPT ![j] = @ \cup arts]
    /\ reservations' = [reservations EXCEPT ![j] =
           IF s = "orphaned" THEN "held_orphaned" ELSE "released"]
    /\ jobs' = [jobs EXCEPT ![j] = [@ EXCEPT !.resolution = s, !.current = "none"]]
    /\ events' = [events EXCEPT ![j] =
           @ \o <<Event("PROCESS_EXITED", attempts[j].state, s),
                  Event("JOB_TERMINAL", attempts[j].state, s)>>]
    /\ UNCHANGED <<globalLimit, idempotency>>

(* recover_orphaned_terminal: a late, identity-bound Runner result corrects *)
(* an orphaned Job and gives its capacity back.                             *)

(* Mutant: orphan recovery no longer checks that there is an orphan. *)
RecoverOrphanedOutcome_AnyState(j, arts, v) ==
    IF rowVersion[j] # v THEN "AttemptStateConflict"
    ELSE IF arts \cap artifacts[j] # {} THEN "ArtifactIdentityConflict"
    ELSE "ok"

RecoverOrphanedOutcome(j, arts, v) ==
    IF \/ attempts[j].state # "orphaned"
       \/ jobs[j].resolution # "orphaned"
       \/ reservations[j] # "held_orphaned"
    THEN "OrphanRemediationDenied"
    ELSE IF rowVersion[j] # v THEN "AttemptStateConflict"
    ELSE IF arts \cap artifacts[j] # {} THEN "ArtifactIdentityConflict"
    ELSE "ok"

(* Mutant: recovery replaces the artifacts already registered. *)
RecoverOrphanedTerminal_Replaces(j, s, d, arts, v) ==
    /\ s \in RunnerTerminal
    /\ RecoverOrphanedOutcome(j, arts, v) = "ok"
    /\ attempts' = [attempts EXCEPT ![j] =
           [@ EXCEPT !.state = s, !.result = d]]
    /\ rowVersion' = [rowVersion EXCEPT ![j] = v + 1]
    /\ artifacts' = [artifacts EXCEPT ![j] = arts]
    /\ reservations' = [reservations EXCEPT ![j] = "released"]
    /\ jobs' = [jobs EXCEPT ![j] = [@ EXCEPT !.resolution = s]]
    /\ events' = [events EXCEPT ![j] =
           @ \o <<Event("RUNNER_RESULT_RECOVERED", "orphaned", s),
                  Event("JOB_RESOLUTION_CORRECTED", "orphaned", s)>>]
    /\ UNCHANGED <<globalLimit, idempotency>>

RecoverOrphanedTerminal(j, s, d, arts, v) ==
    /\ s \in RunnerTerminal
    /\ RecoverOrphanedOutcome(j, arts, v) = "ok"
    /\ attempts' = [attempts EXCEPT ![j] =
           [@ EXCEPT !.state = s, !.result = d]]
    /\ rowVersion' = [rowVersion EXCEPT ![j] = v + 1]
    /\ artifacts' = [artifacts EXCEPT ![j] = @ \cup arts]
    /\ reservations' = [reservations EXCEPT ![j] = "released"]
    /\ jobs' = [jobs EXCEPT ![j] = [@ EXCEPT !.resolution = s]]
    /\ events' = [events EXCEPT ![j] =
           @ \o <<Event("RUNNER_RESULT_RECOVERED", "orphaned", s),
                  Event("JOB_RESOLUTION_CORRECTED", "orphaned", s)>>]
    /\ UNCHANGED <<globalLimit, idempotency>>

----------------------------------------------------------------------------
(* The registry under arbitrary callers: any caller may present any row     *)
(* version it may have read, any terminal state and any of the artifact     *)
(* sets the engine registers.                                               *)

RunnerArtifacts == {"stdout", "stderr", "execution_result"}

ControlArtifacts == {{"control_result"}, {"control_result", "stdout", "stderr"}}

RowVersions == 0 .. (MaxRowVersion + 4)

RegNext ==
    \/ \E j \in Jobs, k \in Keys, op \in Operations, ws \in Workspaces,
          limit \in GlobalLimits : Submit(j, k, op, ws, limit)
    \/ \E j \in Jobs, v \in RowVersions :
          \/ MarkBundleReady(j, v)
          \/ MarkDispatchIssued(j, v)
          \/ BindRunning(j, v)
    \/ \E j \in Jobs : RequestCancel(j)
    \/ \E j \in Jobs, v \in RowVersions, s \in Terminal, d \in Results :
          \E arts \in {RunnerArtifacts} \cup ControlArtifacts :
             CommitTerminal(j, s, d, arts, v)
    \/ \E j \in Jobs, v \in RowVersions, s \in RunnerTerminal, d \in Results :
          RecoverOrphanedTerminal(j, s, d, RunnerArtifacts, v)

RegSpec == RegInit /\ [][RegNext]_regVars

----------------------------------------------------------------------------
(* Types *)

JobRow ==
    [key : Keys \cup {None}, operation : Operations \cup {None},
     workspace : Workspaces \cup {None}, desired : {"run", "cancelled"},
     resolution : Terminal \cup {None}, current : {"none", "attempt"}]

AttemptRow ==
    [state : AttemptStates \cup {"absent"}, bundle : {"none", "ready"},
     identity : {"none", "recorded"}, intent : {"natural", "stop_requested"},
     result : Results \cup {CancelDigest, None}]

EventRow ==
    [type : EventTypes, from : AttemptStates \cup {None}, to : AttemptStates \cup {None}]

(* Every table holds rows of its declared columns (0001_runtime.sql).       *)
RegTypeOK ==
    /\ jobs \in [Jobs -> JobRow]
    /\ attempts \in [Jobs -> AttemptRow]
    /\ rowVersion \in [Jobs -> Nat]
    /\ reservations \in [Jobs -> {"none", "active", "held_orphaned", "released"}]
    /\ globalLimit \in [Jobs -> Nat]
    /\ idempotency \in [Keys -> Jobs \cup {NoJob}]
    /\ artifacts \in [Jobs -> SUBSET ArtifactKinds]
    /\ events \in [Jobs -> Seq(EventRow)]

----------------------------------------------------------------------------
(* Safety *)

ReservationFor(s) ==
    CASE s = "absent" -> "none"
      [] s \in AttemptStates \ Terminal -> "active"
      [] s = "orphaned" -> "held_orphaned"
      [] OTHER -> "released"

(* The jobs, attempts and concurrency_reservations tables always tell the   *)
(* same story: capacity is held exactly while the Attempt is live or        *)
(* orphaned, a Job is resolved exactly when its Attempt is terminal and     *)
(* with the same verdict, and request_cancel's two writes agree.            *)
LedgerCoherent ==
    \A j \in Jobs :
        /\ reservations[j] = ReservationFor(attempts[j].state)
        /\ jobs[j].resolution = IF IsTerminal(attempts[j].state)
                                THEN attempts[j].state ELSE None
        /\ jobs[j].current = "attempt" <=> attempts[j].state \in AttemptStates \ Terminal
        /\ jobs[j].desired = "cancelled" <=> attempts[j].intent = "stop_requested"

(* workspace_execution_is_serialized: no two Jobs of one workspace hold     *)
(* capacity at once, an orphaned Job included.                              *)
WorkspaceSerialised ==
    \A i, j \in Holders : jobs[i].workspace = jobs[j].workspace => i = j

(* simultaneous_admissions_cannot_overbook_last_global_slot: whichever Jobs *)
(* hold capacity together, orphans included, at least one of them was       *)
(* admitted under a limit that allows for all of them.                      *)
GlobalCapacity ==
    \A S \in SUBSET Holders : S # {} => \E j \in S : Cardinality(S) <= globalLimit[j]

(* One Job per (principal, clientRequestId), and every Job is found by the  *)
(* key it was admitted under.                                               *)
OneJobPerKey ==
    /\ \A k \in Keys : idempotency[k] # NoJob =>
           Exists(idempotency[k]) /\ jobs[idempotency[k]].key = k
    /\ \A j \in Jobs : Exists(j) =>
           jobs[j].key \in Keys /\ idempotency[jobs[j].key] = j

Occurrences(j, type) == {i \in DOMAIN events[j] : events[j][i].type = type}

(* The append-only log explains the Attempt row: its last entry is the      *)
(* current state, and every entry that moves the Attempt starts where some  *)
(* earlier entry left it.                                                   *)
LogExplainsState ==
    \A j \in Jobs : Exists(j) =>
        /\ events[j] # <<>>
        /\ events[j][Len(events[j])].to = attempts[j].state
        /\ \A i \in DOMAIN events[j] : events[j][i].from # None =>
               \E h \in 1 .. (i - 1) : events[j][h].to = events[j][i].from

(* The at-most-once boundary: dispatch is issued at most once, only after a *)
(* bundle was made ready, and nothing is bound without a dispatch.          *)
DispatchAtMostOnce ==
    \A j \in Jobs :
        /\ Cardinality(Occurrences(j, "DISPATCH_ISSUED")) <= 1
        /\ \A d \in Occurrences(j, "DISPATCH_ISSUED") :
               \E b \in Occurrences(j, "BUNDLE_READY") : b < d
        /\ \A r \in Occurrences(j, "RUNNER_BOUND") :
               \E d \in Occurrences(j, "DISPATCH_ISSUED") : d < r

----------------------------------------------------------------------------
(* Action properties *)

OnlyCorrected(i) ==
    /\ IsTerminal(attempts[i].state) =>
          \/ attempts'[i] = attempts[i]
          \/ attempts[i].state = "orphaned" /\ attempts'[i].state \in RunnerTerminal
    /\ Resolved(i) =>
          \/ jobs'[i] = jobs[i]
          \/ jobs[i].resolution = "orphaned" /\ jobs'[i].resolution \in RunnerTerminal
    /\ reservations[i] = "released" => reservations'[i] = "released"

(* 0002_orphan_recovery.sql: a terminal Attempt and a resolved Job never    *)
(* change again, except that an orphan may be corrected once to a Runner's  *)
(* verdict; capacity given back is never taken again by the same Job.       *)
TerminalOnlyCorrected == [][\A i \in Jobs : OnlyCorrected(i)]_regVars

(* What a Job was admitted for never changes, its key stays bound to it,    *)
(* its row version never falls and its log only grows.                      *)
HistoryIsPermanent ==
    [][\A j \in Jobs : Exists(j) =>
          /\ jobs'[j].key = jobs[j].key
          /\ jobs'[j].operation = jobs[j].operation
          /\ jobs'[j].workspace = jobs[j].workspace
          /\ idempotency'[jobs[j].key] = j
          /\ rowVersion'[j] >= rowVersion[j]
          /\ artifacts[j] \subseteq artifacts'[j]
          /\ Len(events'[j]) >= Len(events[j])
          /\ \A i \in DOMAIN events[j] : events'[j][i] = events[j][i]]_regVars

============================================================================
