----------------------------- MODULE AgentShell -----------------------------
(***************************************************************************)
(* The Agent Shell's writes (src/finharness/agent_shell.py,                *)
(* capital_agent.py, capital_runtime.py, runtime_worker.py,                *)
(* api/routes_agent_shell.py): starting a Mission, executing one paper     *)
(* Effect through the Runtime, and moving a Mission to a changed Capital   *)
(* World.  They arrive as keyed mutations; the last two leave a domain     *)
(* receipt from which a typed resolver can close the identity receipt.     *)
(*                                                                         *)
(* The routes are coroutines that block, so one API process runs one       *)
(* handler at a time; imports, operators, the Worker and the resolver are  *)
(* processes of their own.  Artifacts are created exclusively and replaced *)
(* when they still have the hash that was read, each in one step.  There   *)
(* is one Mission; a Capital World is the number of imports it reflects.   *)
(* The Runtime is what its own modules show it to be: it admits a client   *)
(* request id once, runs one Job per broker account and launches it once.  *)
(***************************************************************************)
EXTENDS KeyedMutation

CONSTANTS
    Route,          \* route of each key
    RequestId,      \* request_id in the body sent with each key
    Sender,         \* key each request is sent with
    MaxUses,        \* max_uses of the Delegation
    MaxWorld,       \* bound: imports that reach the Capital World
    MaxPauses,      \* bound: how often an operator pauses the Mission
    MaxFaults,      \* bound: crashes, timeouts and failed writes in a behaviour
    Withdrawals     \* "close", "revoke": what an operator may withdraw

ASSUME ShellAssumption ==
    /\ Route \in [Keys -> {"start", "effect", "recover"}]
    /\ Sender \in [Requests -> Keys]
    /\ Requests \cap Resolvers = {}

VARIABLES
    world,          \* admitted Capital World
    mission,        \* the Mission artifact
    delegation,     \* state of the Delegation artifact
    launched,       \* whether the launch record exists
    pauses,         \* pauses so far
    intents,        \* World of each EffectIntent, 0 when absent
    admissions,     \* World of each EffectAdmission, 0 when absent
    records,        \* World recovery record of each request_id
    checkpoints,    \* World of each MissionCheckpoint, 0 when absent
    domain,         \* domain receipt of each key
    answered,       \* the Mission in a completed recovery receipt
    run,            \* the Runtime control process started for each key
    job,            \* Runtime Job of each EffectIntent
    worker,         \* how far the Worker of each Job has come
    execution,      \* state of each EffectExecutionRecord
    runtimeBound,   \* whether the record names its Runtime Job
    orders,         \* orders the broker adapter was given
    api,            \* request whose handler runs
    owner,          \* request that claimed each key
    pc,             \* where each handler or resolver is
    basis,          \* World it resolved
    seen,           \* what it read last: the Mission, an execution's state, a Job's status
    faults          \* crashes, timeouts and failed writes so far

artifactVars == <<intents, admissions, records, checkpoints, domain, answered>>
missionVars == <<world, mission, delegation, launched, pauses>>
runtimeVars == <<run, job, worker, execution, runtimeBound, orders>>
procVars == <<api, owner, pc, basis, seen>>
shellVars == <<missionVars, artifactVars, runtimeVars, procVars>>
agentVars == <<mutationVars, shellVars, faults>>

Procs == Requests \cup Resolvers

Ids == {RequestId[k] : k \in Keys}

(* The stamp stands for updated_at_utc: 0 when it is the time of the       *)
(* launch or of the recovery that made the checkpoint, otherwise the pause *)
(* or resumption that wrote the artifact.                                  *)
NoMission == [state |-> "absent", world |-> 0, ckpt |-> None, stamp |-> 0]

NoRecord == [prev |-> 0, state |-> "absent", target |-> 0]

Nothing == [mission |-> NoMission, execution |-> "absent", status |-> "none"]

(* An earlier session may have started the Mission. *)
AgentInit ==
    /\ MutationInit
    /\ world = 1
    /\ launched \in BOOLEAN
    /\ mission = IF launched THEN [NoMission EXCEPT !.state = "active", !.world = 1] ELSE NoMission
    /\ delegation = IF launched THEN "active" ELSE "absent"
    /\ pauses = 0
    /\ intents = [i \in Ids |-> 0]
    /\ admissions = [i \in Ids |-> 0]
    /\ records = [i \in Ids |-> NoRecord]
    /\ checkpoints = [i \in Ids |-> 0]
    /\ domain = [k \in Keys |-> "absent"]
    /\ answered = [k \in Keys |-> NoMission]
    /\ run = [k \in Keys |-> "none"]
    /\ job = [i \in Ids |-> "none"]
    /\ worker = [i \in Ids |-> "idle"]
    /\ execution = [i \in Ids |-> "absent"]
    /\ runtimeBound = [i \in Ids |-> FALSE]
    /\ orders = [i \in Ids |-> 0]
    /\ api = None
    /\ owner = [k \in Keys |-> None]
    /\ pc = [p \in Procs |-> "out"]
    /\ basis = [p \in Procs |-> 0]
    /\ seen = [p \in Procs |-> Nothing]
    /\ faults = 0

----------------------------------------------------------------------------
(* The process a handler or a resolver is, and how it moves.               *)

KeyOf(p) == IF p \in Requests THEN key[p] ELSE loaded[p]

IdOf(p) == RequestId[KeyOf(p)]

At(p, label, route) ==
    /\ pc[p] = label
    /\ Route[KeyOf(p)] = route

Goto(p, label) == pc' = [pc EXCEPT ![p] = label]

Forget(ps) ==
    /\ pc' = [p \in Procs |-> IF p \in ps THEN "out" ELSE pc[p]]
    /\ basis' = [p \in Procs |-> IF p \in ps THEN 0 ELSE basis[p]]
    /\ seen' = [p \in Procs |-> IF p \in ps THEN Nothing ELSE seen[p]]

(* The API process is free for the next coroutine. *)
Out(r) ==
    /\ api' = None
    /\ Forget({r})
    /\ UNCHANGED owner

(* _raise_domain_error: an error status, stored as a rejection. *)
Refused(r) ==
    /\ r \in Requests
    /\ Refuse(r)
    /\ Out(r)
    /\ UNCHANGED <<missionVars, artifactVars, runtimeVars>>

(* A resolver that cannot verify raises; the receipt stays pending. *)
Abandoned(p) ==
    /\ p \in Resolvers
    /\ GiveUp(p)
    /\ Forget({p})
    /\ UNCHANGED <<missionVars, artifactVars, runtimeVars, api, owner>>

Fail(p) == Refused(p) \/ Abandoned(p)

Effected(k) == effects' = [effects EXCEPT ![k] = @ \cup {owner[k]}]

----------------------------------------------------------------------------
(* start_mission.                                                          *)

StartLaunch(r) ==
    /\ At(r, "enter", "start")
    /\ launched' = TRUE
    /\ basis' = [basis EXCEPT ![r] = world]
    /\ Goto(r, "launched")
    /\ UNCHANGED <<mutationVars, world, mission, delegation, pauses, artifactVars, runtimeVars,
                   api, owner, seen>>

(* The Mission artifact of the launch, as this request would create it. *)
Fresh(r) == [state |-> "active", world |-> basis[r], ckpt |-> None, stamp |-> 0]

StartMission(r) ==
    /\ At(r, "launched", "start")
    /\ mission \in {NoMission, Fresh(r)}
    /\ mission' = Fresh(r)
    /\ Goto(r, "mission")
    /\ UNCHANGED <<mutationVars, world, delegation, launched, pauses, artifactVars, runtimeVars,
                   api, owner, basis, seen>>

StartConflict(r) ==
    /\ At(r, "launched", "start")
    /\ mission \notin {NoMission, Fresh(r)}
    /\ Refused(r)

(* The Belief, then the Delegation, which a retry must find unrevoked. *)
StartBundle(r) ==
    /\ At(r, "mission", "start")
    /\ delegation # "revoked"
    /\ delegation' = "active"
    /\ Apply(r)
    /\ Out(r)
    /\ UNCHANGED <<world, mission, launched, pauses, artifactVars, runtimeVars>>

StartRevoked(r) ==
    /\ At(r, "mission", "start")
    /\ delegation = "revoked"
    /\ Refused(r)

----------------------------------------------------------------------------
(* execute_paper_effect up to the Runtime.                                 *)

(* mission_bundle finds every artifact of the launch. *)
Bundled == launched /\ mission.state # "absent" /\ delegation # "absent"

EffectAdmissible == Bundled /\ mission.state = "active" /\ mission.world = world

(* create_effect_intent: an existing intent keeps its World. *)
EffectIntent(r) ==
    /\ At(r, "enter", "effect")
    /\ EffectAdmissible
    /\ basis' = [basis EXCEPT ![r] = world]
    /\ intents' = [intents EXCEPT ![IdOf(r)] = IF @ = 0 THEN mission.world ELSE @]
    /\ Goto(r, "intent")
    /\ UNCHANGED <<mutationVars, missionVars, admissions, records, checkpoints, domain, answered,
                   runtimeVars, api, owner, seen>>

EffectDenied(r) ==
    /\ At(r, "enter", "effect")
    /\ ~EffectAdmissible
    /\ Refused(r)

Uses == Cardinality({i \in Ids : admissions[i] # 0})


(* admit_effect has no reason to deny.  An admission that exists is        *)
(* returned as it is.                                                      *)
Admissible(r) ==
    LET i == IdOf(r) IN
    admissions[i] = 0 =>
        /\ mission.state = "active"
        /\ delegation = "active"
        /\ intents[i] = basis[r]
        /\ Uses < MaxUses

AdmitEffect(r) ==
    /\ At(r, "intent", "effect")
    /\ Admissible(r)
    /\ admissions' = [admissions EXCEPT ![IdOf(r)] = IF @ = 0 THEN basis[r] ELSE @]
    /\ Goto(r, "admitted")
    /\ UNCHANGED <<mutationVars, missionVars, intents, records, checkpoints, domain, answered,
                   runtimeVars, api, owner, basis, seen>>

AdmissionDenied(r) ==
    /\ At(r, "intent", "effect")
    /\ ~Admissible(r)
    /\ Refused(r)

(* Mutant: the domain receipt is written when the result is known. *)
SkipReceipt(r) ==
    /\ At(r, "admitted", "effect")
    /\ Goto(r, "receipted")
    /\ UNCHANGED <<mutationVars, missionVars, artifactVars, runtimeVars, api, owner, basis, seen>>

(* _begin_paper_effect_domain_receipt. *)
BeginEffectReceipt(r) ==
    /\ At(r, "admitted", "effect")
    /\ domain' = [domain EXCEPT ![key[r]] = "pending"]
    /\ Goto(r, "receipted")
    /\ UNCHANGED <<mutationVars, missionVars, intents, admissions, records, checkpoints, answered,
                   runtimeVars, api, owner, basis, seen>>

(* submit_paper_effect starts "run" of the Runtime binary. *)
Invoke(r) ==
    /\ At(r, "receipted", "effect")
    /\ admissions[IdOf(r)] = basis[r]
    /\ run' = [run EXCEPT ![key[r]] = "invoked"]
    /\ Goto(r, "invoked")
    /\ UNCHANGED <<mutationVars, missionVars, artifactVars, job, worker, execution, runtimeBound,
                   orders, api, owner, basis, seen>>

InvokeStale(r) ==
    /\ At(r, "receipted", "effect")
    /\ admissions[IdOf(r)] # basis[r]
    /\ Refused(r)

----------------------------------------------------------------------------
(* The Runtime and its Worker.                                             *)

(* A new client request id is admitted unless another Job holds the broker *)
(* account.  The Worker input names the time the World was resolved at, so *)
(* a second submission of an intent never has the digest of the first.     *)
RuntimeAdmits(k) ==
    /\ run[k] = "invoked"
    /\ job[RequestId[k]] = "none"
    /\ \A i \in Ids : job[i] # "running"
    /\ run' = [run EXCEPT ![k] = "admitted"]
    /\ job' = [job EXCEPT ![RequestId[k]] = "running"]
    /\ UNCHANGED <<mutationVars, missionVars, artifactVars, worker, execution, runtimeBound, orders,
                   procVars>>

RuntimeRefuses(k) ==
    /\ run[k] = "invoked"
    /\ job[RequestId[k]] # "none" \/ \E i \in Ids : job[i] = "running"
    /\ run' = [run EXCEPT ![k] = "refused"]
    /\ UNCHANGED <<mutationVars, missionVars, artifactVars, job, worker, execution, runtimeBound,
                   orders, procVars>>

Launcher(i) == CHOOSE k \in Keys : RequestId[k] = i /\ run[k] = "admitted"

(* execute_simulated_effect claims the execution, the authority still      *)
(* being in force.                                                         *)
WorkerClaims(i) ==
    /\ job[i] = "running"
    /\ worker[i] = "idle"
    /\ mission.state = "active"
    /\ delegation = "active"
    /\ execution[i] = "absent"
    /\ execution' = [execution EXCEPT ![i] = "claimed"]
    /\ worker' = [worker EXCEPT ![i] = "claimed"]
    /\ UNCHANGED <<mutationVars, missionVars, artifactVars, run, job, runtimeBound, orders, procVars>>

(* Draft, check, approval, staging and submission in the Execution Kernel. *)
WorkerOrders(i) ==
    /\ worker[i] = "claimed"
    /\ orders' = [orders EXCEPT ![i] = @ + 1]
    /\ worker' = [worker EXCEPT ![i] = "ordered"]
    /\ Effected(Launcher(i))
    /\ UNCHANGED <<receiptVars, requestVars, resolverVars, missionVars, artifactVars, run, job,
                   execution, runtimeBound, procVars>>

(* The record is completed if it is still the one that was claimed. *)
WorkerCompletes(i) ==
    /\ worker[i] = "ordered"
    /\ ~runtimeBound[i]
    /\ execution' = [execution EXCEPT ![i] = "completed"]
    /\ worker' = [worker EXCEPT ![i] = "completed"]
    /\ UNCHANGED <<mutationVars, missionVars, artifactVars, run, job, runtimeBound, orders, procVars>>

(* Withdrawn authority, or a record that was bound meanwhile. *)
WorkerRefuses(i) ==
    /\ job[i] = "running"
    /\ \/ worker[i] = "idle" /\ (mission.state # "active" \/ delegation # "active")
       \/ worker[i] = "ordered" /\ runtimeBound[i]
    /\ worker' = [worker EXCEPT ![i] = "failed"]
    /\ UNCHANGED <<mutationVars, missionVars, artifactVars, run, job, execution, runtimeBound,
                   orders, procVars>>

(* An error of the Kernel, the deadline or a kill, wherever it was. *)
WorkerDies(i) ==
    /\ job[i] = "running"
    /\ worker[i] # "failed"
    /\ worker' = [worker EXCEPT ![i] = "failed"]
    /\ UNCHANGED <<mutationVars, missionVars, artifactVars, run, job, execution, runtimeBound,
                   orders, procVars>>

JobEnds(i) ==
    /\ job[i] = "running"
    /\ worker[i] \in {"completed", "failed"}
    /\ job' = [job EXCEPT ![i] = IF worker[i] = "completed" THEN "succeeded" ELSE "failed"]
    /\ UNCHANGED <<mutationVars, missionVars, artifactVars, run, worker, execution, runtimeBound,
                   orders, procVars>>

----------------------------------------------------------------------------
(* execute_paper_effect after the Runtime.                                 *)

(* The control process answers, after 30 s with a Job that still runs. *)
Observe(r) ==
    /\ At(r, "invoked", "effect")
    /\ run[key[r]] = "admitted"
    /\ execution[IdOf(r)] # "absent"
    /\ seen' = [seen EXCEPT ![r].execution = execution[IdOf(r)], ![r].status = job[IdOf(r)]]
    /\ Goto(r, "observed")
    /\ UNCHANGED <<mutationVars, missionVars, artifactVars, runtimeVars, api, owner, basis>>

RunFailed(r) ==
    /\ At(r, "invoked", "effect")
    /\ \/ run[key[r]] = "refused"
       \/ run[key[r]] = "admitted" /\ execution[IdOf(r)] = "absent"
    /\ Refused(r)

(* subprocess.run gives the control process 75 s and then kills it. *)
RunTimesOut(r) ==
    /\ At(r, "invoked", "effect")
    /\ run' = [run EXCEPT ![key[r]] = IF @ = "invoked" THEN "refused" ELSE @]
    /\ LeavePending(r)
    /\ Out(r)
    /\ UNCHANGED <<missionVars, artifactVars, job, worker, execution, runtimeBound, orders>>

(* Mutant: any observation of the Job will do. *)
BindAny(r) ==
    /\ At(r, "observed", "effect")
    /\ runtimeBound[IdOf(r)] \/ execution[IdOf(r)] = seen[r].execution
    /\ runtimeBound' = [runtimeBound EXCEPT ![IdOf(r)] = TRUE]
    /\ Goto(r, "done")
    /\ UNCHANGED <<mutationVars, missionVars, artifactVars, run, job, worker, execution, orders,
                   api, owner, basis, seen>>

(* bind_runtime_execution, and what submit_paper_effect makes of a Job     *)
(* that has not succeeded.                                                 *)
Bind(r) ==
    /\ At(r, "observed", "effect")
    /\ runtimeBound[IdOf(r)] \/ execution[IdOf(r)] = seen[r].execution
    /\ runtimeBound' = [runtimeBound EXCEPT ![IdOf(r)] = TRUE]
    /\ \/ /\ seen[r].status = "succeeded"
          /\ Goto(r, "done")
          /\ UNCHANGED <<mutationVars, api, owner, basis, seen>>
       \/ /\ seen[r].status # "succeeded"
          /\ Refuse(r)
          /\ Out(r)
    /\ UNCHANGED <<missionVars, artifactVars, run, job, worker, execution, orders>>

BindConflict(r) ==
    /\ At(r, "observed", "effect")
    /\ ~runtimeBound[IdOf(r)]
    /\ execution[IdOf(r)] # seen[r].execution
    /\ Refused(r)

(* The domain receipt is completed with the response; the route answers. *)
CompleteReceipt(r) ==
    /\ r \in Requests
    /\ pc[r] = "done"
    /\ domain[key[r]] = "pending"
    /\ domain' = [domain EXCEPT ![key[r]] = "completed"]
    /\ answered' = [answered EXCEPT ![key[r]] = seen[r].mission]
    /\ Move(r, {"claimed"}, "applied")
    /\ Out(r)
    /\ UNCHANGED <<receiptVars, effects, resolverVars, missionVars, intents, admissions, records,
                   checkpoints, runtimeVars>>

(* AgentShellMutationRecoveryRequired: a resolver completed the receipt    *)
(* first, or it cannot be written.                                         *)
CompleteReceiptTooLate(r) ==
    /\ r \in Requests
    /\ pc[r] = "done"
    /\ domain[key[r]] # "pending"
    /\ LeavePending(r)
    /\ Out(r)
    /\ UNCHANGED <<missionVars, artifactVars, runtimeVars>>

CompleteReceiptFails(r) ==
    /\ r \in Requests
    /\ pc[r] = "done"
    /\ LeavePending(r)
    /\ Out(r)
    /\ UNCHANGED <<missionVars, artifactVars, runtimeVars>>

----------------------------------------------------------------------------
(* World recovery.  Handler and resolver apply the same steps; the handler *)
(* aims at the World it resolved, the resolver at the one in the record.   *)

Drifted == Bundled /\ mission.world # world /\ mission.state \in {"active", "paused"}

(* _begin_world_recovery: a request_id keeps the record it made first. *)
RecoverBegin(r) ==
    /\ At(r, "enter", "recover")
    /\ Drifted
    /\ records' = [records EXCEPT ![IdOf(r)] =
         IF @ = NoRecord
         THEN [prev |-> mission.world, state |-> mission.state, target |-> world] ELSE @]
    /\ basis' = [basis EXCEPT ![r] = world]
    /\ Goto(r, "recorded")
    /\ UNCHANGED <<mutationVars, missionVars, intents, admissions, checkpoints, domain, answered,
                   runtimeVars, api, owner, seen>>

RecoverDenied(r) ==
    /\ At(r, "enter", "recover")
    /\ ~Drifted
    /\ Refused(r)

BeginRecoveryReceipt(r) ==
    /\ At(r, "recorded", "recover")
    /\ domain' = [domain EXCEPT ![key[r]] = "pending"]
    /\ Goto(r, "receipted")
    /\ UNCHANGED <<mutationVars, missionVars, intents, admissions, records, checkpoints, answered,
                   runtimeVars, api, owner, basis, seen>>


(* apply_world_recovery_checkpoint up to its first write. *)
MayCheckpoint(p) ==
    LET old == records[IdOf(p)] IN
    /\ mission.state # "closed"
    /\ \/ mission.world = old.prev /\ mission.state = old.state
       \/ mission.world = basis[p] /\ mission.world # old.prev
    /\ checkpoints[IdOf(p)] \in {0, basis[p]}

Checkpoint(p) ==
    /\ At(p, "receipted", "recover")
    /\ MayCheckpoint(p)
    /\ checkpoints' = [checkpoints EXCEPT ![IdOf(p)] = IF @ = 0 THEN basis[p] ELSE @]
    /\ seen' = [seen EXCEPT ![p].mission = mission]
    /\ Goto(p, "checkpointed")
    /\ UNCHANGED <<mutationVars, missionVars, intents, admissions, records, domain, answered,
                   runtimeVars, api, owner, basis>>

CheckpointFails(p) ==
    /\ At(p, "receipted", "recover")
    /\ ~MayCheckpoint(p)
    /\ Fail(p)

(* checkpoint_mission replaces the Mission that was read. *)
Advanced(p) == [mission EXCEPT !.world = basis[p], !.ckpt = IdOf(p), !.stamp = 0]


Advance(p) ==
    /\ At(p, "checkpointed", "recover")
    /\ mission = seen[p].mission
    /\ mission' = Advanced(p)
    /\ seen' = [seen EXCEPT ![p].mission = mission']
    /\ Effected(KeyOf(p))
    /\ Goto(p, IF mission.state = "paused" THEN "resume" ELSE "done")
    /\ UNCHANGED <<receiptVars, requestVars, resolverVars, world, delegation, launched, pauses,
                   artifactVars, runtimeVars, api, owner, basis>>

AdvanceFails(p) ==
    /\ At(p, "checkpointed", "recover")
    /\ mission # seen[p].mission
    /\ Fail(p)

(* resume_mission reads the Mission again. *)
Resume(p) ==
    /\ At(p, "resume", "recover")
    /\ mission.state = "paused"
    /\ mission' = [mission EXCEPT !.state = "active", !.world = basis[p], !.stamp = 2 * pauses + 1]
    /\ seen' = [seen EXCEPT ![p].mission = mission']
    /\ Goto(p, "done")
    /\ UNCHANGED <<mutationVars, world, delegation, launched, pauses, artifactVars, runtimeVars,
                   api, owner, basis>>

ResumeFails(p) ==
    /\ At(p, "resume", "recover")
    /\ mission.state # "paused"
    /\ Fail(p)

----------------------------------------------------------------------------
(* The typed resolvers.                                                    *)

(* The identity receipt is pending when it is loaded, and compared again   *)
(* when it is closed.                                                      *)
Loads(c, k, route) ==
    /\ loaded[c] = None
    /\ Route[k] = route
    /\ k \in Typed
    /\ state[k] = "pending"
    /\ loaded' = [loaded EXCEPT ![c] = k]

(* Mutant: the resolver waits for a completed domain receipt. *)
EffectVerifiedWhenCompleted(k) == domain[k] = "completed"

(* A completed domain receipt holds the response.  For a pending one,      *)
(* _recover_pending_paper_effect_response asks for a record that names a   *)
(* Job and observes that Job to have succeeded; either way                 *)
(* _require_paper_effect_execution_truth asks for a completed execution.   *)
EffectVerified(k) ==
    /\ \/ domain[k] = "completed"
       \/ /\ domain[k] = "pending"
          /\ execution[RequestId[k]] # "absent"
          /\ runtimeBound[RequestId[k]]
          /\ job[RequestId[k]] = "succeeded"
    /\ execution[RequestId[k]] = "completed"

(* A pending domain receipt is completed on the way. *)
ResolveEffect(c, k) ==
    /\ Loads(c, k, "effect")
    /\ EffectVerified(k)
    /\ domain' = [domain EXCEPT ![k] = "completed"]
    /\ verified' = [verified EXCEPT ![c] = owner[k]]
    /\ UNCHANGED <<receiptVars, effects, requestVars, missionVars, intents, admissions,
                   records, checkpoints, answered, runtimeVars, procVars>>

(* _verified_world_recovery_artifacts: the target must still be the        *)
(* admitted World.  A pending receipt is applied again.                    *)
ResolveRecovery(c, k) ==
    /\ Loads(c, k, "recover")
    /\ domain[k] = "pending"
    /\ records[RequestId[k]].target = world
    /\ basis' = [basis EXCEPT ![c] = world]
    /\ Goto(c, "receipted")
    /\ UNCHANGED <<receiptVars, effects, requestVars, verified, missionVars, artifactVars,
                   runtimeVars, api, owner, seen>>

(* The Mission m is at the checkpoint of this recovery. *)
Recovered(m, k) ==
    /\ m.state = "active"
    /\ m.world = records[RequestId[k]].target
    /\ m.ckpt = RequestId[k]
    /\ checkpoints[RequestId[k]] = m.world

(* The applied recovery completes the domain receipt, or its handler has. *)
ResolveApplied(c) ==
    /\ c \in Resolvers
    /\ pc[c] = "done"
    /\ domain[loaded[c]] = "pending"
    /\ Recovered(seen[c].mission, loaded[c])
    /\ domain' = [domain EXCEPT ![loaded[c]] = "completed"]
    /\ answered' = [answered EXCEPT ![loaded[c]] = seen[c].mission]
    /\ verified' = [verified EXCEPT ![c] = owner[loaded[c]]]
    /\ Forget({c})
    /\ UNCHANGED <<receiptVars, effects, requestVars, loaded, missionVars, intents, admissions,
                   records, checkpoints, runtimeVars, api, owner>>

ResolveTooLate(c) ==
    /\ c \in Resolvers
    /\ pc[c] = "done"
    /\ domain[loaded[c]] # "pending" \/ ~Recovered(seen[c].mission, loaded[c])
    /\ Abandoned(c)

(* A completed receipt must still equal the artifacts it was made from. *)
ResolveCompleted(c, k) ==
    /\ Loads(c, k, "recover")
    /\ domain[k] = "completed"
    /\ records[RequestId[k]].target = world
    /\ Recovered(mission, k)
    /\ answered[k] = mission
    /\ verified' = [verified EXCEPT ![c] = owner[k]]
    /\ UNCHANGED <<receiptVars, effects, requestVars, missionVars, artifactVars,
                   runtimeVars, procVars>>

----------------------------------------------------------------------------
(* Operators and imports, in processes of their own.                       *)

Import ==
    /\ world < MaxWorld
    /\ world' = world + 1
    /\ UNCHANGED <<mutationVars, mission, delegation, launched, pauses, artifactVars, runtimeVars,
                   procVars>>

Transition(from, to, stamp) ==
    /\ mission.state \in from
    /\ mission' = [mission EXCEPT !.state = to, !.stamp = stamp]
    /\ UNCHANGED <<mutationVars, world, delegation, launched, artifactVars, runtimeVars, procVars>>

PauseMission ==
    /\ pauses < MaxPauses
    /\ pauses' = pauses + 1
    /\ Transition({"active"}, "paused", 2 * pauses')

CloseMission ==
    /\ "close" \in Withdrawals
    /\ Transition({"active", "paused"}, "closed", 0)
    /\ UNCHANGED pauses

RevokeDelegation ==
    /\ "revoke" \in Withdrawals
    /\ delegation = "active"
    /\ delegation' = "revoked"
    /\ UNCHANGED <<mutationVars, world, mission, launched, pauses, artifactVars, runtimeVars,
                   procVars>>

(* The API process dies; the processes it started do not. *)
ShellCrash ==
    /\ ApiCrash
    /\ api' = None
    /\ Forget(Requests)
    /\ UNCHANGED <<missionVars, artifactVars, runtimeVars, owner>>

----------------------------------------------------------------------------
(* The middleware claims the key and calls the handler. *)
ShellClaim(r) ==
    /\ api = None
    /\ \E b \in Bodies : Claim(r, Sender[r], b)
    /\ owner' = [owner EXCEPT ![Sender[r]] = r]
    /\ api' = r
    /\ Goto(r, "enter")
    /\ UNCHANGED <<missionVars, artifactVars, runtimeVars, basis, seen>>

(* Replays and conflicts touch no state of the shell; KeyedMutation has    *)
(* them.                                                                   *)
ShellMiddleware(r) ==
    /\ api = None
    /\ Complete(r) \/ CompleteTooLate(r)
    /\ UNCHANGED shellVars

(* The response is over the limit, or its receipt cannot be replaced. *)
ResponseLost(r) ==
    /\ api = None
    /\ phase[r] \in {"applied", "refused"}
    /\ LeavePending(r)
    /\ UNCHANGED shellVars

StartStep(r) ==
    \/ StartLaunch(r)
    \/ StartMission(r)
    \/ StartConflict(r)
    \/ StartBundle(r)
    \/ StartRevoked(r)

EffectStep(r) ==
    \/ EffectIntent(r)
    \/ EffectDenied(r)
    \/ AdmitEffect(r)
    \/ AdmissionDenied(r)
    \/ BeginEffectReceipt(r)
    \/ Invoke(r)
    \/ InvokeStale(r)
    \/ Observe(r)
    \/ RunFailed(r)
    \/ Bind(r)
    \/ BindConflict(r)

RecoverStep(p) ==
    \/ Checkpoint(p)
    \/ CheckpointFails(p)
    \/ Advance(p)
    \/ AdvanceFails(p)
    \/ Resume(p)
    \/ ResumeFails(p)

HandlerStep(r) ==
    \/ StartStep(r)
    \/ EffectStep(r)
    \/ RecoverBegin(r)
    \/ RecoverDenied(r)
    \/ BeginRecoveryReceipt(r)
    \/ RecoverStep(r)
    \/ CompleteReceipt(r)
    \/ CompleteReceiptTooLate(r)

RuntimeStep ==
    \/ \E k \in Keys : RuntimeAdmits(k) \/ RuntimeRefuses(k)
    \/ \E i \in Ids :
         WorkerClaims(i) \/ WorkerOrders(i) \/ WorkerCompletes(i) \/ WorkerRefuses(i) \/ JobEnds(i)

ResolverReconcile(c) == Reconcile(c) /\ UNCHANGED shellVars

(* The request that was thought lost has closed its receipt. *)
ReconcileTooLate(c) ==
    /\ verified[c] # None
    /\ state[loaded[c]] # "pending"
    /\ Abandoned(c)

ShellResolver(c) ==
    \/ \E k \in Keys : ResolveEffect(c, k) \/ ResolveRecovery(c, k) \/ ResolveCompleted(c, k)
    \/ RecoverStep(c)
    \/ ResolveApplied(c)
    \/ ResolveTooLate(c)
    \/ ResolverReconcile(c)
    \/ ReconcileTooLate(c)

OperatorStep == Import \/ PauseMission \/ CloseMission \/ RevokeDelegation

FaultStep ==
    \/ ShellCrash
    \/ \E r \in Requests : RunTimesOut(r) \/ CompleteReceiptFails(r) \/ ResponseLost(r)
    \/ \E i \in Ids : WorkerDies(i)
    \/ \E c \in Resolvers : Abandoned(c)

Sound(step) == step /\ UNCHANGED faults

AgentNext ==
    \/ \E r \in Requests : Sound(ShellClaim(r) \/ ShellMiddleware(r) \/ HandlerStep(r))
    \/ Sound(RuntimeStep)
    \/ \E c \in Resolvers : Sound(ShellResolver(c))
    \/ Sound(OperatorStep)
    \/ FaultStep /\ faults < MaxFaults /\ faults' = faults + 1

AgentSpec == AgentInit /\ [][AgentNext]_agentVars

(* The event loop of the API, the Runtime, and an operator who runs the    *)
(* resolver while it has anything to do: each goes on while it can.        *)
AgentFairSpec ==
    /\ AgentSpec
    /\ WF_agentVars(\E r \in Requests : Sound(ShellMiddleware(r) \/ HandlerStep(r)))
    /\ WF_agentVars(Sound(RuntimeStep))
    /\ \A c \in Resolvers : WF_agentVars(Sound(ShellResolver(c)))

----------------------------------------------------------------------------
(* Properties.                                                             *)

AgentTypeOK ==
    /\ MutationTypeOK
    /\ world \in 1..MaxWorld
    /\ mission.state \in {"absent", "active", "paused", "closed"}
    /\ mission.world \in 0..MaxWorld
    /\ mission.ckpt \in Ids \cup {None}
    /\ mission.stamp \in 0..(2 * MaxPauses + 1)
    /\ delegation \in {"absent", "active", "revoked"}
    /\ launched \in BOOLEAN
    /\ pauses \in 0..MaxPauses
    /\ faults \in 0..MaxFaults
    /\ intents \in [Ids -> 0..MaxWorld]
    /\ admissions \in [Ids -> 0..MaxWorld]
    /\ checkpoints \in [Ids -> 0..MaxWorld]
    /\ domain \in [Keys -> {"absent", "pending", "completed"}]
    /\ run \in [Keys -> {"none", "invoked", "admitted", "refused"}]
    /\ job \in [Ids -> {"none", "running", "succeeded", "failed"}]
    /\ worker \in [Ids -> {"idle", "claimed", "ordered", "completed", "failed"}]
    /\ execution \in [Ids -> {"absent", "claimed", "completed"}]
    /\ runtimeBound \in [Ids -> BOOLEAN]
    /\ api \in Requests \cup {None}
    /\ owner \in [Keys -> Requests \cup {None}]
    /\ basis \in [Procs -> 0..MaxWorld]

EffectKeys == {k \in Keys : Route[k] = "effect"}

Success == {"committed", "reconciled_applied"}

(* A client is told of a success, at once or by reconciliation, only for   *)
(* something that happened: an order placed once and completed in the      *)
(* record of the Job that placed it, or a Mission at the checkpoint this   *)
(* recovery made (execute_paper_effect, recover_world, the resolvers).     *)
SuccessIsReal ==
    \A k \in Keys : state[k] \in Success =>
        /\ Route[k] # "start" => domain[k] = "completed"
        /\ Route[k] = "effect" =>
                /\ orders[RequestId[k]] = 1
                /\ execution[RequestId[k]] = "completed"
                /\ runtimeBound[RequestId[k]]
        /\ Route[k] = "recover" =>
                /\ answered[k].ckpt = RequestId[k]
                /\ answered[k].world = checkpoints[RequestId[k]]

(* Whatever dies on the way, an order in the broker's books has a domain   *)
(* receipt that names the request and admission it came from               *)
(* (_begin_paper_effect_domain_receipt precedes submit_paper_effect).      *)
EveryOrderIsTraceable ==
    \A i \in Ids : orders[i] > 0 =>
        \E k \in Keys :
            /\ RequestId[k] = i
            /\ Route[k] = "effect"
            /\ domain[k] # "absent"
            /\ state[k] # "absent"




(* Once a paper Effect is bound to its succeeded Job, its key is closed in *)
(* the end whatever acknowledgement was lost                               *)
(* (reconcile_agent_shell_paper_effect_identity_mutation).                 *)
BoundEffectsSettle ==
    \A k \in EffectKeys :
        (/\ domain[k] # "absent"
         /\ runtimeBound[RequestId[k]]
         /\ execution[RequestId[k]] = "completed"
         /\ job[RequestId[k]] = "succeeded") ~> state[k] \in Terminal

(* "Paper Effects survive both acknowledgement loss and API-process death  *)
(* after Runtime completion": when the Job of a running handler has        *)
(* succeeded, its key is closed in the end.  It is not when the handler    *)
(* goes before bind_runtime_execution: the resolver then finds no Job id.  *)
(* The code does not guarantee this: see "Formulas that do not hold" in    *)
(* the README.                                                             *)
EffectsSurviveApiDeath ==
    \A k \in EffectKeys :
        (/\ api # None
         /\ api = owner[k]
         /\ run[k] = "admitted"
         /\ job[RequestId[k]] = "succeeded") ~> state[k] \in Terminal

(* A rejected paper Effect has placed no order.                            *)
(* The code does not guarantee this: see "Formulas that do not hold" in    *)
(* the README.                                                             *)
RejectedMeansNoOrder ==
    \A k \in Keys :
        (Route[k] = "effect" /\ state[k] = "rejected" /\ run[k] = "admitted") =>
            orders[RequestId[k]] = 0

(* "retry resumes or returns the same bundle": a second key for a started  *)
(* Mission is not rejected while its artifacts are those of the launch.    *)
(* The code does not guarantee this: see "Formulas that do not hold" in    *)
(* the README.                                                             *)
StartsAreRetryable ==
    \A k \in Keys :
        (Route[k] = "start" /\ state[k] = "rejected") => delegation # "active"
=============================================================================
