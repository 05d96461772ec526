--------------------------- MODULE RuntimeEngine ---------------------------
(***************************************************************************)
(* The runtime engine (runtime/engine.rs) over the registry: control       *)
(* processes, the systemd unit that owns a Job's process tree, the Runner  *)
(* (universal/runner.rs) and the files they exchange in the Attempt        *)
(* bundle.                                                                 *)
(*                                                                         *)
(* finharness-runtime is one process per command, so the in-process        *)
(* lifecycle lock excludes nobody and any two commands interleave.  A      *)
(* control process is a program counter with the values it has read;       *)
(* between two steps any other process, the Runner or systemd may act, and *)
(* the process may be killed.  One step is one registry transaction, one   *)
(* look at the bundle directory, or one systemctl call.  The wait loop of  *)
(* observe_task is the return to "observe".                                *)
(***************************************************************************)
EXTENDS RuntimeRegistry

CONSTANTS
    Procs,         \* control processes
    Commands,      \* commands a control process may be started for
    RunnerVerdicts,\* how a target that was not cancelled may end
    MaxCrashes,    \* bound: control processes killed
    MaxKills,      \* bound: process trees killed from outside (OOM, reboot)
    MaxLaunches    \* bound: launches counted

ASSUME EngineAssumption ==
    /\ Commands \subseteq {"run", "observe", "cancel", "list"}
    /\ RunnerVerdicts \subseteq {"succeeded", "failed", "timed_out", "invalid"}
    /\ MaxCrashes \in Nat /\ MaxKills \in Nat /\ MaxLaunches \in Nat

VARIABLES
    proc,      \* per control process: program counter and the values it read
    bundle,    \* per Job: the bundle directory, "none" | "empty" | "ready"
    staging,   \* per Job: the processes whose staging directory exists
    files,     \* per Job: what the bundle directory holds
    launch,    \* per Job: "none" | "requested" | "started" | "failed"
    launches,  \* per Job: how often a process tree was started
    unit,      \* per Job: "none" | "active" | "deactivating"
    runner,    \* per Job: the Runner's phase
    decision,  \* per Job: the status the Runner decided, before it writes it
    grace,     \* per Job: startup_grace_ms have passed since created_at_ms
    crashes, kills

envVars == <<bundle, staging, files, launch, launches, unit, runner, decision, grace,
             crashes, kills>>
engVars == <<regVars, proc, envVars>>

Idle == [pc |-> "idle", cmd |-> "none", job |-> NoJob, ver |-> 0,
         verdict |-> "none", intent |-> "natural", pid |-> "none",
         then |-> "return", orphan |-> NoJob]

NoFiles == [start |-> FALSE, out |-> FALSE, result |-> "none", cancel |-> FALSE,
            control |-> "none"]

EngInit ==
    /\ RegInit
    /\ proc = [p \in Procs |-> Idle]
    /\ bundle = [j \in Jobs |-> "none"]
    /\ staging = [j \in Jobs |-> {}]
    /\ files = [j \in Jobs |-> NoFiles]
    /\ launch = [j \in Jobs |-> "none"]
    /\ launches = [j \in Jobs |-> 0]
    /\ unit = [j \in Jobs |-> "none"]
    /\ runner = [j \in Jobs |-> "none"]
    /\ decision = [j \in Jobs |-> "none"]
    /\ grace = [j \in Jobs |-> FALSE]
    /\ crashes = 0 /\ kills = 0

----------------------------------------------------------------------------
(* What a control process can see. *)

Alive(j) == runner[j] \in {"launched", "started", "decided", "written"}

UnitIsActive(j) == unit[j] = "active"

HasResult(j) == files[j].result # "none"

(* prepare_runner_terminal: identity and captured output are validated.     *)
ResultReadable(j) == HasResult(j) /\ files[j].out
ResultValid(j) == ResultReadable(j) /\ files[j].result # "invalid"

(* orphan_process_tree_alive: an Attempt that was never bound has no        *)
(* invocation, pid or cgroup on record to look for.                         *)
OrphanTreeAlive(j) == attempts[j].identity = "recorded" /\ Alive(j)

(* classify_supervisor_recovery for a bound Attempt: a unit that is not     *)
(* active matches its recorded identity only while its main process lives,  *)
(* and systemd reports Result=success until the process has failed.         *)
Classify(j, intent) ==
    CASE unit[j] = "active"                     -> "running"
      [] unit[j] = "deactivating" /\ Alive(j)  ->
             IF intent = "stop_requested" THEN "cancelled" ELSE "succeeded"
      [] unit[j] = "deactivating" /\ ~Alive(j) -> "orphaned"
      [] OTHER                                  -> "lost"

----------------------------------------------------------------------------
(* Control-process plumbing. *)

At(p, label) == proc[p].pc = label

Job(p) == proc[p].job

Quiet == UNCHANGED <<regVars, envVars>>

Goto(p, label) == proc' = [proc EXCEPT ![p] = [@ EXCEPT !.pc = label]]

(* The process goes on with the row version it has just read or written.    *)
GotoAt(p, label, v) == proc' = [proc EXCEPT ![p] = [@ EXCEPT !.pc = label, !.ver = v]]

(* The process has decided on terminal state s.                             *)
Decide(p, label, s) ==
    proc' = [proc EXCEPT ![p] =
        [@ EXCEPT !.pc = label, !.verdict = s, !.ver = rowVersion[Job(p)]]]

(* The process settles the Job from its result file; how it treats a result *)
(* it cannot accept depends on the caller.                                  *)
Settle(p, mode) == proc' = [proc EXCEPT ![p] = [@ EXCEPT !.pc = "result", !.then = mode]]

Fail(p) == proc' = [proc EXCEPT ![p] = Idle]

(* A successful return: run and observe answer or look again until their    *)
(* wait is over, cancel answers.                                            *)
Return(p) ==
    \/ Fail(p)
    \/ /\ proc[p].cmd \in {"run", "observe"}
       /\ proc' = [proc EXCEPT ![p] =
              [Idle EXCEPT !.pc = "observe", !.cmd = proc[p].cmd, !.job = proc[p].job]]

----------------------------------------------------------------------------
(* A command starts by recovering orphans whose late result has arrived.    *)

Start(p, cmd, j) ==
    /\ At(p, "idle")
    /\ cmd \in Commands
    /\ cmd \in {"observe", "cancel"} => Exists(j)
    /\ proc' = [proc EXCEPT ![p] =
           [Idle EXCEPT !.pc = "sweep", !.cmd = cmd,
                        !.job = IF cmd \in {"observe", "cancel"} THEN j ELSE NoJob]]
    /\ Quiet

Recoverable(j) ==
    /\ reservations[j] = "held_orphaned"
    /\ HasResult(j)
    /\ ~OrphanTreeAlive(j)

Sweep(p) ==
    /\ At(p, "sweep")
    /\ \/ \E j \in Jobs :
             /\ Recoverable(j)
             /\ files[j].result # "invalid"
             /\ IF files[j].out
                THEN proc' = [proc EXCEPT ![p] =
                         [@ EXCEPT !.pc = "sweep_commit", !.orphan = j,
                                   !.ver = rowVersion[j], !.verdict = files[j].result]]
                ELSE Fail(p)
       \/ /\ \A j \in Jobs : Recoverable(j) => files[j].result = "invalid"
          /\ CASE proc[p].cmd = "run"     -> Goto(p, "submit")
               [] proc[p].cmd = "observe" -> Goto(p, "observe")
               [] proc[p].cmd = "cancel"  -> Goto(p, "cancel")
               [] OTHER                   -> Fail(p)
    /\ Quiet

SweepCommit(p) ==
    LET j == proc[p].orphan
    IN  /\ At(p, "sweep_commit")
        /\ \/ /\ RecoverOrphanedTerminal(j, proc[p].verdict, "runner", RunnerArtifacts,
                                         proc[p].ver)
              /\ proc' = [proc EXCEPT ![p] =
                     [Idle EXCEPT !.pc = "sweep", !.cmd = proc[p].cmd, !.job = proc[p].job]]
           \/ /\ RecoverOrphanedOutcome(j, RunnerArtifacts, proc[p].ver) # "ok"
              /\ Fail(p)
              /\ UNCHANGED regVars
        /\ UNCHANGED envVars

----------------------------------------------------------------------------
(* run_task: admission, bundle, dispatch, launch.                           *)

SubmitStep(p) ==
    /\ At(p, "submit")
    /\ \E k \in Keys, op \in Operations, ws \in Workspaces, limit \in GlobalLimits :
          \/ \E j \in Jobs :
                /\ Submit(j, k, op, ws, limit)
                /\ proc' = [proc EXCEPT ![p] =
                       [@ EXCEPT !.pc = "materialize", !.job = j, !.ver = 0]]
          \/ /\ SubmitOutcome(k, op, ws, limit) = "Existing"
             /\ proc' = [proc EXCEPT ![p] =
                    [@ EXCEPT !.pc = "observe", !.job = idempotency[k]]]
             /\ UNCHANGED regVars
          \/ /\ SubmitOutcome(k, op, ws, limit) \in {"IdempotencyConflict", "ConcurrencyLimit"}
             /\ Fail(p)
             /\ UNCHANGED regVars
    /\ UNCHANGED envVars

(* The snapshot must still be the row the caller read.                      *)
Materialize(p) ==
    /\ At(p, "materialize")
    /\ IF rowVersion[Job(p)] = proc[p].ver THEN Goto(p, "stage") ELSE Fail(p)
    /\ Quiet

(* Stale staging directories and an existing bundle are removed, whoever    *)
(* made them.                                                               *)
Stage(p) ==
    /\ At(p, "stage")
    /\ staging' = [staging EXCEPT ![Job(p)] = {p}]
    /\ bundle' = [bundle EXCEPT ![Job(p)] = "none"]
    /\ files' = [files EXCEPT ![Job(p)] = NoFiles]
    /\ Goto(p, "rename")
    /\ UNCHANGED <<regVars, launch, launches, unit, runner, decision, grace, crashes, kills>>

Rename(p) ==
    /\ At(p, "rename")
    /\ IF p \in staging[Job(p)] /\ bundle[Job(p)] = "none"
       THEN /\ staging' = [staging EXCEPT ![Job(p)] = @ \ {p}]
            /\ bundle' = [bundle EXCEPT ![Job(p)] = "ready"]
            /\ Goto(p, "ready")
       ELSE /\ Fail(p)
            /\ UNCHANGED <<staging, bundle>>
    /\ UNCHANGED <<regVars, files, launch, launches, unit, runner, decision, grace, crashes,
                   kills>>

Ready(p) ==
    /\ At(p, "ready")
    /\ \/ /\ MarkBundleReady(Job(p), proc[p].ver)
          /\ GotoAt(p, "dispatch", proc[p].ver + 1)
       \/ /\ MarkBundleReadyOutcome(Job(p), proc[p].ver) # "ok"
          /\ Fail(p)
          /\ UNCHANGED regVars
    /\ UNCHANGED envVars

(* Dispatch is committed before the launch, so that no restart repeats it.  *)
Dispatch(p) ==
    /\ At(p, "dispatch")
    /\ \/ /\ MarkDispatchIssued(Job(p), proc[p].ver)
          /\ GotoAt(p, "launch", proc[p].ver + 1)
       \/ /\ MarkDispatchIssuedOutcome(Job(p), proc[p].ver) # "ok"
          /\ Fail(p)
          /\ UNCHANGED regVars
    /\ UNCHANGED envVars

(* systemd-run is a child process: it goes on if its caller is killed.      *)
Launch(p) ==
    /\ At(p, "launch")
    /\ IF bundle[Job(p)] = "none"
       THEN Fail(p) /\ UNCHANGED launch
       ELSE /\ launch' = [launch EXCEPT ![Job(p)] = "requested"]
            /\ Goto(p, "launching")
    /\ UNCHANGED <<regVars, bundle, staging, files, launches, unit, runner, decision, grace,
                   crashes, kills>>

Launching(p) ==
    /\ At(p, "launching")
    /\ \/ launch[Job(p)] = "started" /\ Goto(p, "await")
       \/ launch[Job(p)] = "failed" /\ Decide(p, "control", "failed")
    /\ Quiet

(* await_launch_evidence: a result wins over start evidence; the deadline   *)
(* is only looked at when neither file is there.                            *)
Await(p) ==
    /\ At(p, "await")
    /\ IF HasResult(Job(p)) THEN Settle(p, "quarantine")
       ELSE IF files[Job(p)].start THEN Goto(p, "bind_launched")
       ELSE Goto(p, "reconcile")
    /\ Quiet

----------------------------------------------------------------------------
(* bind_runner_start: the unit systemd shows must be the one the start      *)
(* evidence names, with a live main process.  Only the launching command    *)
(* falls back on a result when the unit is already gone.                    *)

BindObserve(p) ==
    /\ At(p, "bind_launched") \/ At(p, "bind")
    /\ IF files[Job(p)].start /\ unit[Job(p)] # "none" /\ Alive(Job(p))
       THEN Goto(p, IF At(p, "bind") THEN "bind_commit" ELSE "bind_launched_commit")
       ELSE IF At(p, "bind_launched") /\ files[Job(p)].start /\ HasResult(Job(p))
            THEN Settle(p, "quarantine")
            ELSE Fail(p)
    /\ Quiet

BindCommit(p) ==
    /\ At(p, "bind_launched_commit") \/ At(p, "bind_commit")
    /\ \/ /\ BindRunning(Job(p), proc[p].ver)
          /\ IF At(p, "bind_commit") /\ HasResult(Job(p))
             THEN Settle(p, "quarantine") ELSE Return(p)
       \/ /\ BindRunningOutcome(Job(p), proc[p].ver) # "ok"
          /\ Fail(p)
          /\ UNCHANGED regVars
    /\ UNCHANGED envVars

----------------------------------------------------------------------------
(* reconcile_job and reconcile_attempt                                      *)

Observe(p) ==
    LET j == Job(p)
    IN  /\ At(p, "observe")
        /\ IF Resolved(j)
           THEN IF jobs[j].resolution = "orphaned" THEN Goto(p, "recover") ELSE Return(p)
           ELSE IF attempts[j].state = "accepted"
           THEN GotoAt(p, IF attempts[j].bundle = "none" THEN "materialize" ELSE "dispatch",
                       rowVersion[j])
           ELSE Goto(p, "reconcile")
        /\ Quiet

Reconcile(p) ==
    LET j == Job(p)
    IN  /\ At(p, "reconcile")
        /\ IF IsTerminal(attempts[j].state) THEN Return(p)
           ELSE IF HasResult(j) THEN Settle(p, "quarantine")
           ELSE IF attempts[j].state = "starting"
           THEN GotoAt(p, IF files[j].start THEN "bind" ELSE "starting_probe", rowVersion[j])
           ELSE IF attempts[j].identity = "none" THEN Fail(p)
           ELSE proc' = [proc EXCEPT ![p] =
                    [@ EXCEPT !.pc = "bound_probe", !.intent = attempts[j].intent]]
        /\ Quiet

(* Mutant: a dispatch with no trace is dispatched again. *)
StartingProbe_Redispatches(p) ==
    /\ At(p, "starting_probe")
    /\ IF ~grace[Job(p)] THEN Return(p)
       ELSE IF UnitIsActive(Job(p)) THEN Decide(p, "control", "orphaned")
       ELSE Goto(p, "launch")
    /\ Quiet

(* Mutant: a dispatch with no trace is waited for without end. *)
StartingProbe_Waits(p) ==
    /\ At(p, "starting_probe")
    /\ IF ~grace[Job(p)] \/ ~UnitIsActive(Job(p)) THEN Return(p)
       ELSE Decide(p, "control", "orphaned")
    /\ Quiet

(* reconcile_starting_without_token *)
StartingProbe(p) ==
    /\ At(p, "starting_probe")
    /\ IF ~grace[Job(p)] THEN Return(p)
       ELSE Decide(p, "control", IF UnitIsActive(Job(p)) THEN "orphaned" ELSE "lost")
    /\ Quiet

(* reconcile_bound_attempt: the unit is observed first, then the result     *)
(* file is looked for again, and only then is the observation believed.     *)
BoundProbe(p) ==
    /\ At(p, "bound_probe")
    /\ Decide(p, "bound_decide", Classify(Job(p), proc[p].intent))
    /\ Quiet

(* Mutant: the observation is believed without looking for a result again. *)
BoundDecide_NoRecheck(p) ==
    /\ At(p, "bound_decide")
    /\ IF proc[p].verdict = "running" THEN Return(p)
       ELSE proc' = [proc EXCEPT ![p] =
                [@ EXCEPT !.pc = "control",
                          !.then = IF proc[p].verdict = "orphaned" THEN "recover"
                                   ELSE "return"]]
    /\ Quiet

BoundDecide(p) ==
    /\ At(p, "bound_decide")
    /\ IF HasResult(Job(p)) THEN Settle(p, "quarantine")
       ELSE IF proc[p].verdict = "running" THEN Return(p)
       ELSE proc' = [proc EXCEPT ![p] =
                [@ EXCEPT !.pc = "control",
                          !.then = IF proc[p].verdict = "orphaned" THEN "recover"
                                   ELSE "return"]]
    /\ Quiet

----------------------------------------------------------------------------
(* commit_runner_result: the terminal state the Runner reported.            *)

(* What happens to a result that cannot be accepted: quarantined as an      *)
(* orphan, except by a cancel that waits for the result itself.             *)
Reject(p) ==
    IF proc[p].then = "quarantine"
    THEN proc' = [proc EXCEPT ![p] =
             [@ EXCEPT !.pc = "control", !.verdict = "orphaned", !.then = "return"]]
    ELSE Fail(p)

ReadResult(p) ==
    LET j == Job(p)
    IN  /\ At(p, "result")
        /\ IF attempts[j].state = "orphaned" THEN Goto(p, "recover")
           ELSE IF IsTerminal(attempts[j].state) THEN Return(p)
           ELSE IF files[j].result = "invalid" THEN Reject(p)
           ELSE IF ResultReadable(j) THEN Decide(p, "result_commit", files[j].result)
           ELSE Fail(p)
        /\ Quiet

(* Mutant: the captured output is not registered with the result. *)
ResultCommit_DropsOutput(p) ==
    LET out == CommitTerminalOutcome(Job(p), proc[p].verdict, "runner",
                                     {"execution_result"}, proc[p].ver)
    IN  /\ At(p, "result_commit")
        /\ \/ /\ CommitTerminal(Job(p), proc[p].verdict, "runner", {"execution_result"},
                                proc[p].ver)
              /\ Return(p)
           \/ /\ out # "ok" /\ Fail(p)
              /\ UNCHANGED regVars
        /\ UNCHANGED envVars

ResultCommit(p) ==
    LET out == CommitTerminalOutcome(Job(p), proc[p].verdict, "runner", RunnerArtifacts,
                                     proc[p].ver)
    IN  /\ At(p, "result_commit")
        /\ \/ /\ CommitTerminal(Job(p), proc[p].verdict, "runner", RunnerArtifacts,
                                proc[p].ver)
              /\ Return(p)
           \/ /\ out = "replay" /\ Return(p)
              /\ UNCHANGED regVars
           \/ /\ out \in {"ResultIdentityConflict", "ArtifactIdentityConflict"}
              /\ Reject(p)
              /\ UNCHANGED regVars
           \/ /\ out \in {"AttemptStateConflict", "JobAlreadyResolved"}
              /\ Fail(p)
              /\ UNCHANGED regVars
        /\ UNCHANGED envVars

(* commit_control_terminal: the row is read again, so a decision made from  *)
(* an older row is applied to the current one; the evidence file is written *)
(* before the commit.                                                       *)
Control(p) ==
    LET j == Job(p)
    IN  /\ At(p, "control")
        /\ IF IsTerminal(attempts[j].state)
           THEN Return(p) /\ UNCHANGED <<bundle, files>>
           ELSE /\ GotoAt(p, "control_commit", rowVersion[j])
                /\ bundle' = [bundle EXCEPT ![j] = IF @ = "none" THEN "empty" ELSE @]
                /\ files' = [files EXCEPT ![j] = [@ EXCEPT !.control = p]]
        /\ UNCHANGED <<regVars, staging, launch, launches, unit, runner, decision, grace,
                       crashes, kills>>

(* Mutant: output files are registered for an orphan too. *)
ControlRegisters_Always(p) ==
    {"control_result"} \cup (IF files[Job(p)].out THEN {"stdout", "stderr"} ELSE {})

(* An orphan's output is left unregistered: it may still be written, and    *)
(* belongs to the result that may still come.                               *)
ControlRegisters(p) ==
    {"control_result"}
        \cup (IF proc[p].verdict # "orphaned" /\ files[Job(p)].out
              THEN {"stdout", "stderr"} ELSE {})

ControlCommit(p) ==
    LET j == Job(p)
        arts == ControlRegisters(p)
    IN  /\ At(p, "control_commit")
        /\ \/ /\ CommitTerminal(j, proc[p].verdict, p, arts, proc[p].ver)
              /\ IF proc[p].then = "recover" /\ HasResult(j)
                 THEN Goto(p, "recover") ELSE Return(p)
           \/ /\ CommitTerminalOutcome(j, proc[p].verdict, p, arts, proc[p].ver) # "ok"
              /\ Fail(p)
              /\ UNCHANGED regVars
        /\ UNCHANGED envVars

(* recover_orphaned_runner_result *)
Recover(p) ==
    LET j == Job(p)
    IN  /\ At(p, "recover")
        /\ IF attempts[j].state # "orphaned" \/ ~HasResult(j) \/ OrphanTreeAlive(j)
           THEN Return(p)
           ELSE IF ResultValid(j) THEN Decide(p, "recover_commit", files[j].result)
           ELSE Fail(p)
        /\ Quiet

RecoverCommit(p) ==
    /\ At(p, "recover_commit")
    /\ \/ /\ RecoverOrphanedTerminal(Job(p), proc[p].verdict, "runner", RunnerArtifacts,
                                     proc[p].ver)
          /\ Return(p)
       \/ /\ RecoverOrphanedOutcome(Job(p), RunnerArtifacts, proc[p].ver) # "ok"
          /\ Fail(p)
          /\ UNCHANGED regVars
    /\ UNCHANGED envVars

----------------------------------------------------------------------------
(* cancel_task: intent, then the cancel file, then systemctl stop, then the *)
(* wait for a result or for the process tree to be gone.                    *)

Cancel(p) ==
    LET j == Job(p)
    IN  /\ At(p, "cancel")
        /\ \/ /\ RequestCancel(j)
              /\ IF attempts[j].state = "accepted" THEN Fail(p)
                 ELSE proc' = [proc EXCEPT ![p] =
                          [@ EXCEPT !.pc = "cancel_file", !.pid = attempts[j].identity]]
           \/ /\ RequestCancelOutcome(j) # "ok"
              /\ Fail(p)
              /\ UNCHANGED regVars
        /\ UNCHANGED envVars

CancelFile(p) ==
    LET j == Job(p)
    IN  /\ At(p, "cancel_file")
        /\ IF bundle[j] = "none"
           THEN Fail(p) /\ UNCHANGED files
           ELSE /\ files' = [files EXCEPT ![j] = [@ EXCEPT !.cancel = TRUE]]
                /\ Goto(p, "cancel_stop")
        /\ UNCHANGED <<regVars, bundle, staging, launch, launches, unit, runner, decision,
                       grace, crashes, kills>>

CancelStop(p) ==
    LET j == Job(p)
    IN  /\ At(p, "cancel_stop")
        /\ unit' = [unit EXCEPT ![j] = IF @ = "active" THEN "deactivating" ELSE @]
        /\ Goto(p, "cancel_wait")
        /\ UNCHANGED <<regVars, bundle, staging, files, launch, launches, runner, decision,
                       grace, crashes, kills>>

(* systemctl stop returns when the unit has stopped.                        *)
CancelWait(p) ==
    LET j == Job(p)
    IN  /\ At(p, "cancel_wait")
        /\ unit[j] # "deactivating"
        /\ IF HasResult(j) THEN Settle(p, "return")
           ELSE IF ~UnitIsActive(j) /\ ~(proc[p].pid = "recorded" /\ Alive(j))
           THEN Decide(p, "control", "cancelled")
           ELSE Goto(p, "reconcile")
        /\ Quiet

----------------------------------------------------------------------------
(* systemd and the Runner                                                   *)

ctlVars == <<regVars, proc, bundle, staging, grace, crashes>>

UnitStarts(j) ==
    /\ launch[j] = "requested"
    /\ launches[j] < MaxLaunches
    /\ launch' = [launch EXCEPT ![j] = "started"]
    /\ launches' = [launches EXCEPT ![j] = @ + 1]
    /\ unit' = [unit EXCEPT ![j] = "active"]
    /\ runner' = [runner EXCEPT ![j] = "launched"]
    /\ UNCHANGED <<ctlVars, files, decision, kills>>

UnitStartFails(j) ==
    /\ launch[j] = "requested"
    /\ launch' = [launch EXCEPT ![j] = "failed"]
    /\ UNCHANGED <<ctlVars, files, launches, unit, runner, decision, kills>>

(* The main process is gone: the unit is deactivating until it is collected. *)
RunnerGone(j) ==
    /\ runner' = [runner EXCEPT ![j] = "exited"]
    /\ unit' = [unit EXCEPT ![j] = "deactivating"]

(* run_task_runner without a readable request: no evidence at all.          *)
RunnerAborts(j) ==
    /\ runner[j] = "launched"
    /\ bundle[j] # "ready"
    /\ RunnerGone(j)
    /\ UNCHANGED <<ctlVars, files, launch, launches, decision, kills>>

RunnerStarts(j) ==
    /\ runner[j] = "launched"
    /\ bundle[j] = "ready"
    /\ runner' = [runner EXCEPT ![j] = "started"]
    /\ files' = [files EXCEPT ![j] = [@ EXCEPT !.start = TRUE]]
    /\ UNCHANGED <<ctlVars, launch, launches, unit, decision, kills>>

(* The target has ended: the cancel file decides before the exit status.    *)
(* An infrastructure failure, before or after the start evidence, is failed *)
(* whatever the cancel file says.                                           *)
RunnerDecides(j) ==
    /\ \/ /\ runner[j] = "started"
          /\ \E s \in IF files[j].cancel THEN {"cancelled", "failed"} ELSE RunnerVerdicts :
                decision' = [decision EXCEPT ![j] = s]
       \/ /\ runner[j] = "launched" /\ bundle[j] = "ready"
          /\ "failed" \in RunnerVerdicts
          /\ decision' = [decision EXCEPT ![j] = "failed"]
    /\ runner' = [runner EXCEPT ![j] = "decided"]
    /\ files' = [files EXCEPT ![j] = [@ EXCEPT !.out = bundle[j] # "none"]]
    /\ UNCHANGED <<ctlVars, launch, launches, unit, kills>>

RunnerWrites(j) ==
    /\ runner[j] = "decided"
    /\ bundle[j] # "none"
    /\ runner' = [runner EXCEPT ![j] = "written"]
    /\ files' = [files EXCEPT ![j] = [@ EXCEPT !.result = decision[j]]]
    /\ UNCHANGED <<ctlVars, launch, launches, unit, decision, kills>>

(* The process ends: after its result, because the result cannot be         *)
(* written, or because the stopping unit killed it.                         *)
RunnerExits(j) ==
    /\ \/ runner[j] = "written"
       \/ runner[j] = "decided" /\ bundle[j] = "none"
       \/ Alive(j) /\ unit[j] = "deactivating"
    /\ RunnerGone(j)
    /\ UNCHANGED <<ctlVars, files, launch, launches, decision, kills>>

UnitCollected(j) ==
    /\ unit[j] = "deactivating" /\ ~Alive(j)
    /\ unit' = [unit EXCEPT ![j] = "none"]
    /\ UNCHANGED <<ctlVars, files, launch, launches, runner, decision, kills>>

(* The process tree is killed from outside: out of memory, an operator.     *)
Kill(j) ==
    /\ Alive(j)
    /\ kills < MaxKills /\ kills' = kills + 1
    /\ RunnerGone(j)
    /\ UNCHANGED <<ctlVars, files, launch, launches, decision>>

GraceElapses(j) ==
    /\ Exists(j) /\ ~grace[j]
    /\ grace' = [grace EXCEPT ![j] = TRUE]
    /\ UNCHANGED <<regVars, proc, bundle, staging, files, launch, launches, unit, runner,
                   decision, crashes, kills>>

(* A control process is killed between two steps; its staging directory and *)
(* a systemd-run it started stay behind.                                    *)
Crash(p) ==
    /\ ~At(p, "idle")
    /\ crashes < MaxCrashes /\ crashes' = crashes + 1
    /\ Fail(p)
    /\ UNCHANGED <<regVars, bundle, staging, files, launch, launches, unit, runner, decision,
                   grace, kills>>

----------------------------------------------------------------------------
Step(p) ==
    \/ Sweep(p) \/ SweepCommit(p) \/ SubmitStep(p)
    \/ Materialize(p) \/ Stage(p) \/ Rename(p) \/ Ready(p)
    \/ Dispatch(p) \/ Launch(p) \/ Launching(p) \/ Await(p)
    \/ BindObserve(p) \/ BindCommit(p)
    \/ Observe(p) \/ Reconcile(p) \/ StartingProbe(p) \/ BoundProbe(p) \/ BoundDecide(p)
    \/ ReadResult(p) \/ ResultCommit(p) \/ Control(p) \/ ControlCommit(p)
    \/ Recover(p) \/ RecoverCommit(p)
    \/ Cancel(p) \/ CancelFile(p) \/ CancelStop(p) \/ CancelWait(p)

World(j) ==
    \/ UnitStarts(j) \/ UnitStartFails(j)
    \/ RunnerAborts(j) \/ RunnerStarts(j) \/ RunnerDecides(j) \/ RunnerWrites(j)
    \/ RunnerExits(j) \/ UnitCollected(j)

EngNext ==
    \/ \E p \in Procs, cmd \in Commands, j \in Jobs : Start(p, cmd, j)
    \/ \E p \in Procs : Step(p) \/ Crash(p)
    \/ \E j \in Jobs : World(j) \/ Kill(j) \/ GraceElapses(j)

EngSafety == EngInit /\ [][EngNext]_engVars

(* A command that runs gets on with it; systemd and the Runner make         *)
(* progress (the Runner enforces its own deadline and systemd RuntimeMaxSec);*)
(* time passes; and the client keeps polling a Job, as the poll hint of     *)
(* every answer asks it to.                                                 *)
EngFairness ==
    /\ \A p \in Procs : WF_engVars(Step(p))
    /\ \A j \in Jobs : WF_engVars(World(j)) /\ WF_engVars(GraceElapses(j))
    /\ \A j \in Jobs : SF_engVars(\E p \in Procs : Start(p, "observe", j))

EngSpec == EngSafety /\ EngFairness

----------------------------------------------------------------------------
(* Types *)

Labels ==
    {"idle", "sweep", "sweep_commit", "submit", "materialize", "stage", "rename", "ready",
     "dispatch", "launch", "launching", "await", "bind_launched", "bind_launched_commit",
     "bind", "bind_commit", "observe", "reconcile", "starting_probe", "bound_probe",
     "bound_decide", "result", "result_commit", "control", "control_commit", "recover",
     "recover_commit", "cancel", "cancel_file", "cancel_stop", "cancel_wait"}

(* Every process, file, unit and Runner is in a state the code knows.       *)
EngTypeOK ==
    /\ RegTypeOK
    /\ proc \in [Procs ->
           [pc : Labels, cmd : Commands \cup {"none"}, job : Jobs \cup {NoJob}, ver : Nat,
            verdict : Terminal \cup {"none", "running"},
            intent : {"natural", "stop_requested"}, pid : {"none", "recorded"},
            then : {"return", "recover", "quarantine"}, orphan : Jobs \cup {NoJob}]]
    /\ bundle \in [Jobs -> {"none", "empty", "ready"}]
    /\ staging \in [Jobs -> SUBSET Procs]
    /\ files \in [Jobs ->
           [start : BOOLEAN, out : BOOLEAN, cancel : BOOLEAN,
            result : RunnerVerdicts \cup {"none", "cancelled", "failed"},
            control : Procs \cup {"none"}]]
    /\ launch \in [Jobs -> {"none", "requested", "started", "failed"}]
    /\ launches \in [Jobs -> 0 .. MaxLaunches]
    /\ unit \in [Jobs -> {"none", "active", "deactivating"}]
    /\ runner \in [Jobs ->
           {"none", "launched", "started", "decided", "written", "exited"}]
    /\ decision \in [Jobs -> RunnerVerdicts \cup {"none", "cancelled", "failed"}]
    /\ grace \in [Jobs -> BOOLEAN]
    /\ crashes \in 0 .. MaxCrashes /\ kills \in 0 .. MaxKills

----------------------------------------------------------------------------
(* Safety *)

(* runtime_ambiguous_dispatch_is_lost_without_automatic_redispatch: however *)
(* commands interleave, crash and are repeated, at most one process tree is *)
(* ever started for a Job, and only after its dispatch was committed.       *)
AtMostOneLaunch ==
    \A j \in Jobs :
        /\ launches[j] <= 1
        /\ launch[j] # "none" => Occurrences(j, "DISPATCH_ISSUED") # {}


(* Whatever the interleaving, the engine uses the registry only as its      *)
(* interface allows: every behaviour of the engine is one of the registry's.*)
EngineObeysRegistry == RegSpec

(* runtime_fast_failures_never_race_into_lost, for an Attempt that was      *)
(* bound: once the Runner has left a result, the Job is not declared lost.  *)
BoundNeverLostWithResult ==
    \A j \in Jobs :
        attempts[j].identity = "recorded" /\ attempts[j].state = "lost" => ~ResultValid(j)

(* The same for every Attempt, bound or not.                                *)
(* The code does not guarantee this: see "Formulas that do not hold" in    *)
(* the README.                                                             *)
ResultNeverLost ==
    \A j \in Jobs : attempts[j].state = "lost" => ~ResultValid(j)

(* A process tree whose target may still run is paid for by its Job's       *)
(* reservation.                                                             *)
(* The code does not guarantee this: see "Formulas that do not hold" in    *)
(* the README.                                                             *)
LiveProcessHoldsCapacity ==
    \A j \in Jobs : runner[j] \in {"launched", "started"} => Holds(j)

(* The control evidence a terminal commit refers to by digest is the file   *)
(* on disk.                                                                 *)
(* The code does not guarantee this: see "Formulas that do not hold" in    *)
(* the README.                                                             *)
ControlEvidenceIntact ==
    \A j \in Jobs : attempts[j].result \in Procs => files[j].control = attempts[j].result

----------------------------------------------------------------------------
(* Liveness *)

(* runtime_core_restart_recovers_running_attempt_and_terminal_result: an    *)
(* admitted Job is eventually resolved, however often a control process is  *)
(* killed, as long as someone keeps observing it; unless its process tree   *)
(* was killed or it was asked to stop (see DeadAttemptSettles and           *)
(* StoppedResultSettles for these).                                         *)
EventuallyResolved ==
    \A j \in Jobs :
        Exists(j) ~> (Resolved(j) \/ kills > 0 \/ jobs[j].desired = "cancelled")

(* late_identity_bound_result_corrects_orphan_and_releases_capacity: an     *)
(* orphan whose valid result has arrived and whose process tree is gone     *)
(* gets its verdict and gives its capacity back.                            *)
LateResultRecovered ==
    \A j \in Jobs :
        (attempts[j].state = "orphaned" /\ ResultValid(j) /\ ~Alive(j))
            ~> reservations[j] = "released"

(* A Job whose stop was requested and whose Runner has left a valid result  *)
(* is eventually resolved.                                                  *)
(* The code does not guarantee this: see "Formulas that do not hold" in    *)
(* the README.                                                             *)
StoppedResultSettles ==
    \A j \in Jobs :
        (attempts[j].intent = "stop_requested" /\ ResultValid(j)) ~> Resolved(j)

(* A Job whose process tree was started and is gone is eventually resolved. *)
(* The code does not guarantee this: see "Formulas that do not hold" in    *)
(* the README.                                                             *)
DeadAttemptSettles ==
    \A j \in Jobs : (launches[j] > 0 /\ ~Alive(j)) ~> Resolved(j)

============================================================================
