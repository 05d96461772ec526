----------------------- MODULE RuntimeRegistryProofs -----------------------
(* Proofs about the registry for every number of Jobs, keys, workspaces,    *)
(* operations and results, and for every set of global limits.              *)
EXTENDS RuntimeRegistry, FiniteSetTheorems, TLAPS

(* What a transaction may write as a terminal state is an Attempt state.    *)
LEMMA TerminalStates ==
    /\ RunnerTerminal \subseteq Terminal
    /\ Terminal \subseteq AttemptStates
    /\ "orphaned" \in Terminal
    /\ \A s \in Terminal \ RunnerTerminal : s \in {"lost", "orphaned"}
BY DEF RunnerTerminal, Terminal, AttemptStates

(* The empty tables are well typed.                                         *)
LEMMA InitTypeOK == RegInit => RegTypeOK
<1> SUFFICES ASSUME RegInit PROVE RegTypeOK
  OBVIOUS
<1>1. AbsentJob \in JobRow
  BY DEF AbsentJob, JobRow
<1>2. AbsentAttempt \in AttemptRow
  BY DEF AbsentAttempt, AttemptRow
<1>3. <<>> \in Seq(EventRow)
  OBVIOUS
<1> QED
  BY <1>1, <1>2, <1>3 DEF RegInit, RegTypeOK

(* A log entry is a row of job_events.                                      *)
LEMMA EventTyped ==
    ASSUME NEW t \in EventTypes, NEW a \in AttemptStates \cup {None},
           NEW b \in AttemptStates \cup {None}
    PROVE  Event(t, a, b) \in EventRow
BY DEF Event, EventRow

(* A terminal commit writes a well-typed Attempt row.                       *)
LEMMA TerminalRowTyped ==
    ASSUME NEW r \in AttemptRow, NEW s \in Terminal, NEW d \in Results
    PROVE  [r EXCEPT !.state = s, !.result = d] \in AttemptRow
<1>1. s \in AttemptStates
  BY TerminalStates
<1> QED
  BY <1>1 DEF AttemptRow

(* Every operation writes rows of the declared columns.                     *)
LEMMA NextTypeOK == RegTypeOK /\ [RegNext]_regVars => RegTypeOK'
<1> SUFFICES ASSUME RegTypeOK, [RegNext]_regVars PROVE RegTypeOK'
  OBVIOUS
<1>j. jobs \in [Jobs -> JobRow]
  BY DEF RegTypeOK
<1>a. attempts \in [Jobs -> AttemptRow]
  BY DEF RegTypeOK
<1>o. /\ rowVersion \in [Jobs -> Nat]
      /\ reservations \in [Jobs -> {"none", "active", "held_orphaned", "released"}]
      /\ globalLimit \in [Jobs -> Nat]
      /\ idempotency \in [Keys -> Jobs \cup {NoJob}]
      /\ artifacts \in [Jobs -> SUBSET ArtifactKinds]
  BY DEF RegTypeOK
<1>e. events \in [Jobs -> Seq(EventRow)]
  BY DEF RegTypeOK
<1>v. RowVersions \subseteq Nat
  BY RegistryAssumption DEF RowVersions
<1>s. {"accepted", "starting", "running", "stopping", "recovering", "cancelled", "orphaned"}
         \subseteq AttemptStates
  BY DEF AttemptStates, Terminal, RunnerTerminal
<1>x. ASSUME NEW j \in Jobs, NEW e \in EventRow, events' = [events EXCEPT ![j] = Append(@, e)]
      PROVE  events' \in [Jobs -> Seq(EventRow)]
  BY <1>e, <1>x
<1>y. ASSUME NEW j \in Jobs, NEW e \in EventRow, NEW f \in EventRow,
             events' = [events EXCEPT ![j] = @ \o <<e, f>>]
      PROVE  events' \in [Jobs -> Seq(EventRow)]
  <2>1. <<e, f>> \in Seq(EventRow)
    OBVIOUS
  <2>2. events[j] \o <<e, f>> \in Seq(EventRow)
    BY <1>e, <2>1
  <2> QED
    BY <1>e, <1>y, <2>2
<1>1. ASSUME NEW j \in Jobs, NEW k \in Keys, NEW op \in Operations,
             NEW ws \in Workspaces, NEW limit \in GlobalLimits,
             Submit(j, k, op, ws, limit)
      PROVE  RegTypeOK'
  <2>1. attempts' \in [Jobs -> AttemptRow]
    BY <1>1, <1>a, <1>s DEF Submit, AttemptRow
  <2>2. jobs' \in [Jobs -> JobRow]
    BY <1>1, <1>j DEF Submit, JobRow
  <2>3. events' \in [Jobs -> Seq(EventRow)]
    <3> DEFINE e1 == Event("REQUEST_RECEIVED", None, None)
               e2 == Event("JOB_RECORD_CREATED", None, None)
               e3 == Event("ATTEMPT_CREATED", None, "accepted")
    <3>1. e1 \in EventRow /\ e2 \in EventRow /\ e3 \in EventRow
      BY <1>s, EventTyped DEF EventTypes
    <3>2. events' = [events EXCEPT ![j] = <<e1, e2, e3>>]
      BY <1>1 DEF Submit
    <3> HIDE DEF e1, e2, e3
    <3>3. <<e1, e2, e3>> \in Seq(EventRow)
      BY <3>1
    <3> QED
      BY <1>e, <3>2, <3>3
  <2>4. /\ rowVersion' \in [Jobs -> Nat]
        /\ reservations' \in [Jobs -> {"none", "active", "held_orphaned", "released"}]
        /\ globalLimit' \in [Jobs -> Nat]
        /\ idempotency' \in [Keys -> Jobs \cup {NoJob}]
        /\ artifacts' \in [Jobs -> SUBSET ArtifactKinds]
    BY <1>1, <1>o, RegistryAssumption DEF Submit
  <2> QED
    BY <2>1, <2>2, <2>3, <2>4 DEF RegTypeOK
<1>2. ASSUME NEW j \in Jobs, NEW v \in RowVersions,
             MarkBundleReady(j, v)
      PROVE  RegTypeOK'
  <2>1. attempts' \in [Jobs -> AttemptRow]
    BY <1>2, <1>a DEF MarkBundleReady, AttemptRow
  <2>2. jobs' \in [Jobs -> JobRow]
    BY <1>2, <1>j DEF MarkBundleReady, JobRow
  <2>3. events' \in [Jobs -> Seq(EventRow)]
    <3>1. Event("BUNDLE_READY", "accepted", "accepted") \in EventRow
      BY <1>2, <1>s, EventTyped DEF EventTypes
    <3> QED
      BY <1>2, <1>x, <3>1 DEF MarkBundleReady
  <2>4. /\ rowVersion' \in [Jobs -> Nat]
        /\ reservations' \in [Jobs -> {"none", "active", "held_orphaned", "released"}]
        /\ globalLimit' \in [Jobs -> Nat]
        /\ idempotency' \in [Keys -> Jobs \cup {NoJob}]
        /\ artifacts' \in [Jobs -> SUBSET ArtifactKinds]
    BY <1>2, <1>o, <1>v DEF MarkBundleReady
  <2> QED
    BY <2>1, <2>2, <2>3, <2>4 DEF RegTypeOK
<1>3. ASSUME NEW j \in Jobs, NEW v \in RowVersions,
             MarkDispatchIssued(j, v)
      PROVE  RegTypeOK'
  <2>1. attempts' \in [Jobs -> AttemptRow]
    BY <1>3, <1>a, <1>s DEF MarkDispatchIssued, AttemptRow
  <2>2. jobs' \in [Jobs -> JobRow]
    BY <1>3, <1>j DEF MarkDispatchIssued, JobRow
  <2>3. events' \in [Jobs -> Seq(EventRow)]
    <3>1. Event("DISPATCH_ISSUED", "accepted", "starting") \in EventRow
      BY <1>3, <1>s, EventTyped DEF EventTypes
    <3> QED
      BY <1>3, <1>x, <3>1 DEF MarkDispatchIssued
  <2>4. /\ rowVersion' \in [Jobs -> Nat]
        /\ reservations' \in [Jobs -> {"none", "active", "held_orphaned", "released"}]
        /\ globalLimit' \in [Jobs -> Nat]
        /\ idempotency' \in [Keys -> Jobs \cup {NoJob}]
        /\ artifacts' \in [Jobs -> SUBSET ArtifactKinds]
    BY <1>3, <1>o, <1>v DEF MarkDispatchIssued
  <2> QED
    BY <2>1, <2>2, <2>3, <2>4 DEF RegTypeOK
<1>4. ASSUME NEW j \in Jobs, NEW v \in RowVersions,
             BindRunning(j, v)
      PROVE  RegTypeOK'
  <2>1. attempts' \in [Jobs -> AttemptRow]
    BY <1>4, <1>a, <1>s DEF BindRunning, AttemptRow
  <2>2. jobs' \in [Jobs -> JobRow]
    BY <1>4, <1>j DEF BindRunning, JobRow
  <2>3. events' \in [Jobs -> Seq(EventRow)]
    <3>1. Event("RUNNER_BOUND", attempts[j].state, "running") \in EventRow
      BY <1>4, <1>s, EventTyped DEF EventTypes, BindRunning, BindRunningOutcome
    <3> QED
      BY <1>4, <1>x, <3>1 DEF BindRunning
  <2>4. /\ rowVersion' \in [Jobs -> Nat]
        /\ reservations' \in [Jobs -> {"none", "active", "held_orphaned", "released"}]
        /\ globalLimit' \in [Jobs -> Nat]
        /\ idempotency' \in [Keys -> Jobs \cup {NoJob}]
        /\ artifacts' \in [Jobs -> SUBSET ArtifactKinds]
    BY <1>4, <1>o, <1>v DEF BindRunning
  <2> QED
    BY <2>1, <2>2, <2>3, <2>4 DEF RegTypeOK
<1>5. ASSUME NEW j \in Jobs,
             CancelAccepted(j)
      PROVE  RegTypeOK'
  <2>1. attempts' \in [Jobs -> AttemptRow]
    BY <1>5, <1>a, <1>s DEF CancelAccepted, AttemptRow
  <2>2. jobs' \in [Jobs -> JobRow]
    BY <1>5, <1>j DEF CancelAccepted, JobRow, Terminal, RunnerTerminal
  <2>3. events' \in [Jobs -> Seq(EventRow)]
    <3>1. Event("STOP_REQUESTED", "accepted", "cancelled") \in EventRow
      BY <1>5, <1>s, EventTyped DEF EventTypes
    <3> QED
      BY <1>5, <1>x, <3>1 DEF CancelAccepted
  <2>4. /\ rowVersion' \in [Jobs -> Nat]
        /\ reservations' \in [Jobs -> {"none", "active", "held_orphaned", "released"}]
        /\ globalLimit' \in [Jobs -> Nat]
        /\ idempotency' \in [Keys -> Jobs \cup {NoJob}]
        /\ artifacts' \in [Jobs -> SUBSET ArtifactKinds]
    BY <1>5, <1>o DEF CancelAccepted
  <2> QED
    BY <2>1, <2>2, <2>3, <2>4 DEF RegTypeOK
<1>6. ASSUME NEW j \in Jobs,
             CancelDispatched(j)
      PROVE  RegTypeOK'
  <2>1. attempts' \in [Jobs -> AttemptRow]
    BY <1>6, <1>a, <1>s DEF CancelDispatched, AttemptRow
  <2>2. jobs' \in [Jobs -> JobRow]
    BY <1>6, <1>j DEF CancelDispatched, JobRow
  <2>3. events' \in [Jobs -> Seq(EventRow)]
    <3>1. Event("STOP_REQUESTED", attempts[j].state, "stopping") \in EventRow
      BY <1>6, <1>s, EventTyped DEF EventTypes, CancelDispatched
    <3> QED
      BY <1>6, <1>x, <3>1 DEF CancelDispatched
  <2>4. /\ rowVersion' \in [Jobs -> Nat]
        /\ reservations' \in [Jobs -> {"none", "active", "held_orphaned", "released"}]
        /\ globalLimit' \in [Jobs -> Nat]
        /\ idempotency' \in [Keys -> Jobs \cup {NoJob}]
        /\ artifacts' \in [Jobs -> SUBSET ArtifactKinds]
    BY <1>6, <1>o DEF CancelDispatched
  <2> QED
    BY <2>1, <2>2, <2>3, <2>4 DEF RegTypeOK
<1>7. ASSUME NEW j \in Jobs,
             CancelStopping(j)
      PROVE  RegTypeOK'
  <2>1. attempts' \in [Jobs -> AttemptRow]
    BY <1>7, <1>a DEF CancelStopping, AttemptRow
  <2>2. jobs' \in [Jobs -> JobRow]
    BY <1>7, <1>j DEF CancelStopping, JobRow
  <2>3. events' \in [Jobs -> Seq(EventRow)]
    BY <1>7, <1>e DEF CancelStopping
  <2>4. /\ rowVersion' \in [Jobs -> Nat]
        /\ reservations' \in [Jobs -> {"none", "active", "held_orphaned", "released"}]
        /\ globalLimit' \in [Jobs -> Nat]
        /\ idempotency' \in [Keys -> Jobs \cup {NoJob}]
        /\ artifacts' \in [Jobs -> SUBSET ArtifactKinds]
    BY <1>7, <1>o DEF CancelStopping
  <2> QED
    BY <2>1, <2>2, <2>3, <2>4 DEF RegTypeOK
<1>8. ASSUME NEW j \in Jobs, NEW v \in RowVersions, NEW s \in Terminal, NEW d \in Results,
             NEW arts \in {RunnerArtifacts} \cup ControlArtifacts,
             CommitTerminal(j, s, d, arts, v)
      PROVE  RegTypeOK'
  <2>1. attempts' \in [Jobs -> AttemptRow]
    BY <1>8, <1>a, TerminalRowTyped DEF CommitTerminal
  <2>2. jobs' \in [Jobs -> JobRow]
    BY <1>8, <1>j DEF CommitTerminal, JobRow
  <2>3. events' \in [Jobs -> Seq(EventRow)]
    <3>1. attempts[j].state \in AttemptStates
      BY <1>8, <1>a DEF CommitTerminal, Exists, AttemptRow
    <3>2. /\ Event("PROCESS_EXITED", attempts[j].state, s) \in EventRow
          /\ Event("JOB_TERMINAL", attempts[j].state, s) \in EventRow
      BY <3>1, EventTyped, TerminalStates DEF EventTypes
    <3> QED
      BY <1>8, <1>y, <3>2 DEF CommitTerminal
  <2>4. /\ rowVersion' \in [Jobs -> Nat]
        /\ reservations' \in [Jobs -> {"none", "active", "held_orphaned", "released"}]
        /\ globalLimit' \in [Jobs -> Nat]
        /\ idempotency' \in [Keys -> Jobs \cup {NoJob}]
        /\ artifacts' \in [Jobs -> SUBSET ArtifactKinds]
    BY <1>8, <1>o, <1>v DEF CommitTerminal, RunnerArtifacts, ControlArtifacts, ArtifactKinds
  <2> QED
    BY <2>1, <2>2, <2>3, <2>4 DEF RegTypeOK
<1>9. ASSUME NEW j \in Jobs, NEW v \in RowVersions, NEW s \in RunnerTerminal, NEW d \in Results,
             RecoverOrphanedTerminal(j, s, d, RunnerArtifacts, v)
      PROVE  RegTypeOK'
  <2>1. attempts' \in [Jobs -> AttemptRow]
    BY <1>9, <1>a, TerminalStates, TerminalRowTyped DEF RecoverOrphanedTerminal
  <2>2. jobs' \in [Jobs -> JobRow]
    BY <1>9, <1>j, TerminalStates DEF RecoverOrphanedTerminal, JobRow
  <2>3. events' \in [Jobs -> Seq(EventRow)]
    <3>1. /\ Event("RUNNER_RESULT_RECOVERED", "orphaned", s) \in EventRow
          /\ Event("JOB_RESOLUTION_CORRECTED", "orphaned", s) \in EventRow
      BY <1>s, EventTyped, TerminalStates DEF EventTypes
    <3> QED
      BY <1>9, <1>y, <3>1 DEF RecoverOrphanedTerminal
  <2>4. /\ rowVersion' \in [Jobs -> Nat]
        /\ reservations' \in [Jobs -> {"none", "active", "held_orphaned", "released"}]
        /\ globalLimit' \in [Jobs -> Nat]
        /\ idempotency' \in [Keys -> Jobs \cup {NoJob}]
        /\ artifacts' \in [Jobs -> SUBSET ArtifactKinds]
    BY <1>9, <1>o, <1>v DEF RecoverOrphanedTerminal, RunnerArtifacts, ArtifactKinds
  <2> QED
    BY <2>1, <2>2, <2>3, <2>4 DEF RegTypeOK
<1>10. CASE UNCHANGED regVars
  BY <1>10 DEF regVars, RegTypeOK
<1> QED
  BY <1>1, <1>2, <1>3, <1>4, <1>5, <1>6, <1>7, <1>8, <1>9, <1>10
     DEF RegNext, RequestCancel

(* The registry's tables hold rows of their declared columns, always.       *)
THEOREM RegistryTypeCorrect == RegSpec => []RegTypeOK
BY InitTypeOK, NextTypeOK, PTL DEF RegSpec

----------------------------------------------------------------------------
(* What the three tables say of one Job, strengthened until it is inductive:*)
(* a Job not yet admitted carries no stop request, and a stopping one does. *)
Row(i) ==
    /\ reservations[i] = ReservationFor(attempts[i].state)
    /\ jobs[i].resolution = IF IsTerminal(attempts[i].state)
                            THEN attempts[i].state ELSE None
    /\ jobs[i].current = "attempt" <=> attempts[i].state \in AttemptStates \ Terminal
    /\ jobs[i].desired = "cancelled" <=> attempts[i].intent = "stop_requested"
    /\ attempts[i].state = "absent" => attempts[i].intent = "natural"
    /\ attempts[i].state = "stopping" => attempts[i].intent = "stop_requested"

(* Every transaction keeps the three tables telling one story about a Job.  *)
LEMMA NextRow ==
    ASSUME RegTypeOK, [RegNext]_regVars, NEW i \in Jobs, Row(i)
    PROVE  Row(i)'
<1>j. jobs \in [Jobs -> JobRow]
  BY DEF RegTypeOK
<1>a. attempts \in [Jobs -> AttemptRow]
  BY DEF RegTypeOK
<1>r. reservations \in [Jobs -> {"none", "active", "held_orphaned", "released"}]
  BY DEF RegTypeOK
<1>1. ASSUME NEW j \in Jobs, NEW k \in Keys, NEW op \in Operations,
             NEW ws \in Workspaces, NEW limit \in GlobalLimits,
             Submit(j, k, op, ws, limit)
      PROVE  Row(i)'
  <2>1. CASE i = j
    BY <1>1, <2>1, <1>j, <1>a, <1>r
       DEF Submit, Exists, Row, ReservationFor, IsTerminal, AttemptStates,
           Terminal, RunnerTerminal, AttemptRow, JobRow
  <2>2. CASE i # j
    BY <1>1, <2>2, <1>j, <1>a, <1>r DEF Submit, Row
  <2> QED
    BY <2>1, <2>2
<1>2. ASSUME NEW j \in Jobs, NEW v \in RowVersions,
             MarkBundleReady(j, v)
      PROVE  Row(i)'
  <2>1. CASE i = j
    BY <1>2, <2>1, <1>j, <1>a, <1>r
       DEF MarkBundleReady, Row, ReservationFor, IsTerminal, AttemptStates,
           Terminal, RunnerTerminal, AttemptRow, JobRow
  <2>2. CASE i # j
    BY <1>2, <2>2, <1>j, <1>a, <1>r DEF MarkBundleReady, Row
  <2> QED
    BY <2>1, <2>2
<1>3. ASSUME NEW j \in Jobs, NEW v \in RowVersions,
             MarkDispatchIssued(j, v)
      PROVE  Row(i)'
  <2>1. CASE i = j
    BY <1>3, <2>1, <1>j, <1>a, <1>r
       DEF MarkDispatchIssued, MarkDispatchIssuedOutcome, Row, ReservationFor, IsTerminal, AttemptStates,
           Terminal, RunnerTerminal, AttemptRow, JobRow
  <2>2. CASE i # j
    BY <1>3, <2>2, <1>j, <1>a, <1>r DEF MarkDispatchIssued, Row
  <2> QED
    BY <2>1, <2>2
<1>4. ASSUME NEW j \in Jobs, NEW v \in RowVersions,
             BindRunning(j, v)
      PROVE  Row(i)'
  <2>1. CASE i = j
    BY <1>4, <2>1, <1>j, <1>a, <1>r
       DEF BindRunning, BindRunningOutcome, Row, ReservationFor, IsTerminal, AttemptStates,
           Terminal, RunnerTerminal, AttemptRow, JobRow
  <2>2. CASE i # j
    BY <1>4, <2>2, <1>j, <1>a, <1>r DEF BindRunning, Row
  <2> QED
    BY <2>1, <2>2
<1>5. ASSUME NEW j \in Jobs,
             CancelAccepted(j)
      PROVE  Row(i)'
  <2>1. CASE i = j
    BY <1>5, <2>1, <1>j, <1>a, <1>r
       DEF CancelAccepted, Row, ReservationFor, IsTerminal, AttemptStates,
           Terminal, RunnerTerminal, AttemptRow, JobRow
  <2>2. CASE i # j
    BY <1>5, <2>2, <1>j, <1>a, <1>r DEF CancelAccepted, Row
  <2> QED
    BY <2>1, <2>2
<1>6. ASSUME NEW j \in Jobs,
             CancelDispatched(j)
      PROVE  Row(i)'
  <2>1. CASE i = j
    BY <1>6, <2>1, <1>j, <1>a, <1>r
       DEF CancelDispatched, Row, ReservationFor, IsTerminal, AttemptStates,
           Terminal, RunnerTerminal, AttemptRow, JobRow
  <2>2. CASE i # j
    BY <1>6, <2>2, <1>j, <1>a, <1>r DEF CancelDispatched, Row
  <2> QED
    BY <2>1, <2>2
<1>7. ASSUME NEW j \in Jobs,
             CancelStopping(j)
      PROVE  Row(i)'
  <2>1. CASE i = j
    BY <1>7, <2>1, <1>j, <1>a, <1>r
       DEF CancelStopping, Row, ReservationFor, IsTerminal, AttemptStates,
           Terminal, RunnerTerminal, AttemptRow, JobRow
  <2>2. CASE i # j
    BY <1>7, <2>2, <1>j, <1>a, <1>r DEF CancelStopping, Row
  <2> QED
    BY <2>1, <2>2
<1>8. ASSUME NEW j \in Jobs, NEW v \in RowVersions, NEW s \in Terminal, NEW d \in Results,
             NEW arts \in {RunnerArtifacts} \cup ControlArtifacts,
             CommitTerminal(j, s, d, arts, v)
      PROVE  Row(i)'
  <2>1. CASE i = j
    BY <1>8, <2>1, <1>j, <1>a, <1>r
       DEF CommitTerminal, CommitTerminalOutcome, Exists, Row, ReservationFor, IsTerminal, AttemptStates,
           Terminal, RunnerTerminal, AttemptRow, JobRow
  <2>2. CASE i # j
    BY <1>8, <2>2, <1>j, <1>a, <1>r DEF CommitTerminal, Row
  <2> QED
    BY <2>1, <2>2
<1>9. ASSUME NEW j \in Jobs, NEW v \in RowVersions, NEW s \in RunnerTerminal, NEW d \in Results,
             RecoverOrphanedTerminal(j, s, d, RunnerArtifacts, v)
      PROVE  Row(i)'
  <2>1. CASE i = j
    BY <1>9, <2>1, <1>j, <1>a, <1>r
       DEF RecoverOrphanedTerminal, RecoverOrphanedOutcome, Row, ReservationFor, IsTerminal, AttemptStates,
           Terminal, RunnerTerminal, AttemptRow, JobRow
  <2>2. CASE i # j
    BY <1>9, <2>2, <1>j, <1>a, <1>r DEF RecoverOrphanedTerminal, Row
  <2> QED
    BY <2>1, <2>2
<1>10. CASE UNCHANGED regVars
  BY <1>10 DEF regVars, Row
<1> QED
  BY <1>1, <1>2, <1>3, <1>4, <1>5, <1>6, <1>7, <1>8, <1>9, <1>10
     DEF RegNext, RequestCancel

(* Every step but an admission leaves admission data alone and takes no      *)
(* capacity.                                                                *)
Kept ==
    /\ \A i \in Jobs :
          /\ jobs'[i].key = jobs[i].key
          /\ jobs'[i].workspace = jobs[i].workspace
          /\ Exists(i)' <=> Exists(i)
          /\ Holds(i)' => Holds(i)
    /\ idempotency' = idempotency
    /\ globalLimit' = globalLimit

(* The only step that takes capacity or binds a key.                        *)
Admitted ==
    \E j \in Jobs, k \in Keys, op \in Operations, ws \in Workspaces, limit \in GlobalLimits :
        Submit(j, k, op, ws, limit)

(* A step either admits a Job or keeps every key, workspace and limit and   *)
(* takes no capacity; a terminal commit finds its Job holding capacity.     *)
LEMMA KeptOrAdmitted ==
    ASSUME RegTypeOK, \A i \in Jobs : Row(i), [RegNext]_regVars
    PROVE  Kept \/ Admitted
<1>j. jobs \in [Jobs -> JobRow]
  BY DEF RegTypeOK
<1>a. attempts \in [Jobs -> AttemptRow]
  BY DEF RegTypeOK
<1>r. reservations \in [Jobs -> {"none", "active", "held_orphaned", "released"}]
  BY DEF RegTypeOK
<1>2. ASSUME NEW j \in Jobs, NEW v \in RowVersions,
             MarkBundleReady(j, v)
      PROVE  Kept
  BY <1>2, <1>j, <1>a, <1>r
     DEF MarkBundleReady, Kept, Holds, Exists, JobRow, AttemptRow
<1>3. ASSUME NEW j \in Jobs, NEW v \in RowVersions,
             MarkDispatchIssued(j, v)
      PROVE  Kept
  BY <1>3, <1>j, <1>a, <1>r
     DEF MarkDispatchIssued, MarkDispatchIssuedOutcome, Kept, Holds, Exists, JobRow, AttemptRow
<1>4. ASSUME NEW j \in Jobs, NEW v \in RowVersions,
             BindRunning(j, v)
      PROVE  Kept
  BY <1>4, <1>j, <1>a, <1>r
     DEF BindRunning, BindRunningOutcome, Kept, Holds, Exists, JobRow, AttemptRow
<1>5. ASSUME NEW j \in Jobs,
             CancelAccepted(j)
      PROVE  Kept
  BY <1>5, <1>j, <1>a, <1>r
     DEF CancelAccepted, Kept, Holds, Exists, JobRow, AttemptRow
<1>6. ASSUME NEW j \in Jobs,
             CancelDispatched(j)
      PROVE  Kept
  BY <1>6, <1>j, <1>a, <1>r
     DEF CancelDispatched, Kept, Holds, Exists, JobRow, AttemptRow
<1>7. ASSUME NEW j \in Jobs,
             CancelStopping(j)
      PROVE  Kept
  BY <1>7, <1>j, <1>a, <1>r
     DEF CancelStopping, Kept, Holds, Exists, JobRow, AttemptRow
<1>8. ASSUME NEW j \in Jobs, NEW v \in RowVersions, NEW s \in Terminal, NEW d \in Results,
             NEW arts \in {RunnerArtifacts} \cup ControlArtifacts,
             CommitTerminal(j, s, d, arts, v)
      PROVE  Kept
  BY <1>8, <1>j, <1>a, <1>r
     DEF CommitTerminal, CommitTerminalOutcome, Exists, Kept, Holds, JobRow, AttemptRow, Row, ReservationFor, AttemptStates, IsTerminal, Terminal, RunnerTerminal
<1>9. ASSUME NEW j \in Jobs, NEW v \in RowVersions, NEW s \in RunnerTerminal, NEW d \in Results,
             RecoverOrphanedTerminal(j, s, d, RunnerArtifacts, v)
      PROVE  Kept
  BY <1>9, <1>j, <1>a, <1>r
     DEF RecoverOrphanedTerminal, RecoverOrphanedOutcome, Kept, Holds, Exists, JobRow, AttemptRow, Terminal, RunnerTerminal
<1>10. CASE UNCHANGED regVars
  BY <1>10 DEF regVars, Kept, Holds, Exists
<1> QED
  BY <1>2, <1>3, <1>4, <1>5, <1>6, <1>7, <1>8, <1>9, <1>10
     DEF RegNext, RequestCancel, Admitted

(* Only finitely many Jobs hold capacity, so they can be counted.           *)
LEMMA HoldersFinite == IsFiniteSet(Holders)
<1>1. Holders \subseteq Jobs
  BY DEF Holders
<1> QED
  BY <1>1, FS_Subset, RegistryAssumption

(* submit counts the holders of the workspace in the same transaction.      *)
LEMMA NextSerialised ==
    ASSUME RegTypeOK, \A i \in Jobs : Row(i), WorkspaceSerialised, [RegNext]_regVars
    PROVE  WorkspaceSerialised'
<1>1. CASE Kept
  BY <1>1 DEF Kept, WorkspaceSerialised, Holders
<1>2. ASSUME NEW j \in Jobs, NEW k \in Keys, NEW op \in Operations,
             NEW ws \in Workspaces, NEW limit \in GlobalLimits,
             Submit(j, k, op, ws, limit)
      PROVE  WorkspaceSerialised'
  <2>1. HoldersOf(ws) = {}
    <3>1. HoldersOf(ws) \subseteq Holders
      BY DEF HoldersOf
    <3>2. IsFiniteSet(HoldersOf(ws))
      BY <3>1, HoldersFinite, FS_Subset
    <3>3. Cardinality(HoldersOf(ws)) \in Nat
      BY <3>2, FS_CardinalityType
    <3>4. ~(Cardinality(HoldersOf(ws)) >= WorkspaceExecutionLimit)
      BY <1>2 DEF Submit, SubmitOutcome
    <3>5. Cardinality(HoldersOf(ws)) = 0
      BY <3>3, <3>4 DEF WorkspaceExecutionLimit
    <3> QED
      BY <3>2, <3>5, FS_EmptySet
  <2>2. /\ jobs' = [jobs EXCEPT ![j] =
              [key |-> k, operation |-> op, workspace |-> ws,
               desired |-> "run", resolution |-> None, current |-> "attempt"]]
        /\ reservations' = [reservations EXCEPT ![j] = "active"]
    BY <1>2 DEF Submit
  <2>3. /\ jobs'[j].workspace = ws
        /\ \A i \in Jobs : i # j => jobs'[i] = jobs[i] /\ reservations'[i] = reservations[i]
    BY <2>2 DEF RegTypeOK
  <2> QED
    BY <2>1, <2>3 DEF WorkspaceSerialised, Holders, HoldersOf, Holds
<1> QED
  BY <1>1, <1>2, KeptOrAdmitted DEF Admitted

(* submit counts all holders in the same transaction: a set of holders with *)
(* the new Job in it is no larger than the limit the new Job was admitted under.*)
LEMMA NextCapacity ==
    ASSUME RegTypeOK, \A i \in Jobs : Row(i), GlobalCapacity, [RegNext]_regVars
    PROVE  GlobalCapacity'
<1>1. CASE Kept
  <2>1. Holders' \subseteq Holders
    BY <1>1 DEF Kept, Holders
  <2> QED
    BY <1>1, <2>1 DEF Kept, GlobalCapacity
<1>2. ASSUME NEW j \in Jobs, NEW k \in Keys, NEW op \in Operations,
             NEW ws \in Workspaces, NEW limit \in GlobalLimits,
             Submit(j, k, op, ws, limit)
      PROVE  GlobalCapacity'
  <2>1. /\ reservations' = [reservations EXCEPT ![j] = "active"]
        /\ globalLimit' = [globalLimit EXCEPT ![j] = limit]
    BY <1>2 DEF Submit
  <2>2. /\ Holders' \subseteq Holders \cup {j}
        /\ globalLimit'[j] = limit
        /\ \A i \in Jobs : i # j => globalLimit'[i] = globalLimit[i]
    BY <2>1 DEF RegTypeOK, Holders, Holds
  <2>3. Cardinality(Holders) \in Nat /\ ~(Cardinality(Holders) >= limit) /\ limit \in Nat
    BY <1>2, HoldersFinite, FS_CardinalityType, RegistryAssumption DEF Submit, SubmitOutcome
  <2>4. /\ IsFiniteSet(Holders \cup {j})
        /\ Cardinality(Holders \cup {j}) \in Nat
        /\ Cardinality(Holders \cup {j}) <= Cardinality(Holders) + 1
    <3>1. /\ IsFiniteSet(Holders \cup {j})
          /\ \/ Cardinality(Holders \cup {j}) = Cardinality(Holders)
             \/ Cardinality(Holders \cup {j}) = Cardinality(Holders) + 1
      BY HoldersFinite, FS_AddElement, Zenon
    <3> QED
      BY <3>1, <2>3
  <2>5. SUFFICES ASSUME NEW S \in SUBSET Holders', S # {}
                 PROVE  \E i \in S : Cardinality(S) <= globalLimit'[i]
    BY DEF GlobalCapacity
  <2>6. CASE j \in S
    <3>1. S \subseteq Holders \cup {j}
      BY <2>2
    <3>2. Cardinality(S) \in Nat /\ Cardinality(S) <= Cardinality(Holders \cup {j})
      BY <3>1, <2>4, FS_Subset, FS_CardinalityType
    <3>3. Cardinality(S) <= limit
      BY <3>2, <2>3, <2>4
    <3> QED
      BY <2>6, <3>3, <2>2
  <2>7. CASE j \notin S
    <3>1. S \subseteq Holders
      BY <2>2, <2>7
    <3>2. PICK i \in S : Cardinality(S) <= globalLimit[i]
      BY <3>1, <2>5 DEF GlobalCapacity
    <3>3. i \in Jobs /\ i # j
      BY <3>1, <2>7 DEF Holders
    <3> QED
      BY <3>2, <3>3, <2>2
  <2> QED
    BY <2>6, <2>7
<1> QED
  BY <1>1, <1>2, KeptOrAdmitted DEF Admitted

(* submit looks the key up before it binds it.                              *)
LEMMA NextKeys ==
    ASSUME RegTypeOK, \A i \in Jobs : Row(i), OneJobPerKey, [RegNext]_regVars
    PROVE  OneJobPerKey'
<1>1. CASE Kept
  <2>1. idempotency \in [Keys -> Jobs \cup {NoJob}]
    BY DEF RegTypeOK
  <2> QED
    BY <1>1, <2>1 DEF Kept, OneJobPerKey
<1>2. ASSUME NEW j \in Jobs, NEW k \in Keys, NEW op \in Operations,
             NEW ws \in Workspaces, NEW limit \in GlobalLimits,
             Submit(j, k, op, ws, limit)
      PROVE  OneJobPerKey'
  <2>1. /\ attempts \in [Jobs -> AttemptRow]
        /\ jobs \in [Jobs -> JobRow]
        /\ idempotency \in [Keys -> Jobs \cup {NoJob}]
    BY DEF RegTypeOK
  <2>2. /\ attempts[j].state = "absent"
        /\ idempotency[k] = NoJob
    BY <1>2 DEF Submit, SubmitOutcome, Exists
  <2>3. /\ jobs'[j].key = k
        /\ attempts'[j].state = "accepted"
        /\ idempotency'[k] = j
        /\ \A i \in Jobs : i # j => jobs'[i] = jobs[i] /\ attempts'[i] = attempts[i]
        /\ \A l \in Keys : l # k => idempotency'[l] = idempotency[l]
    BY <1>2, <2>1 DEF Submit, AttemptRow
  <2>4. \A l \in Keys : l # k => idempotency[l] # j
    BY <2>2, RegistryAssumption DEF OneJobPerKey, Exists
  <2>6. ASSUME NEW l \in Keys, idempotency'[l] # NoJob
        PROVE  attempts'[idempotency'[l]].state # "absent" /\ jobs'[idempotency'[l]].key = l
    BY <2>1, <2>3, <2>4, <2>6 DEF OneJobPerKey, Exists
  <2>7. ASSUME NEW i \in Jobs, attempts'[i].state # "absent"
        PROVE  jobs'[i].key \in Keys /\ idempotency'[jobs'[i].key] = i
    <3>1. CASE i = j
      BY <3>1, <2>3
    <3>2. CASE i # j
      <4>1. jobs[i].key \in Keys /\ idempotency[jobs[i].key] = i
        BY <3>2, <2>3, <2>7 DEF OneJobPerKey, Exists
      <4>2. jobs[i].key # k
        BY <4>1, <2>2, RegistryAssumption
      <4> QED
        BY <3>2, <4>1, <4>2, <2>3
    <3> QED
      BY <3>1, <3>2
  <2> QED
    BY <2>6, <2>7 DEF OneJobPerKey, Exists
<1> QED
  BY <1>1, <1>2, KeptOrAdmitted DEF Admitted

(* No transaction rewrites a terminal Attempt, except the orphan correction.*)
LEMMA StepOnlyCorrects ==
    ASSUME RegTypeOK, NEW i \in Jobs, Row(i), [RegNext]_regVars
    PROVE  OnlyCorrected(i)
<1>j. jobs \in [Jobs -> JobRow]
  BY DEF RegTypeOK
<1>a. attempts \in [Jobs -> AttemptRow]
  BY DEF RegTypeOK
<1>r. reservations \in [Jobs -> {"none", "active", "held_orphaned", "released"}]
  BY DEF RegTypeOK
<1>1. ASSUME NEW j \in Jobs, NEW k \in Keys, NEW op \in Operations,
             NEW ws \in Workspaces, NEW limit \in GlobalLimits,
             Submit(j, k, op, ws, limit)
      PROVE  OnlyCorrected(i)
  <2>1. CASE i = j
    BY <1>1, <2>1, <1>j, <1>a, <1>r, RegistryAssumption
       DEF Submit, Exists, OnlyCorrected, Row, Resolved, ReservationFor,
           IsTerminal, AttemptStates, Terminal, RunnerTerminal, AttemptRow, JobRow
  <2>2. CASE i # j
    BY <1>1, <2>2, <1>j, <1>a, <1>r DEF Submit, OnlyCorrected
  <2> QED
    BY <2>1, <2>2
<1>2. ASSUME NEW j \in Jobs, NEW v \in RowVersions,
             MarkBundleReady(j, v)
      PROVE  OnlyCorrected(i)
  <2>1. CASE i = j
    BY <1>2, <2>1, <1>j, <1>a, <1>r, RegistryAssumption
       DEF MarkBundleReady, MarkBundleReadyOutcome, OnlyCorrected, Row, Resolved, ReservationFor,
           IsTerminal, AttemptStates, Terminal, RunnerTerminal, AttemptRow, JobRow
  <2>2. CASE i # j
    BY <1>2, <2>2, <1>j, <1>a, <1>r DEF MarkBundleReady, OnlyCorrected
  <2> QED
    BY <2>1, <2>2
<1>3. ASSUME NEW j \in Jobs, NEW v \in RowVersions,
             MarkDispatchIssued(j, v)
      PROVE  OnlyCorrected(i)
  <2>1. CASE i = j
    BY <1>3, <2>1, <1>j, <1>a, <1>r, RegistryAssumption
       DEF MarkDispatchIssued, MarkDispatchIssuedOutcome, OnlyCorrected, Row, Resolved, ReservationFor,
           IsTerminal, AttemptStates, Terminal, RunnerTerminal, AttemptRow, JobRow
  <2>2. CASE i # j
    BY <1>3, <2>2, <1>j, <1>a, <1>r DEF MarkDispatchIssued, OnlyCorrected
  <2> QED
    BY <2>1, <2>2
<1>4. ASSUME NEW j \in Jobs, NEW v \in RowVersions,
             BindRunning(j, v)
      PROVE  OnlyCorrected(i)
  <2>1. CASE i = j
    BY <1>4, <2>1, <1>j, <1>a, <1>r, RegistryAssumption
       DEF BindRunning, BindRunningOutcome, OnlyCorrected, Row, Resolved, ReservationFor,
           IsTerminal, AttemptStates, Terminal, RunnerTerminal, AttemptRow, JobRow
  <2>2. CASE i # j
    BY <1>4, <2>2, <1>j, <1>a, <1>r DEF BindRunning, OnlyCorrected
  <2> QED
    BY <2>1, <2>2
<1>5. ASSUME NEW j \in Jobs,
             CancelAccepted(j)
      PROVE  OnlyCorrected(i)
  <2>1. CASE i = j
    BY <1>5, <2>1, <1>j, <1>a, <1>r, RegistryAssumption
       DEF CancelAccepted, RequestCancelOutcome, OnlyCorrected, Row, Resolved, ReservationFor,
           IsTerminal, AttemptStates, Terminal, RunnerTerminal, AttemptRow, JobRow
  <2>2. CASE i # j
    BY <1>5, <2>2, <1>j, <1>a, <1>r DEF CancelAccepted, OnlyCorrected
  <2> QED
    BY <2>1, <2>2
<1>6. ASSUME NEW j \in Jobs,
             CancelDispatched(j)
      PROVE  OnlyCorrected(i)
  <2>1. CASE i = j
    BY <1>6, <2>1, <1>j, <1>a, <1>r, RegistryAssumption
       DEF CancelDispatched, RequestCancelOutcome, OnlyCorrected, Row, Resolved, ReservationFor,
           IsTerminal, AttemptStates, Terminal, RunnerTerminal, AttemptRow, JobRow
  <2>2. CASE i # j
    BY <1>6, <2>2, <1>j, <1>a, <1>r DEF CancelDispatched, OnlyCorrected
  <2> QED
    BY <2>1, <2>2
<1>7. ASSUME NEW j \in Jobs,
             CancelStopping(j)
      PROVE  OnlyCorrected(i)
  <2>1. CASE i = j
    BY <1>7, <2>1, <1>j, <1>a, <1>r, RegistryAssumption
       DEF CancelStopping, RequestCancelOutcome, OnlyCorrected, Row, Resolved, ReservationFor,
           IsTerminal, AttemptStates, Terminal, RunnerTerminal, AttemptRow, JobRow
  <2>2. CASE i # j
    BY <1>7, <2>2, <1>j, <1>a, <1>r DEF CancelStopping, OnlyCorrected
  <2> QED
    BY <2>1, <2>2
<1>8. ASSUME NEW j \in Jobs, NEW v \in RowVersions, NEW s \in Terminal, NEW d \in Results,
             NEW arts \in {RunnerArtifacts} \cup ControlArtifacts,
             CommitTerminal(j, s, d, arts, v)
      PROVE  OnlyCorrected(i)
  <2>1. CASE i = j
    BY <1>8, <2>1, <1>j, <1>a, <1>r, RegistryAssumption
       DEF CommitTerminal, CommitTerminalOutcome, Exists, OnlyCorrected, Row, Resolved, ReservationFor,
           IsTerminal, AttemptStates, Terminal, RunnerTerminal, AttemptRow, JobRow
  <2>2. CASE i # j
    BY <1>8, <2>2, <1>j, <1>a, <1>r DEF CommitTerminal, OnlyCorrected
  <2> QED
    BY <2>1, <2>2
<1>9. ASSUME NEW j \in Jobs, NEW v \in RowVersions, NEW s \in RunnerTerminal, NEW d \in Results,
             RecoverOrphanedTerminal(j, s, d, RunnerArtifacts, v)
      PROVE  OnlyCorrected(i)
  <2>1. CASE i = j
    BY <1>9, <2>1, <1>j, <1>a, <1>r, RegistryAssumption
       DEF RecoverOrphanedTerminal, RecoverOrphanedOutcome, OnlyCorrected, Row, Resolved, ReservationFor,
           IsTerminal, AttemptStates, Terminal, RunnerTerminal, AttemptRow, JobRow
  <2>2. CASE i # j
    BY <1>9, <2>2, <1>j, <1>a, <1>r DEF RecoverOrphanedTerminal, OnlyCorrected
  <2> QED
    BY <2>1, <2>2
<1>10. CASE UNCHANGED regVars
  BY <1>10 DEF regVars, OnlyCorrected
<1> QED
  BY <1>1, <1>2, <1>3, <1>4, <1>5, <1>6, <1>7, <1>8, <1>9, <1>10
     DEF RegNext, RequestCancel

(* The inductive invariant.                                                 *)
RegInv ==
    /\ RegTypeOK
    /\ \A i \in Jobs : Row(i)
    /\ WorkspaceSerialised
    /\ GlobalCapacity
    /\ OneJobPerKey

(* The empty registry satisfies it.                                         *)
LEMMA InitInv == RegInit => RegInv
<1> SUFFICES ASSUME RegInit PROVE RegInv
  OBVIOUS
<1>1. \A i \in Jobs : Row(i)
  BY DEF RegInit, Row, AbsentJob, AbsentAttempt, ReservationFor, IsTerminal, AttemptStates,
         Terminal, RunnerTerminal
<1>2. Holders = {}
  BY DEF RegInit, Holders, Holds
<1>3. WorkspaceSerialised /\ GlobalCapacity
  BY <1>2 DEF WorkspaceSerialised, GlobalCapacity
<1>4. OneJobPerKey
  BY DEF RegInit, OneJobPerKey, Exists, AbsentAttempt
<1> QED
  BY <1>1, <1>3, <1>4, InitTypeOK DEF RegInv

(* Every transaction preserves it.                                          *)
LEMMA NextInv == RegInv /\ [RegNext]_regVars => RegInv'
<1> SUFFICES ASSUME RegInv, [RegNext]_regVars PROVE RegInv'
  OBVIOUS
<1>1. RegTypeOK /\ (\A i \in Jobs : Row(i)) /\ WorkspaceSerialised /\ GlobalCapacity
      /\ OneJobPerKey
  BY DEF RegInv
<1>2. RegTypeOK'
  BY <1>1, NextTypeOK
<1>3. \A i \in Jobs : Row(i)'
  BY <1>1, NextRow
<1>4. WorkspaceSerialised' /\ GlobalCapacity' /\ OneJobPerKey'
  BY <1>1, NextSerialised, NextCapacity, NextKeys
<1> QED
  BY <1>2, <1>3, <1>4 DEF RegInv

(* The inductive invariant holds in every reachable state.                  *)
THEOREM RegistryInvariant == RegSpec => []RegInv
BY InitInv, NextInv, PTL DEF RegSpec

(* jobs, attempts and concurrency_reservations always tell the same story.  *)
THEOREM RegistryLedgerCoherent == RegSpec => []LedgerCoherent
<1>1. RegInv => LedgerCoherent
  BY DEF RegInv, LedgerCoherent, Row
<1> QED
  BY <1>1, RegistryInvariant, PTL

(* No two Jobs of a workspace ever hold capacity together.                  *)
THEOREM RegistryWorkspaceSerialised == RegSpec => []WorkspaceSerialised
<1>1. RegInv => WorkspaceSerialised
  BY DEF RegInv
<1> QED
  BY <1>1, RegistryInvariant, PTL

(* Admission never overbooks, for any number of Jobs and any limits.        *)
THEOREM RegistryGlobalCapacity == RegSpec => []GlobalCapacity
<1>1. RegInv => GlobalCapacity
  BY DEF RegInv
<1> QED
  BY <1>1, RegistryInvariant, PTL

(* A client request key admits one Job, whatever is retried.                *)
THEOREM RegistryOneJobPerKey == RegSpec => []OneJobPerKey
<1>1. RegInv => OneJobPerKey
  BY DEF RegInv
<1> QED
  BY <1>1, RegistryInvariant, PTL

(* A resolution is final, except that an orphan may be corrected.           *)
THEOREM RegistryTerminalOnlyCorrected == RegSpec => TerminalOnlyCorrected
<1>1. RegInv /\ [RegNext]_regVars => \A i \in Jobs : OnlyCorrected(i)
  BY StepOnlyCorrects DEF RegInv
<1> QED
  BY <1>1, RegistryInvariant, PTL DEF RegSpec, TerminalOnlyCorrected

============================================================================
