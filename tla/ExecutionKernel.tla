-------------------------- MODULE ExecutionKernel --------------------------
(***************************************************************************)
(* The simulated execution kernel: order drafts, pre-trade checks,         *)
(* approvals, staged orders, submission and execution reports              *)
(* (src/finharness/execution/services.py, commands.py, receipts.py).       *)
(*                                                                         *)
(* The routes that call these services are synchronous functions, which    *)
(* the server runs in a thread pool: requests interleave.  No service is   *)
(* one transaction.  Each reads its preconditions in one session, writes a *)
(* receipt file, commits a status in a second session and the new row with *)
(* its receipt index entry in a third, so each of these is an action, and  *)
(* a request may end (crash, lock timeout, full disk) between any two.     *)
(*                                                                         *)
(* A row id is the number under which the call drew it: uuid4 makes ids    *)
(* unique.  A receipt id is not a fresh name but <<kind, second>>: it is   *)
(* built from the last word of the kind, the UTC second and the first      *)
(* eight characters of the artifact id, which are its prefix and digits of *)
(* the year, the same for every artifact of a kind.                        *)
(***************************************************************************)
EXTENDS Integers, Sequences, SequencesExt

CONSTANTS
    Procs,         \* concurrent requests
    Capabilities,  \* the enabled execution capabilities
    MaxId,         \* bound: rows created in a behaviour
    MaxSecond,     \* bound: seconds that pass
    None           \* no value

VARIABLES
    draftStatus,   \* column order_drafts.draft_status, "absent" when no row
    orderStatus,   \* column execution_orders.execution_status
    orderDraft,    \* column execution_orders.order_draft_id
    rows,          \* committed rows, in insertion order
    files,         \* receipt files: receipt id -> artifact the file names
    index,         \* table receipt_index: the receipt ids
    minted,        \* ids drawn so far
    now,           \* the UTC second
    proc           \* what each request is doing

kernelVars ==
    <<draftStatus, orderStatus, orderDraft, rows, files, index, minted, now, proc>>

Ids == 1..MaxId

(* Receipt kinds, one per artifact except for an order, which has three. *)
Kinds == {"created", "check", "approval", "staged", "submit_attempted", "submitted", "report"}

DraftStatuses ==
    {"absent", "draft", "pretrade_check_passed", "pretrade_check_blocked",
     "approved", "rejected", "staged"}

OrderStatuses == {"absent", "staged", "submitted", "filled"}

Idle == [pc |-> "idle", op |-> "none", id |-> 0, of |-> 0, value |-> None, receipt |-> None,
         attempted |-> None]

KernelInit ==
    /\ draftStatus = [i \in Ids |-> "absent"]
    /\ orderStatus = [i \in Ids |-> "absent"]
    /\ orderDraft = [i \in Ids |-> 0]
    /\ rows = << >>
    /\ files = << >>
    /\ index = {}
    /\ minted = 0
    /\ now = 0
    /\ proc = [p \in Procs |-> Idle]

----------------------------------------------------------------------------
(* Receipts: the file is written first, and a later one of the same id     *)
(* replaces it.                                                            *)

ReceiptId(kind) == <<kind, now>>

WriteReceipt(kind, artifact) ==
    files' = [r \in DOMAIN files \cup {ReceiptId(kind)} |->
                IF r = ReceiptId(kind) THEN artifact ELSE files[r]]

(* Mutant: merging rows, as upsert_records does, never fails. *)
MergeRecords(p, row, receipts) ==
    /\ rows' = Append(rows, row)
    /\ index' = index \cup receipts
    /\ proc' = [proc EXCEPT ![p] = Idle]

(* write_records: the row and its index entries in one transaction, which  *)
(* fails when an index entry already has the receipt id.                   *)
WriteRecords(p, row, receipts) ==
    IF receipts \cap index = {}
    THEN /\ rows' = Append(rows, row)
         /\ index' = index \cup receipts
         /\ proc' = [proc EXCEPT ![p] = Idle]
    ELSE /\ proc' = [proc EXCEPT ![p] = Idle]
         /\ UNCHANGED <<rows, index>>

RowsOf(kind, of) == SelectSeq(rows, LAMBDA r : r.kind = kind /\ r.of = of)

----------------------------------------------------------------------------
(* create_order_draft, run_pretrade_check and record_approval start with   *)
(* the receipt: they read nothing before it.                               *)

Mint(p, op, kind, of, value) ==
    /\ proc[p].pc = "idle"
    /\ op \in Capabilities
    /\ minted < MaxId
    /\ minted' = minted + 1
    /\ WriteReceipt(kind, minted')
    /\ proc' = [proc EXCEPT ![p] =
         [Idle EXCEPT !.pc = "receipt", !.op = op, !.id = minted', !.of = of,
                      !.value = value, !.receipt = ReceiptId(kind)]]
    /\ UNCHANGED <<draftStatus, orderStatus, orderDraft, rows, index, now>>

CreateDraft(p) == Mint(p, "create_order_draft", "created", 0, None)

RunCheck(p) ==
    \E d \in Ids, status \in {"pass", "warn", "block"} :
        /\ draftStatus[d] # "absent"
        /\ Mint(p, "run_pretrade_check", "check", d, status)

RecordApproval(p) ==
    \E d \in Ids, decision \in {"approved", "rejected"} :
        /\ draftStatus[d] # "absent"
        /\ Mint(p, "record_approval", "approval", d, decision)

(* stage_execution_order reads the draft, its first check and its first    *)
(* approval, whatever came after them.                                     *)


StagingAllowed(d) ==
    /\ draftStatus[d] = "approved"
    /\ RowsOf("check", d) # << >>
    /\ RowsOf("check", d)[1].value # "block"
    /\ RowsOf("approval", d) # << >>

StageCheck(p) ==
    /\ proc[p].pc = "idle"
    /\ "stage_execution_order" \in Capabilities
    /\ \E d \in Ids :
         /\ StagingAllowed(d)
         /\ proc' = [proc EXCEPT ![p] = [Idle EXCEPT !.pc = "stage", !.op = "stage_execution_order",
                                                     !.of = d]]
    /\ UNCHANGED <<draftStatus, orderStatus, orderDraft, rows, files, index, minted, now>>

StageReceipt(p) ==
    /\ proc[p].pc = "stage"
    /\ minted < MaxId
    /\ minted' = minted + 1
    /\ WriteReceipt("staged", minted')
    /\ proc' = [proc EXCEPT ![p] = [@ EXCEPT !.pc = "receipt", !.id = minted',
                                             !.receipt = ReceiptId("staged")]]
    /\ UNCHANGED <<draftStatus, orderStatus, orderDraft, rows, index, now>>

----------------------------------------------------------------------------
(* submit_order: submit_execution_order, the adapter and                   *)
(* record_execution_report, in a row.                                      *)

(* Mutant: any existing order may be submitted. *)
SubmitCheckUnguarded(p) ==
    /\ proc[p].pc = "idle"
    /\ "submit_simulated_order" \in Capabilities
    /\ \E o \in Ids :
         /\ orderStatus[o] # "absent"
         /\ proc' = [proc EXCEPT ![p] = [Idle EXCEPT !.pc = "submit", !.op = "submit_order", !.of = o]]
    /\ UNCHANGED <<draftStatus, orderStatus, orderDraft, rows, files, index, minted, now>>

SubmitCheck(p) ==
    /\ proc[p].pc = "idle"
    /\ "submit_simulated_order" \in Capabilities
    /\ \E o \in Ids :
         /\ orderStatus[o] = "staged"
         /\ proc' = [proc EXCEPT ![p] = [Idle EXCEPT !.pc = "submit", !.op = "submit_order", !.of = o]]
    /\ UNCHANGED <<draftStatus, orderStatus, orderDraft, rows, files, index, minted, now>>

SubmitAttempted(p) ==
    /\ proc[p].pc = "submit"
    /\ WriteReceipt("submit_attempted", proc[p].of)
    /\ proc' = [proc EXCEPT ![p] = [@ EXCEPT !.pc = "attempted",
                                             !.attempted = ReceiptId("submit_attempted")]]
    /\ UNCHANGED <<draftStatus, orderStatus, orderDraft, rows, index, minted, now>>


SubmitStatus(p) ==
    /\ proc[p].pc = "attempted"
    /\ orderStatus' = [orderStatus EXCEPT ![proc[p].of] = "submitted"]
    /\ proc' = [proc EXCEPT ![p] = [@ EXCEPT !.pc = "submitting"]]
    /\ UNCHANGED <<draftStatus, orderDraft, rows, files, index, minted, now>>

SubmittedReceipt(p) ==
    /\ proc[p].pc = "submitting"
    /\ WriteReceipt("submitted", proc[p].of)
    /\ proc' = [proc EXCEPT ![p] = [@ EXCEPT !.pc = "submitted", !.receipt = ReceiptId("submitted")]]
    /\ UNCHANGED <<draftStatus, orderStatus, orderDraft, rows, index, minted, now>>

(* Both index entries and the order's receipt_ref; the exception of a      *)
(* collision ends the request with the order left submitted.               *)
SubmitCommit(p) ==
    /\ proc[p].pc = "submitted"
    /\ LET receipts == {proc[p].attempted, proc[p].receipt}
       IN IF receipts \cap index = {}
          THEN /\ index' = index \cup receipts
               /\ proc' = [proc EXCEPT ![p] = [@ EXCEPT !.pc = "report"]]
          ELSE /\ proc' = [proc EXCEPT ![p] = Idle]
               /\ UNCHANGED index
    /\ UNCHANGED <<draftStatus, orderStatus, orderDraft, rows, files, minted, now>>

(* The adapter fills the order or only acknowledges it; without an adapter *)
(* the acknowledgement is synthesised.                                     *)
ReportReceipt(p) ==
    /\ proc[p].pc = "report"
    /\ minted < MaxId
    /\ minted' = minted + 1
    /\ WriteReceipt("report", minted')
    /\ \E fill \in {"filled", "none"} :
         proc' = [proc EXCEPT ![p] = [@ EXCEPT !.pc = "receipt", !.id = minted', !.value = fill,
                                               !.receipt = ReceiptId("report")]]
    /\ UNCHANGED <<draftStatus, orderStatus, orderDraft, rows, index, now>>

----------------------------------------------------------------------------
(* The second session of each service: the status of the draft or order.   *)

NextDraftStatus(op, value) ==
    CASE op = "run_pretrade_check" /\ value = "pass" -> "pretrade_check_passed"
      [] op = "run_pretrade_check" /\ value # "pass" -> "pretrade_check_blocked"
      [] op = "record_approval"                      -> value
      [] op = "stage_execution_order"                -> "staged"

UpdateStatus(p) ==
    /\ proc[p].pc = "receipt"
    /\ \/ /\ proc[p].op \in {"run_pretrade_check", "record_approval", "stage_execution_order"}
          /\ draftStatus' = [draftStatus EXCEPT ![proc[p].of] =
                               NextDraftStatus(proc[p].op, proc[p].value)]
          /\ UNCHANGED orderStatus
       \/ /\ proc[p].op = "submit_order"
          /\ orderStatus' = [orderStatus EXCEPT ![proc[p].of] =
                               IF proc[p].value = "filled" THEN "filled" ELSE @]
          /\ UNCHANGED draftStatus
       \/ /\ proc[p].op = "create_order_draft"
          /\ UNCHANGED <<draftStatus, orderStatus>>
    /\ proc' = [proc EXCEPT ![p] = [@ EXCEPT !.pc = "commit"]]
    /\ UNCHANGED <<orderDraft, rows, files, index, minted, now>>

(* The third session: the new row and its index entry. *)
RowKind(op) ==
    CASE op = "create_order_draft"    -> "draft"
      [] op = "run_pretrade_check"    -> "check"
      [] op = "record_approval"       -> "approval"
      [] op = "stage_execution_order" -> "order"
      [] op = "submit_order"          -> "report"

CommitRows(p) ==
    /\ proc[p].pc = "commit"
    /\ LET c == proc[p]
           row == [kind |-> RowKind(c.op), id |-> c.id, of |-> c.of, value |-> c.value,
                   receipt |-> c.receipt]
           ok == c.receipt \notin index
       IN /\ WriteRecords(p, row, {c.receipt})
          /\ draftStatus' = IF ok /\ row.kind = "draft"
                            THEN [draftStatus EXCEPT ![c.id] = "draft"] ELSE draftStatus
          /\ orderStatus' = IF ok /\ row.kind = "order"
                            THEN [orderStatus EXCEPT ![c.id] = "staged"] ELSE orderStatus
          /\ orderDraft' = IF ok /\ row.kind = "order"
                           THEN [orderDraft EXCEPT ![c.id] = c.of] ELSE orderDraft
    /\ UNCHANGED <<files, minted, now>>

(* A request that dies between two of its steps. *)
Abort(p) ==
    /\ proc[p].pc # "idle"
    /\ proc' = [proc EXCEPT ![p] = Idle]
    /\ UNCHANGED <<draftStatus, orderStatus, orderDraft, rows, files, index, minted, now>>

Tick ==
    /\ now < MaxSecond
    /\ now' = now + 1
    /\ UNCHANGED <<draftStatus, orderStatus, orderDraft, rows, files, index, minted, proc>>

KernelStep(p) ==
    \/ CreateDraft(p) \/ RunCheck(p) \/ RecordApproval(p)
    \/ StageCheck(p) \/ StageReceipt(p)
    \/ SubmitCheck(p) \/ SubmitAttempted(p) \/ SubmitStatus(p)
    \/ SubmittedReceipt(p) \/ SubmitCommit(p) \/ ReportReceipt(p)
    \/ UpdateStatus(p) \/ CommitRows(p)

KernelNext == Tick \/ \E p \in Procs : KernelStep(p) \/ Abort(p)

KernelSpec == KernelInit /\ [][KernelNext]_kernelVars

----------------------------------------------------------------------------
(* Every column, file and request is a value the code can write.           *)
KernelTypeOK ==
    /\ draftStatus \in [Ids -> DraftStatuses]
    /\ orderStatus \in [Ids -> OrderStatuses]
    /\ orderDraft \in [Ids -> 0..MaxId]
    /\ \A r \in Range(rows) : r.id \in Ids /\ r.of \in 0..MaxId /\ r.receipt \in DOMAIN files
    /\ DOMAIN files \subseteq Kinds \X (0..MaxSecond)
    /\ \A r \in DOMAIN files : files[r] \in Ids
    /\ minted \in 0..MaxId



(* Two rows never share a receipt: when the ids collide the second request *)
(* fails as a whole (the primary key of receipt_index).                    *)
ReceiptsAreDistinct ==
    \A i, j \in DOMAIN rows : rows[i].receipt = rows[j].receipt => i = j

(* submit_execution_order: "Raises ValueError if the order is not in       *)
(* 'staged' status", so an order becomes submitted only from staged.       *)
(* The code does not guarantee this: see "Formulas that do not hold" in    *)
(* the README.                                                             *)
SubmitsOnlyStaged ==
    [][\A o \in Ids : orderStatus'[o] = "submitted" /\ orderStatus[o] # "submitted"
          => orderStatus[o] = "staged"]_kernelVars

(* "Verify PreTradeCheck exists and is not blocked": no order is created   *)
(* for a draft while a blocking check is its latest.                       *)
(* The code does not guarantee this: see "Formulas that do not hold" in    *)
(* the README.                                                             *)
StagedChecksAreClear ==
    [][\A o \in Ids : orderStatus[o] = "absent" /\ orderStatus'[o] = "staged" =>
         LET d == orderDraft'[o] IN Last(RowsOf("check", d)).value # "block"]_kernelVars

(* "durable evidence for the execution lifecycle": the receipt file a row  *)
(* refers to is the receipt of that row.                                   *)
(* The code does not guarantee this: see "Formulas that do not hold" in    *)
(* the README.                                                             *)
ReceiptsNameTheirArtifact ==
    \A r \in Range(rows) : files[r.receipt] = r.id
=============================================================================
