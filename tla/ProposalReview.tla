--------------------------- MODULE ProposalReview ---------------------------
(***************************************************************************)
(* Governed writes on one proposal (src/finharness/statecore/proposals.py, *)
(* proposal_version.py, proposal_revisions.py, api/routes_proposals.py):   *)
(* its creation, revisions of its decision scaffold, attestations and      *)
(* review events, sent as keyed mutations, and the resolvers that close    *)
(* their identity receipts from the domain's own records.                  *)
(*                                                                         *)
(* A write leaves a receipt file and, in one SQLite transaction, the row   *)
(* and the receipt's index entry; the file comes first and is removed when *)
(* the transaction fails.  Review writes hold the database's write lock    *)
(* (BEGIN IMMEDIATE) from the check of the expected version to the commit; *)
(* the creation of a proposal does not.  A version is the number of its    *)
(* receipt.  What a decision or a scaffold says is not modelled: a write   *)
(* the code refuses for its content is a refusal at any time.              *)
(*                                                                         *)
(* Writers are processes that write without a key: the agent's tools and   *)
(* the application of a revision candidate.                                *)
(***************************************************************************)
EXTENDS KeyedMutation

CONSTANTS
    Writers,        \* processes that write without a key
    Route,          \* the route each key belongs to
    MaxReceipts,    \* bound: receipts written in a behaviour
    MaxRevisions,   \* max_revisions of walk_proposal_revisions
    Failures        \* "store", "crash": the failures that may happen

ASSUME RouteAssumption == Route \in [Keys -> {"create", "revise", "attest", "event"}]

VARIABLES
    row,            \* receipt of the current version in the proposal row, 0 when no row
    committed,      \* receipts whose row and index entry are committed
    files,          \* receipts whose file exists
    flushed,        \* receipts whose file has reached the disk
    meta,           \* what each receipt says
    minted,         \* receipts numbered so far
    lock,           \* holder of the database's write lock
    staged,         \* receipt each writer has on disk and not yet committed
    seen            \* version each writer's author was looking at

domainVars == <<row, committed, files, flushed, meta, minted, lock, staged, seen>>
reviewVars == <<mutationVars, domainVars>>

Actors == Requests \cup Writers

Receipts == 1..MaxReceipts

Blank == [route |-> "none", prev |-> 0, claim |-> None, refs |-> {}, by |-> None]

ReviewInit ==
    /\ MutationInit
    /\ row = 0
    /\ committed = {}
    /\ files = {}
    /\ flushed = {}
    /\ meta = [i \in Receipts |-> Blank]
    /\ minted = 0
    /\ lock = None
    /\ staged = [a \in Actors |-> 0]
    /\ seen = [a \in Actors |-> 0]

----------------------------------------------------------------------------
(* Resolving the current version.                                          *)

(* walk_proposal_revisions: the versions from v back along "supersedes",   *)
(* as far as their files can be read.                                      *)
Walk(v) ==
    LET back[i \in 0..MaxReceipts] ==
            IF i \notin files THEN {} ELSE {i} \cup back[meta[i].prev]
    IN  back[v]

Oldest(vs) == CHOOSE i \in vs : \A j \in vs : i <= j

(* _resolve_current_proposal_version_from_row succeeds. *)
Resolves ==
    /\ row # 0
    /\ Walk(row) # {}
    /\ meta[Oldest(Walk(row))].prev = 0
    /\ Cardinality(Walk(row)) <= MaxRevisions

(* require_current_proposal_version_in_session. *)
VersionAdmitted(a) == Resolves /\ seen[a] = row

(* The author of a write looks at the proposal: a client before it sends   *)
(* the request, any time before the version is checked.                    *)
See(a) ==
    /\ seen' = [seen EXCEPT ![a] = row]
    /\ UNCHANGED <<row, committed, files, flushed, meta, minted, lock, staged>>

ClaimWrite(r, k, b) == Claim(r, k, b) /\ See(r)

Look(w) ==
    /\ staged[w] = 0
    /\ seen[w] # row
    /\ See(w)
    /\ UNCHANGED mutationVars

----------------------------------------------------------------------------
(* Writing the receipt.  A revision inherits the source refs of the        *)
(* version it supersedes, mutation refs included, and adds its own.        *)

MayWrite(a, route) ==
    /\ staged[a] = 0
    /\ minted < MaxReceipts
    /\ a \in Requests => phase[a] = "claimed" /\ Route[key[a]] = route

ClaimOf(a) == IF a \in Requests THEN key[a] ELSE None

OwnRefs(a) == IF a \in Requests THEN {key[a]} ELSE {}

WriteFile(a, route, prev) ==
    /\ minted' = minted + 1
    /\ meta' = [meta EXCEPT ![minted + 1] =
         [route |-> route, prev |-> prev, claim |-> ClaimOf(a), by |-> a,
          refs |-> OwnRefs(a) \cup
                   (IF route = "revise" THEN meta[prev].refs ELSE {})]]
    /\ files' = files \cup {minted + 1}
    /\ staged' = [staged EXCEPT ![a] = minted + 1]

(* create_governed_proposal up to its transaction. *)
CreateFile(a) ==
    /\ a \in Requests
    /\ MayWrite(a, "create")
    /\ WriteFile(a, "create", 0)
    /\ UNCHANGED <<mutationVars, row, committed, flushed, lock, seen>>

(* Mutant: the version is checked before the transaction begins. *)
StageUnlocked(a, route) ==
    /\ MayWrite(a, route)
    /\ VersionAdmitted(a)
    /\ WriteFile(a, route, row)
    /\ UNCHANGED <<mutationVars, row, committed, flushed, lock, seen>>

(* Mutant: the receipt file is left for later. *)
StageRowOnly(a, route) ==
    /\ MayWrite(a, route)
    /\ lock = None
    /\ VersionAdmitted(a)
    /\ lock' = a
    /\ minted' = minted + 1
    /\ meta' = [meta EXCEPT ![minted + 1] =
         [route |-> route, prev |-> row, claim |-> ClaimOf(a), by |-> a, refs |-> OwnRefs(a)]]
    /\ staged' = [staged EXCEPT ![a] = minted + 1]
    /\ UNCHANGED <<mutationVars, row, committed, files, flushed, seen>>

(* revise_governed_proposal_scaffold, create_governed_attestation and      *)
(* create_governed_review_event from BEGIN IMMEDIATE to the flush.         *)
Stage(a, route) ==
    /\ MayWrite(a, route)
    /\ lock = None
    /\ VersionAdmitted(a)
    /\ lock' = a
    /\ WriteFile(a, route, row)
    /\ UNCHANGED <<mutationVars, row, committed, flushed, seen>>

----------------------------------------------------------------------------
(* Ending the write.                                                       *)

Outcome(a, step(_)) ==
    IF a \in Requests THEN step(a) ELSE UNCHANGED mutationVars

Committing(a) ==
    /\ committed' = committed \cup {staged[a]}
    /\ row' = IF meta[staged[a]].route \in {"create", "revise"} THEN staged[a] ELSE row

Ending(a) ==
    /\ staged' = [staged EXCEPT ![a] = 0]
    /\ lock' = IF lock = a THEN None ELSE lock
    /\ UNCHANGED <<flushed, meta, minted, seen>>

(* A creation takes the write lock for its transaction only. *)
CanCommit(a) ==
    /\ staged[a] # 0
    /\ lock \in {a, None}

Commit(a) ==
    /\ CanCommit(a)
    /\ Outcome(a, Apply)
    /\ Committing(a)
    /\ Ending(a)
    /\ UNCHANGED files

(* Mutant: the failure is answered but the transaction is not rolled back. *)
RollbackKeepsRow(a) ==
    /\ "store" \in Failures
    /\ CanCommit(a)
    /\ a \in Requests
    /\ phase' = [phase EXCEPT ![a] = "refused"]
    /\ effects' = [effects EXCEPT ![key[a]] = @ \cup {a}]
    /\ files' = files \ {staged[a]}
    /\ Committing(a)
    /\ Ending(a)
    /\ UNCHANGED <<receiptVars, key, body, reply, resolverVars>>

(* The transaction fails and is rolled back; the receipt file is removed. *)
Rollback(a) ==
    /\ "store" \in Failures
    /\ CanCommit(a)
    /\ Outcome(a, Refuse)
    /\ files' = files \ {staged[a]}
    /\ Ending(a)
    /\ UNCHANGED <<row, committed>>

(* upsert_records commits and then fails to read a row back: the receipt   *)
(* file of a creation is removed and the request refused all the same.     *)
CommitThenRefreshFails(a) ==
    /\ CanCommit(a)
    /\ meta[staged[a]].route = "create"
    /\ phase' = [phase EXCEPT ![a] = "refused"]
    /\ effects' = [effects EXCEPT ![key[a]] = @ \cup {a}]
    /\ Committing(a)
    /\ files' = files \ {staged[a]}
    /\ Ending(a)
    /\ UNCHANGED <<receiptVars, key, body, reply, resolverVars>>

----------------------------------------------------------------------------
(* Crashes.  SQLite rolls an open transaction back; the file stays.        *)

Abandon(as) ==
    /\ staged' = [a \in Actors |-> IF a \in as THEN 0 ELSE staged[a]]
    /\ lock' = IF lock \in as THEN None ELSE lock
    /\ UNCHANGED <<row, committed, meta, minted, seen>>

ServerCrash ==
    /\ "crash" \in Failures
    /\ ApiCrash
    /\ Abandon(Requests)
    /\ UNCHANGED <<files, flushed>>

WriterCrash(w) ==
    /\ "crash" \in Failures
    /\ staged[w] # 0
    /\ Abandon({w})
    /\ UNCHANGED <<mutationVars, files, flushed>>

(* The system writes file data back in its own time, atomic_write_json     *)
(* does not wait for it; a commit does reach the disk.                     *)
Writeback ==
    /\ flushed # files
    /\ flushed' = files
    /\ UNCHANGED <<mutationVars, row, committed, files, meta, minted, lock, staged, seen>>

PowerLoss ==
    /\ files' = files \cap flushed
    /\ files' # files
    /\ phase' = [r \in Requests |-> IF InFlight(r) THEN "done" ELSE phase[r]]
    /\ loaded' = [c \in Resolvers |-> None]
    /\ verified' = [c \in Resolvers |-> None]
    /\ Abandon(Actors)
    /\ UNCHANGED <<receiptVars, effects, key, body, reply, flushed>>

----------------------------------------------------------------------------
(* The typed resolvers: what each must find before the receipt is closed.  *)

Claiming(k) == {i \in committed : meta[i].claim = k}

(* reconcile_proposal_create_identity_mutation reads the proposal row as   *)
(* it is now and asks for the receipt of a creation there.                 *)
CreateEvidence(k) ==
    /\ row \in files
    /\ meta[row].route = "create"
    /\ meta[row].claim = k

(* _reconcile_attestation_ and _reconcile_review_event_identity_mutation:  *)
(* one bound row, its receipt, and the receipt of the version it admits.   *)
ReviewEvidence(k) ==
    \E i \in files :
        /\ Claiming(k) = {i}
        /\ meta[i].prev \in files

(* Mutant: of other mutations only committed ones are accepted. *)
CandidateValidStrict(i, k) ==
    /\ i \in files
    /\ meta[i].prev \in files
    /\ meta[i].claim \notin {None, k} =>
          /\ state[meta[i].claim] = "committed"
          /\ response[meta[i].claim] = meta[i].by

(* _validate_scaffold_candidate_revision: every indexed version that       *)
(* carries the mutation ref has its evidence, and where it claims another  *)
(* mutation, that one is terminal and its response names this version.     *)
CandidateValid(i, k) ==
    /\ i \in files
    /\ meta[i].prev \in files
    /\ meta[i].claim \notin {None, k} =>
          /\ state[meta[i].claim] \in {"committed", "reconciled_applied"}
          /\ response[meta[i].claim] = meta[i].by

ScaffoldEvidence(k) ==
    /\ \A i \in committed :
         meta[i].route = "revise" /\ k \in meta[i].refs => CandidateValid(i, k)
    /\ Cardinality(Claiming(k)) = 1

Evidence(k) ==
    CASE Route[k] = "create" -> CreateEvidence(k)
      [] Route[k] = "revise" -> ScaffoldEvidence(k)
      [] OTHER -> ReviewEvidence(k)

VerifyEvidence(c) ==
    /\ loaded[c] # None
    /\ Evidence(loaded[c])
    /\ Verify(c)
    /\ UNCHANGED domainVars

----------------------------------------------------------------------------
(* A request that has written, or failed to, leaves the middleware. *)
Leave(r) ==
    /\ staged[r] = 0
    /\ Complete(r) \/ CompleteTooLate(r) \/ LeavePending(r)
    /\ UNCHANGED domainVars

ProtocolStep ==
    /\ \/ \E r \in Requests, k \in Keys, b \in Bodies :
            Replay(r, k, b) \/ Hold(r, k, b)
       \/ \E r \in Requests : staged[r] = 0 /\ Refuse(r)
       \/ \E c \in Resolvers :
            (\E k \in Keys : Load(c, k)) \/ Reconcile(c) \/ GiveUp(c)
    /\ UNCHANGED domainVars

WriteStep(a) ==
    \/ CreateFile(a)
    \/ \E route \in {"revise", "attest", "event"} : Stage(a, route)
    \/ Commit(a)
    \/ Rollback(a)

CrashStep == ServerCrash \/ (\E w \in Writers : WriterCrash(w))

ReviewNext ==
    \/ ProtocolStep
    \/ \E r \in Requests, k \in Keys, b \in Bodies : ClaimWrite(r, k, b)
    \/ \E r \in Requests : Leave(r)
    \/ \E w \in Writers : Look(w)
    \/ \E a \in Actors : WriteStep(a)
    \/ \E c \in Resolvers : VerifyEvidence(c)
    \/ CrashStep

ReviewSpec == ReviewInit /\ [][ReviewNext]_reviewVars

(* The faults the code does not guard against, taken with the others. *)
ReviewFaultNext ==
    \/ ReviewNext
    \/ \E a \in Actors : CommitThenRefreshFails(a)
    \/ Writeback
    \/ PowerLoss

ReviewFaultSpec == ReviewInit /\ [][ReviewFaultNext]_reviewVars

(* Requests end.  A resolver that cannot verify ends too, and the operator *)
(* goes on to the other pending receipts and comes back to this one.       *)
ReviewFairSpec ==
    /\ ReviewSpec
    /\ \A r \in Requests : WF_reviewVars(Leave(r))
    /\ \A c \in Resolvers :
         /\ \A k \in Keys : SF_reviewVars(Load(c, k) /\ UNCHANGED domainVars)
         /\ SF_reviewVars(VerifyEvidence(c))
         /\ SF_reviewVars(Reconcile(c) /\ UNCHANGED domainVars)
         /\ WF_reviewVars(GiveUp(c) /\ UNCHANGED domainVars)

----------------------------------------------------------------------------
(* Properties.                                                             *)

ReviewTypeOK ==
    /\ MutationTypeOK
    /\ row \in 0..MaxReceipts
    /\ committed \subseteq Receipts
    /\ files \subseteq Receipts
    /\ flushed \subseteq Receipts
    /\ minted \in 0..MaxReceipts
    /\ lock \in Actors \cup {None}
    /\ staged \in [Actors -> 0..MaxReceipts]
    /\ seen \in [Actors -> 0..MaxReceipts]

Versions == {i \in committed : meta[i].route \in {"create", "revise"}}


(* Whatever interleaves between reading a proposal and writing about it, a *)
(* review write that commits is about the version its author was looking   *)
(* at, and that version is still the current one at that moment            *)
(* (require_current_proposal_version_in_session).                          *)
WritesAreAboutWhatWasSeen ==
    [][\A a \in Actors :
         LET i == staged[a]
         IN  (i # 0 /\ i \in committed' \ committed /\ meta[i].route # "create") =>
                 meta[i].prev = row /\ seen[a] = row]_reviewVars

(* Failed transactions, crashes and orphaned files never make the current  *)
(* version unreadable: governed writes on a proposal are refused for its   *)
(* history only when that has grown past the limit of the walk             *)
(* (_resolve_current_proposal_version_from_row).                           *)
OnlyLongHistoriesFreeze ==
    row # 0 /\ ~Resolves => Cardinality(Versions) > MaxRevisions

(* A committed DB row always has its receipt file present. *)
RowsHaveReceipts == committed \subseteq files

(* A rolled-back transaction never leaves a receipt file behind. *)
(* The code does not guarantee this: see "Formulas that do not hold" in    *)
(* the README.                                                             *)
NoFileOutlivesItsTransaction ==
    \A i \in files : i \in committed \/ \E a \in Actors : staged[a] = i

(* A keyed attestation, review event or revision that was applied is       *)
(* settled in the end, whatever later revisions inherit its reference and  *)
(* whichever of them are pending too                                       *)
(* (_reconcile_scaffold_revision_identity_mutation).                       *)
ReviewWritesSettle ==
    \A k \in Typed : Route[k] # "create" => (effects[k] # {} ~> state[k] \in Terminal)
=============================================================================
