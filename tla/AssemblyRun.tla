----------------------------- MODULE AssemblyRun -----------------------------
(***************************************************************************)
(* The Assembly Run records of one plan: core.Service's run operations over*)
(* the PostgreSQL repository of the assembly module.                       *)
(*                                                                         *)
(* A caller (an administrator's request or the execution workflow) reads   *)
(* the run, validates its document against what it read, and then writes   *)
(* in a transaction that locks the row and compares its version with the   *)
(* version the caller expects.  Other callers run between the read and the *)
(* transaction.  `call' holds a caller's validated operation between the   *)
(* two.  A transaction changes every table it touches in one step.         *)
(*                                                                         *)
(* Idempotency records decide which run an answer names only for the       *)
(* operations that create one (start, retry) and are kept for those.  For  *)
(* the others a used key makes the transaction return its stored answer    *)
(* and change nothing, which CallFails covers.                             *)
(***************************************************************************)
EXTENDS RunEvolution

CONSTANTS Runs,         \* run identifiers
          Steps,        \* step identifiers of the initial run document
          ValidateStep, \* the step of kind "validate", which needs no compensation
          Callers,      \* concurrent requests
          Keys,         \* idempotency keys, each of one administrator
          Targets,      \* output target references
          Products,     \* product identifiers
          Diagnostics,  \* diagnostic identifiers
          Documents,    \* the run documents callers submit
          NoRun,        \* the absent retry_of_run_id
          NoRecord,     \* an absent row
          MaxVersion    \* bound on the versions of one run

ASSUME ConstantsAssumption ==
    /\ NoRun \notin Runs
    /\ NoProduct \notin Products
    /\ MaxVersion \in Nat

\* What a machine document says about a run.
Document == [status: RunStatuses, steps: [Steps -> Step], completedAt: BOOLEAN,
             retryable: BOOLEAN, rollbackRequired: BOOLEAN,
             diagnosticIDs: SUBSET Diagnostics]

ASSUME DocumentsAssumption == Documents \subseteq Document

Row == [status: RunStatuses, version: Nat \ {0}, steps: [Steps -> Step],
        root: Runs, retryOf: Runs \union {NoRun}, attemptNumber: Nat \ {0},
        product: Products \union {NoProduct},
        retryable: BOOLEAN, rollbackRequired: BOOLEAN,
        diagnosticIDs: SUBSET Diagnostics,
        completedAt: BOOLEAN, manifest: BOOLEAN]

\* An idempotency record of an operation that creates a run: the digest holds
\* the output target of a start and the expected version of a retry.
IdemRecord == [digest: Targets \union Nat, run: Runs]

ASSUME NoRecordAssumption == NoRecord \notin Row \union IdemRecord

VARIABLES planProducts, \* the values assembly_plans.product_id has had: NoProduct
                      \* unless its blueprint had a product, the product last
          runs,        \* assembly_runs with assembly_run_steps: the rows that exist
          diagnostics, \* assembly_run_diagnostics of each run
          manifests,   \* runs with rows in assembly_manifests and generated_project_locks
          outbox,      \* per run, the number of rows in outbox_events
          idem,        \* idempotency_records of the creating operations
          call,        \* per caller, the validated operation it is about to commit
          answers      \* per idempotency record, the runs its requests were answered with

vars == <<planProducts, runs, diagnostics, manifests, outbox, idem, call, answers>>

Idle == [op |-> "idle"]

\* An idempotency scope: NoRun for starting the plan, a run for retrying it.
Scopes == Runs \union {NoRun}

Exists(r) == runs[r] # NoRecord

ExistingRuns == {r \in Runs : Exists(r)}

\* A run document's initial steps, and the row of a run that starts with them.
InitialSteps ==
    [s \in Steps |-> [status |-> "pending", attempt |-> 0,
                      compensation |-> IF s = ValidateStep THEN "not_required" ELSE "pending",
                      startedAt |-> NoTime, finishedAt |-> NoTime]]

\* The version of a new run.
FirstVersion == 1

NewRow(root, retryOf, attemptNumber, product) ==
    [status |-> "planned", version |-> FirstVersion, steps |-> InitialSteps,
     root |-> root, retryOf |-> retryOf, attemptNumber |-> attemptNumber,
     product |-> product, retryable |-> TRUE, rollbackRequired |-> FALSE,
     diagnosticIDs |-> {}, completedAt |-> FALSE, manifest |-> FALSE]

TypeOK ==
    /\ planProducts \subseteq Products \union {NoProduct}
    /\ runs \in [Runs -> Row \union {NoRecord}]
    /\ diagnostics \in [Runs -> SUBSET Diagnostics]
    /\ manifests \subseteq Runs
    /\ outbox \in [Runs -> Nat]
    /\ idem \in [Scopes \X Keys -> IdemRecord \union {NoRecord}]
    /\ answers \in [Scopes \X Keys -> SUBSET Runs]
    /\ call \in [Callers ->
            {Idle}
              \union [op: {"update", "complete"}, run: Runs, base: Row, expected: Nat,
                      doc: Document, evidence: SUBSET Diagnostics]
              \union [op: {"retry"}, run: Runs, base: Row, expected: Nat, key: Keys]]

Init ==
    /\ planProducts \in {{p} : p \in Products \union {NoProduct}}
    /\ runs = [r \in Runs |-> NoRecord]
    /\ diagnostics = [r \in Runs |-> {}]
    /\ manifests = {}
    /\ outbox = [r \in Runs |-> 0]
    /\ idem = [e \in Scopes \X Keys |-> NoRecord]
    /\ answers = [e \in Scopes \X Keys |-> {}]
    /\ call = [c \in Callers |-> Idle]

-----------------------------------------------------------------------------
(* Creating runs.                                                          *)

\* A record of the key with the same request is answered with the run it names.
ReplaysIdempotency(scope, key, digest) ==
    /\ idem[<<scope, key>>] # NoRecord
    /\ idem[<<scope, key>>].digest = digest
    /\ answers' = [answers EXCEPT ![<<scope, key>>] = @ \union {idem[<<scope, key>>].run}]
    /\ UNCHANGED <<runs, diagnostics, manifests, outbox, idem>>

\* The runs of the plan have different keys (assembly_runs_idempotency_idx): a
\* key used in another scope is refused.
KeyUnused(key) == \A s \in Scopes : idem[<<s, key>>] = NoRecord

\* An event of the run is queued for the audit.
insertOutbox(r) == outbox' = [outbox EXCEPT ![r] = @ + 1]

\* Otherwise the run is inserted with its steps and outbox event, and the key
\* is recorded, all in the transaction that reserved the key.
InsertRun(r, row, scope, key, digest) ==
    /\ KeyUnused(key)
    /\ runs[r] = NoRecord
    /\ runs' = [runs EXCEPT ![r] = row]
    /\ insertOutbox(r)
    /\ idem' = [idem EXCEPT ![<<scope, key>>] = [digest |-> digest, run |-> r]]
    /\ answers' = [answers EXCEPT ![<<scope, key>>] = @ \union {r}]
    /\ UNCHANGED <<diagnostics, manifests>>

\* StartAssembly of a plan that is confirmed and executable (module
\* AssemblyPlan has the plan); the request digest holds the output target.  The
\* run names the product of the plan as it was read.
StartAssembly(key, target) ==
    /\ \/ ReplaysIdempotency(NoRun, key, target)
       \/ \E r \in Runs, product \in planProducts :
            InsertRun(r, NewRow(r, NoRun, 1, product), NoRun, key, target)
    /\ UNCHANGED <<planProducts, call>>

\* The comparison of a locked row's version.  Instead: a later one will do.
AtLeastVersion(r, expected) == runs[r].version >= expected
MatchesVersion(r, expected) == runs[r].version = expected

\* The parent allows a retry.  Checked by the service on the run it reads, by
\* the repository on the locked row, and by the trigger validate_run_retry_chain.
Retryable(parent) ==
    parent.status = "failed" /\ parent.retryable /\ ~parent.rollbackRequired

\* The product of a retry.
RetryProduct(parent) == parent.product

\* RetryRun up to the repository call: the child is computed from this read.
RetryRun(c, r, expected, key) ==
    /\ call[c] = Idle
    /\ Exists(r)
    /\ runs[r].version = expected
    /\ Retryable(runs[r])
    /\ call' = [call EXCEPT ![c] = [op |-> "retry", run |-> r, base |-> runs[r],
                                    expected |-> expected, key |-> key]]
    /\ UNCHANGED <<planProducts, runs, diagnostics, manifests, outbox, idem, answers>>

\* The constraints of assembly_runs on a retry: one successor per parent, one
\* run per root and attempt.  Instead: no other attempt is in progress.
NoActiveSuccessor(row) ==
    \A r \in ExistingRuns :
        runs[r].retryOf = row.retryOf => runs[r].status \in TerminalStatuses

UniqueSuccessor(row) ==
    \A r \in ExistingRuns :
        /\ runs[r].retryOf # row.retryOf
        /\ <<runs[r].root, runs[r].attemptNumber>> # <<row.root, row.attemptNumber>>

\* repository.RetryRun.
RetryRunCommit(c) ==
    /\ call[c].op = "retry"
    /\ LET parent == runs[call[c].run]
           row == NewRow(call[c].base.root, call[c].run,
                         call[c].base.attemptNumber + 1, RetryProduct(call[c].base))
       IN  \/ ReplaysIdempotency(call[c].run, call[c].key, call[c].expected)
           \/ /\ Exists(call[c].run)
              /\ MatchesVersion(call[c].run, call[c].expected)
              /\ Retryable(parent)
              /\ row.root = parent.root
              /\ row.attemptNumber = parent.attemptNumber + 1
              /\ UniqueSuccessor(row)
              /\ \E r \in Runs :
                    InsertRun(r, row, call[c].run, call[c].key, call[c].expected)
    /\ call' = [call EXCEPT ![c] = Idle]
    /\ UNCHANGED planProducts

-----------------------------------------------------------------------------
(* Evolving runs.                                                          *)

\* repository.BindProduct: one transaction, nothing is read before it.  A run
\* that is already bound is left as it is, to this product or with a conflict.
\* The plan takes the first product that one of its runs is bound to.
BindProduct(r, product, expected) ==
    /\ Exists(r)
    /\ runs[r].product = NoProduct
    /\ MatchesVersion(r, expected)
    /\ runs[r].version < MaxVersion
    /\ LET row == [runs[r] EXCEPT !.product = product, !.version = @ + 1]
       IN  /\ runRowMayChange(runs[r], row)
           /\ runs' = [runs EXCEPT ![r] = row]
    /\ planProducts' = IF planProducts = {NoProduct} THEN {NoProduct, product} ELSE planProducts
    /\ insertOutbox(r)
    /\ UNCHANGED <<diagnostics, manifests, idem, call, answers>>

\* validateRunEvidence: the diagnostic rows to insert for a document, filled
\* in for a failed run that comes with none.
Evidence(doc, given) ==
    IF doc.status = "failed" /\ given = {} THEN doc.diagnosticIDs ELSE given

\* Instead: some of the diagnostics suffice.
validateSomeEvidence(doc, given) ==
    /\ Evidence(doc, given) \subseteq doc.diagnosticIDs
    /\ doc.status = "failed" => Evidence(doc, given) # {}

validateRunEvidence(doc, given) ==
    /\ Evidence(doc, given) \subseteq doc.diagnosticIDs
    /\ doc.status = "failed" => Evidence(doc, given) = doc.diagnosticIDs

\* UpdateRun up to the repository call.  The expected version is one the
\* caller has seen, so not above the current one.
UpdateRun(c, r, expected, doc, given) ==
    /\ call[c] = Idle
    /\ Exists(r)
    /\ expected \in 1..runs[r].version
    /\ validateRunEvolution(runs[r], doc)
    /\ validateRunEvidence(doc, given)
    /\ call' = [call EXCEPT ![c] = [op |-> "update", run |-> r, base |-> runs[r],
                                    expected |-> expected, doc |-> doc,
                                    evidence |-> Evidence(doc, given)]]
    /\ UNCHANGED <<planProducts, runs, diagnostics, manifests, outbox, idem, answers>>

\* GetPlan for the product of the run.  Instead: the plan is read without it.
AnyPlan(r) == TRUE
PlanHasProduct(r) == runs[r].product \in planProducts

\* CompleteAssembly up to the repository call.  Its run is bound to the product
\* the caller names, and so is the plan; the submitted manifest and lock have passed
\* validateCompletedArtifacts.
CompleteAssembly(c, r, expected, doc) ==
    /\ call[c] = Idle
    /\ Exists(r)
    /\ runs[r].product # NoProduct
    /\ PlanHasProduct(r)
    /\ expected \in 1..runs[r].version
    /\ validateRunEvolution(runs[r], doc)
    /\ doc.status = "completed"
    /\ call' = [call EXCEPT ![c] = [op |-> "complete", run |-> r, base |-> runs[r],
                                    expected |-> expected, doc |-> doc, evidence |-> {}]]
    /\ UNCHANGED <<planProducts, runs, diagnostics, manifests, outbox, idem, answers>>

\* The row that repository.UpdateRun and repository.CompleteRun write.
UpdatedRow(old, doc, manifest) ==
    [status |-> doc.status, version |-> old.version + 1,
     steps |-> [s \in Steps |-> StoredStep(doc.steps[s])],
     root |-> old.root, retryOf |-> old.retryOf, attemptNumber |-> old.attemptNumber,
     product |-> old.product, retryable |-> doc.retryable,
     rollbackRequired |-> doc.rollbackRequired, diagnosticIDs |-> doc.diagnosticIDs,
     completedAt |-> doc.completedAt, manifest |-> manifest]

\* The transaction of repository.UpdateRun and repository.CompleteRun: the
\* version is compared under the row lock, the triggers judge the new row.
\* CompleteRun also inserts the manifest and the lock.
UpdateRunCommit(c) ==
    /\ call[c].op \in {"update", "complete"}
    /\ LET r == call[c].run
           completes == call[c].op = "complete"
           row == UpdatedRow(runs[r], call[c].doc, runs[r].manifest \/ completes)
       IN  /\ Exists(r)
           /\ MatchesVersion(r, call[c].expected)
           /\ runs[r].version < MaxVersion
           /\ runRowMayChange(runs[r], row)
           /\ completes => r \notin manifests
           /\ runs' = [runs EXCEPT ![r] = row]
           /\ diagnostics' = [diagnostics EXCEPT ![r] = @ \union call[c].evidence]
           /\ manifests' = IF completes THEN manifests \union {r} ELSE manifests
           /\ insertOutbox(r)
    /\ call' = [call EXCEPT ![c] = Idle]
    /\ UNCHANGED <<planProducts, idem, answers>>

\* The transaction is rolled back and the caller told so: a version conflict,
\* a used key, a trigger or a constraint, a lost connection or a dead caller.
CallFails(c) ==
    /\ call[c] # Idle
    /\ call' = [call EXCEPT ![c] = Idle]
    /\ UNCHANGED <<planProducts, runs, diagnostics, manifests, outbox, idem, answers>>

Next ==
    \/ \E key \in Keys, target \in Targets : StartAssembly(key, target)
    \/ \E c \in Callers, r \in Runs, expected \in 1..MaxVersion, key \in Keys :
            RetryRun(c, r, expected, key)
    \/ \E r \in Runs, product \in Products, expected \in 1..MaxVersion :
            BindProduct(r, product, expected)
    \/ \E c \in Callers, r \in Runs, expected \in 1..MaxVersion,
          doc \in Documents, given \in SUBSET Diagnostics :
            UpdateRun(c, r, expected, doc, given)
    \/ \E c \in Callers, r \in Runs, expected \in 1..MaxVersion, doc \in Documents :
            CompleteAssembly(c, r, expected, doc)
    \/ \E c \in Callers : RetryRunCommit(c)
    \/ \E c \in Callers : UpdateRunCommit(c)
    \/ \E c \in Callers : CallFails(c)

Spec == Init /\ [][Next]_vars

-----------------------------------------------------------------------------
(* Properties.                                                             *)

StatusOf(r) == IF Exists(r) THEN runs[r].status ELSE "none"

Lifecycle == INSTANCE RunLifecycle WITH status <- [r \in Runs |-> StatusOf(r)]

\* The runs implement RunLifecycle.  What the core accepts and the trigger
\* refuses (a failed run going on), and what the trigger accepts and the core
\* refuses (a run in progress rolling back), never shows; rolling_back and
\* rolled_back are not reached.  (validTransition, reject_run_contract_update)
ImplementsLifecycle == Lifecycle!Spec

\* The retry chain: a successor exists only of a failed, retryable run that
\* needs no rollback, shares its root, counts one attempt more, and is the
\* only successor.  Concurrent retries and later updates of the parent could
\* break it.  (RetryRun, migration 000012)
RetryChain ==
    \A r \in ExistingRuns :
        LET p == runs[r].retryOf
        IN  IF p = NoRun
            THEN runs[r].root = r /\ runs[r].attemptNumber = 1
            ELSE /\ Exists(p)
                 /\ Retryable(runs[p])
                 /\ runs[r].root = runs[p].root
                 /\ runs[r].attemptNumber = runs[p].attemptNumber + 1
                 /\ \A other \in ExistingRuns : runs[other].retryOf = p => other = r

\* A successor of a run that was bound to a product is bound to the same
\* product from its first state on: no retry provisions a second product.
\* (RetryRun copies the product of an earlier read of the parent, BindProduct)
RetryKeepsProduct ==
    \A r \in ExistingRuns :
        LET p == runs[r].retryOf
        IN  (p # NoRun /\ runs[p].product # NoProduct)
                => runs[r].product = runs[p].product

\* A run is completed exactly when its manifest and lock exist, and then it
\* names a product.  (CompleteRun, and UpdateRun with a completed document)
CompletedHasManifest ==
    \A r \in ExistingRuns :
        /\ runs[r].status = "completed" <=> r \in manifests
        /\ runs[r].manifest <=> r \in manifests
        /\ r \in manifests => runs[r].product # NoProduct

\* Two runs of the plan may be bound to different products, if both started
\* before the first was bound; but all that are completed are of one product.
\* (BindProduct leaves the plan's first product, CompleteAssembly reads the plan)
PlanCompletesOneProduct ==
    \A r, s \in manifests : runs[r].product = runs[s].product

\* Every version of a run has its audit event in the outbox, and no event is
\* written for a change that did not happen.  (insertOutbox in each transaction)
EventPerVersion ==
    \A r \in Runs : outbox[r] = IF Exists(r) THEN runs[r].version ELSE 0

\* A failed run has a diagnostic row for every diagnostic it names.
\* (validateRunEvidence, insertRunDiagnostics)
FailureExplained ==
    \A r \in ExistingRuns :
        runs[r].status = "failed" => runs[r].diagnosticIDs \subseteq diagnostics[r]

\* All requests with one idempotency key in one scope are answered with one
\* run, whatever their number and order.  (reserveIdempotency, StartRun, RetryRun)
OneRunPerKey ==
    \A e \in Scopes \X Keys : \A a, b \in answers[e] : a = b

\* The row a document replaces is the row it was validated against: between
\* validation and transaction no writer changed the run unnoticed.
\* (UpdateRun and CompleteAssembly read before the transaction locks the row)
ValidatedRowReplaced ==
    [][\A c \in Callers, r \in Runs :
          (call[c].op \in {"update", "complete"} /\ call'[c] = Idle
             /\ call[c].run = r /\ runs'[r] # runs[r])
          => runs[r] = call[c].base]_vars

\* A failed, completed or rolled-back run never changes again, whoever writes.
\* (the core lets a failed run go back to provisioning, the trigger does not)
TerminalRunsImmutable ==
    [][\A r \in Runs :
          (Exists(r) /\ runs[r].status \in TerminalStatuses) => runs'[r] = runs[r]]_vars

StepAdvances(old, new) ==
    /\ new.attempt >= old.attempt
    /\ old.startedAt # NoTime => new.startedAt = old.startedAt
    /\ old.status = "completed" => new.status \in {"completed", "compensated"}
    /\ old.status = "failed" => new.status \in {"failed", "compensated"}
    /\ old.status # "pending" => new.status # "pending"

\* A step that is completed stays completed until it is compensated, a failed
\* step is not run again (a retry is another run), its attempts never decrease
\* and its start time never moves: the core would run a failed step again.
\* (validateRunEvolution and reject_run_step_update)
StepsAdvance ==
    [][\A r \in Runs : (Exists(r) /\ runs'[r] # runs[r]) =>
          \A s \in Steps : StepAdvances(runs[r].steps[s], runs'[r].steps[s])]_vars
=============================================================================
