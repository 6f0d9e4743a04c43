# Verification of the software commercialization platform

TLA+ modules, TLC configurations and TLAPS proofs about the Go backend under `src/platform/backend`. Every
definition is translated from that code and from the SQL migrations it runs on; `PROJECT.json` names, for each
definition, the lines it stands for.

To repeat everything, in this directory:

    tlasany M.tla                         parse a module
    tlc -workers 2 -config X.cfg M.tla    model-check a run of PROJECT.json
    tlapm M.tla                           check the proofs of a module

## 1. The system

An administrator describes a product in a *blueprint*; the platform resolves it into an *assembly plan*;
confirming and starting the plan creates an *assembly run*, which a worker takes through provisioning
(product, official tenant, applications, capabilities), generation of the project's files, validation and
completion. A failed run may be retried as a new run of the same root. Administrators log in with a password,
hold a session with rotating tokens, and pass a guard in front of every operation; client applications
authenticate with credentials that administrators registered. Everything is stored in PostgreSQL, one schema
per module; every module writes audit events to an outbox in the transaction of the change, and a dispatcher
delivers them to the audit log.

| component | state it keeps | operations | interacts with | what makes it hard |
|---|---|---|---|---|
| assembly core, repository, triggers (`modules/assembly/core`, `postgres`, migrations 000011-12) | blueprints, plans, runs, steps, manifests, locks, diagnostics, idempotency records, outbox, dispatches | CreateBlueprint, CreatePlan, ConfirmPlan, StartAssembly, RetryRun, BindProduct, UpdateRun, CompleteAssembly, ClaimDispatch and its kin | called by routes and by the execution workflow | validation on an earlier read; two sets of rules (Go and triggers); repeated keys; concurrent retries |
| assembly execution workflow (`workflows/assemblyexecution`) | the execution's copy of the run, the lease | Execute; the worker's claim, renew, requeue, complete | core, provisioning, applications, product, generation | leases that run out, crashes between steps, failures to record failures |
| assembly planning, machine catalog (`modules/assembly/planning`, `machinecatalog`) | the catalog loaded at start | BuildPlan, Resolve | core | a backtracking search whose constraints depend on earlier choices; a catalog that changes with a restart |
| assembly routes and transport | none | one call each; StartAssembly is two | core, planning | two transactions for one request |
| assembly generation (`modules/assembly/generation`) | the target directory, staging, journal, artifacts | InspectTarget, PrepareTarget, Commit, Rollback, Publish | file system | partial commits, failed clean-up, rollback after publication fails |
| product, product application, tenant | products, clients and credentials, client sessions, capability sets; applications, bindings, redirect policies; tenants; each with idempotency records | Begin/CompleteProvisioning, Register/Rotate/Revoke, CreateClientSession, ReplaceCapabilitySet; CreateApplication, BindClient, ReplaceRedirectPolicy, Suspend; EnsureOfficialTenant, CreateTenant | each other through workflows | racing writers of one version, repeated keys |
| product provisioning, client registration, client context (`workflows`) | none | create a product with its official tenant; register a client in two modules; assemble a client session | product, application, tenant | several transactions for one request, each of which may fail or interleave; reads that become stale |
| identity | users, login failures, sessions, token families, controlled clients | login, refresh, logout, disable | access control, audit | refresh replay against refresh race, lock order, throttle windows |
| access control, administrator guard | scope bindings, authorization versions | bootstrap, bind scope, snapshot; authorize | identity, tenant | a snapshot of two statements, stale permissions |
| audit outboxes (`cmd/server/audit_outbox.go`, six `ClaimOutbox`) and audit | outbox rows, audit log | claim, append, mark published or failed | each other | redelivery, stale marks, give-up limits that differ |
| migrations runner (`platform/migrations`) | schema, its history, an advisory lock | ApplyUp, ApplyDownAll | PostgreSQL | concurrent servers of several releases, gaps, deaths |
| platform packages, tools, web clients, SDK, scripts, stub modules | - | - | - | plumbing or no code; see section 7 |

What makes the components correct: a run follows its life cycle and never changes once terminal; row,
manifest, diagnostics and audit events of a run agree; a retry chain is a chain; one run per idempotency key;
one product per root run and one product per completed plan; one executor per run; no run is lost by the
queue; a plan is a resolution of its blueprint, and one is found if there is one; a ready product has its
official tenant; requests under one key are answered alike; a client has one usable credential, a proof opens
one session, and a session made of stale reads shows it; a session has one live refresh token, a replay or a
logout ends it; the wrong passwords that a source may try at an account one after another are bounded, also
after blocks and logins; a permission is never older than the version it is given with; every
audit event reaches the log once or is given up only after its attempts; the schema is always a beginning of
one release.

## 2. Modules

| module | models | composed with |
|---|---|---|
| `RunEvolution` | the rules a run may change by, twice: the core's (`validateRunEvolution`) and the triggers' of migration 000012 | used by the next two |
| `RunLifecycle` | abstract: what a run promises to those who watch its status | implemented by `AssemblyRun` and `AssemblyExecution` |
| `AssemblyRun` | the run records of one plan: starting, retrying, binding, updating, completing, by concurrent callers | extends `RunEvolution`, instantiates `RunLifecycle` |
| `AssemblyExecution` | dispatch rows, leases, workers and `Execute`, with crashes, interruptions, failed operations and missed renewals | extends `RunEvolution` |
| `PackageCatalog` | pure: the resolver with its search, the agreement of applications and templates, `BuildPlan` | used by the next |
| `AssemblyPlan` | the start request: confirm and start in two transactions, repeated by the client | implemented by the next |
| `AssemblyPlanning` | designers that create blueprints and plans under keys, with lost answers and servers that restart with another catalog, and then start a plan | extends `AssemblyPlan` and `PackageCatalog` |
| `AuditOutbox` | the delivery of audit events from any of the six outboxes | - |
| `GeneratorCommit` | one request of the generator on a target directory: commit, publication, restoration, evidence, explicit rollback, with failed calls, crashes and edits by others | - |
| `ServiceCalls` | what the platform's services share: answers, identifiers, the clock, idempotency receipts | extended by the next five |
| `Product`, `ProductApplication`, `Tenant`, `AccessControl`, `AdminIdentity` | one module of the program each: its tables, and one operator per transaction of its repository | composed by the next |
| `RequestFlow` | how a request goes through the services: sent, one transaction after another, failed in between, answered, sent again; time | extends the five |
| `SoftwareRequests`, `AdminRequests` | the steps of every kind of request: products, clients, sessions, applications, tenants; administrators, their sessions and the guard | extend `RequestFlow` |
| `PlatformRequests` | both kinds side by side in one database | extends both |
| `Migrations` | the migrations runner: loading, the advisory lock, the history, the transaction of each migration, up and down | - |
| `MC*` | instances for TLC | |
| `AssemblyRunProofs`, `AssemblyExecutionProofs`, `AssemblyPlanningProofs`, `AuditOutboxProofs`, `GeneratorCommitProofs`, `MigrationsProofs`, `SoftwareRequestsProofs`, `AdminRequestsProofs` | theorems | the last two are about `PlatformRequests` |

### State and actions against the code

*AssemblyRun.* `runs` is `assembly_runs` joined with `assembly_run_steps`; `diagnostics`, `manifests`,
`outbox`, `idem` are the tables of those names. A service operation that reads before its transaction is two
actions: `UpdateRun(c, ..)`, `CompleteAssembly(c, ..)`, `RetryRun(c, ..)` are the service up to the repository
call, and leave in `call[c]` what was validated against what; `UpdateRunCommit(c)` and `RetryRunCommit(c)` are
the repository's transactions, whose row lock and version comparison make them one step. `BindProduct` and
`StartAssembly` decide everything in their transaction and are one action. `CallFails` is a rolled-back
transaction, for any reason. Idempotency records are kept for the operations that create a run, since only
there does the record decide what an answer names; for the others a used key changes nothing, which
`CallFails` covers. A document is reduced to its status, steps, completion time, recovery and diagnostic
identifiers.

Timestamps: `Stored` is what a `timestamptz` column keeps of a nanosecond time; `SubTicks` clock readings fall
into one microsecond. The document is submitted with its own times and the row gets the stored ones.

*AssemblyExecution.* `dispatch` is `assembly_run_dispatches`, `live` is `lease_until > now`; `worker[w].pc` is
the next statement of `Execute` or of `runOne`, and `seen` the run as the execution last got it. An update of
the run is one action (`Persist`), although the core reads before its transaction: `ValidatedRowReplaced` of
`AssemblyRun` shows that what it validates against is what it replaces, and `Persist` allows the read to give
what the worker last saw or what the run has become. Product, application and capability services and the
generator are external: what matters here is that they answer a repeated key with the first answer, and that a
failed call may have had its effect. `Crash` makes the lease owner `Dead`: a restarted process has another
random worker identifier.

*AssemblyPlan.* `request[c].pc` is where the adapter is: read and branch (`Submit`), `ConfirmPlan`, core's
check (`StartAssembly`), the transaction (`StartRun`), the answer. `Lost` ends a request at any point.

*AuditOutbox.* `Source` records how the six outboxes differ: whether a claim tells the dispatcher the attempt
count with or without the new attempt, at which count an event is dead, and whether a failure is recorded of a
published row. `batch[d]` is what a dispatcher claimed and has yet to deal with, in the order of time. A claim
of 30 seconds runs out like any other `next_attempt_at` (`BecomesDue`), so two dispatchers may work on one
row.

*GeneratorCommit.* `target` is the target directory, each file with one of four contents (`edited` is any that
is neither the previous nor the generated one); `staging` is the staging or recovery directory inside it,
`artifacts` the request's directory in the artifact store with its journal and result, and `process.pc` the
next part of `Execute`, `Commit` or `Rollback`. The files are looked at and replaced one by one (`CheckFile`,
`replaceFile`) and restored one by one in reverse order (`rollbackApplied`), since someone may edit them in
between; an inspection of the whole target is one step. What is published of a failure is decided by
`ValidResult`, the conditions of `generator-result.schema.json`: if the result does not satisfy them, nothing
is published and the artifacts are removed (`Cleanup`). `editedAt` is a history variable: it says whether the
operation still looked at a file after its edit. The generator's other inputs (rendered bytes, ownership,
integration regions) only decide which files a request creates, updates or leaves, which are the constants
`Requests`. A request is executed by one process at a time, as the lease of its run is meant to ensure.

*PackageCatalog and AssemblyPlanning.* The search is a recursive function, in the order of the code: the first
package in the order of identifiers that is required and not chosen, its versions from the highest, and on
failure the next version. A version range is the set of versions in it. `Contents` gives every catalog a
server may load; `draft[d].pc` is what designer `d` does next and `told` the blueprint or plan it was answered
with. Creating a plan decides first (`BuildPlan` reads the catalog and the blueprint) and writes then; since
blueprints never change and a catalog changes only when the server restarts, which ends the request, both are
one action. `PlanStep` is any step of `AssemblyPlan` on a plan there is: the composition adds nothing to it,
as theorem `PlanningStarts` shows. Schemas, checksums, extensions, secrets and duplicate providers are left
out.

*Product, ProductApplication, Tenant, AccessControl, AdminIdentity.* Every operation is `Op(r, c, ..)`: the
request `r` calls it with the command `c`. It has a refusal (the code's conditions in order), an effect, and
an answer in `result[r]`. A keyed operation is `ClaimIdempotency` (the receipt answers, or it is refused) or
has its effect and stores its receipt. Operations that read and lock before they write are one action where
one row lock covers what they read, and several where it does not: `AuthenticateClient`, `CheckClientSession`
and `CreateClientSession` are the three looks at a client's credential, of which the last two are in one
transaction that locks nothing. `AdminIdentity` has locks of its own (`held[r]`), since refresh, logout and
the end of a client lock tokens and sessions in orders that may form a circle; the rows that one statement
takes are taken together. Deadlocked transactions are ended by PostgreSQL (`DeadlockStep`). A token is its
digest; the token against forged requests is `<<session, version>>`.

*RequestFlow, SoftwareRequests, AdminRequests.* `stage[r]` is the next call of request `r`, `context[r]` its
command and what its calls have answered, `outcome[r]` what the caller got. `Send` prepares a command:
identifiers come from the answers of earlier requests (`uses`), the clock is read where the handler reads it.
`Fail` is a lost connection or a failed call at any point, and rolls an open transaction back; the caller may
`Send` the same request again, with new identifiers and a new clock but the same key. `Continues` is the error
path: a call that was refused ends the request. The steps of a kind are its handler's and workflow's calls in
their order (`BeginStep`, `EnsureStep`, `CompleteStep` for a product). What has no route but a tool
(`bootstrap-admin`, `manage-admin-auth-client`) is a request as well.

*Migrations.* `schema` is the sequence of migrations whose objects exist, `history` the rows of
`platform_meta.schema_migrations`, `process[p].applied` the history that process `p` read and `next` its place
in its release. `Load` is the set of files turned into a sorted sequence, `ValidateHistory` the comparison
with it. A runner that returns, fails or dies closes its connection, with which PostgreSQL gives the advisory
lock back.

## 3. Runs and what they show

| run | question | bounds |
|---|---|---|
| `run_evolution` | Do updates and completions that overlap keep row, manifest and diagnostics in agreement and the life cycle in order? Is a retry chain a chain? Can runs of one plan complete with different products? | one of: 1 run with 2 overlapping callers to version 4 and one at version 5, with documents for every stage and step status, including ones the code would not send, and two readings in one microsecond; or 3 runs, 2 callers, 3 keys, failures that may and may not be retried; or 2 runs, 2 products, a straight way to completion |
| `execution_workers` | Do leases and the status check keep executions apart, is nothing lost or done twice, and does every planned run start? | 2 workers with different clocks, 2 runs, 2 products, 1 failure of any kind, fairness |
| `plan_requests` | Is a plan a resolution, and is one found if there is one? Do repeated and competing drafts and starts agree? | 192 catalogs of 3 packages and a template, 2 versions each; 3 designers under 2 keys, 1 lost answer, 1 restart; then 4 requests to start under 3 keys, 1 lost; fairness |
| `outbox_delivery` | Is every event delivered once or given up after its attempts, and never both lost and unmarked? | 2 events, 2 processes, batches of 2, 2 attempts, 2 failures, all six outboxes, fairness |
| `generator_files` | Is what the generator reports and publishes true of the files, whatever fails and whoever edits, and are visible edits kept? | 3 files, all 64 requests, each file edited once at any time, failures and crashes unbounded |
| `platform_requests` | Do requests that interleave between the transactions of their modules leave the platform's promises intact, and do they all end? | 21 workloads of 3 to 11 requests, each with its own number of failures (0 to 2) and end of time (1 to 4), fairness |
| `migrations_runners` | Do runners of different releases keep the schema in order and the history true, and does each end? | 6 processes: a release, an older one, a branch without a version, a directory with two names for a version, an edited file, and one that takes all back; 1 fault; fairness |
| `execution_complete`, `execution_resume`, `execution_provision`, `registration_retry`, `plan_atomic` | five statements of the documents and tests that the program does not meet, see section 6 | the smallest that shows it |

*The workloads of `platform_requests`.* Each sets the requests of one hazard side by side, after the ones that
prepare them. Of software: `Provisioning` (one key twice, one code twice, two failures), `Registration`
(failing between its two modules; the application of another product), `Rotation` (two rotations, a revocation
and a session), `Suspension` (two sessions with one nonce beside two suspensions), `Refusals` (what a session
is refused for), `Versions` (capability sets and redirect policies on one version), `Tenants` (agents with one
code, administrators of tenants of two products). Of administrators: `Refreshes`, `LogoutBeside` in
both orders of digests (the deadlock), `Logouts` (proofs of different sessions or kinds), `Clients` and
`Credentials` (ended beside login and refresh), `Guard` (high-risk operations after login and after refresh),
`Scopes` (bindings beside snapshots), `Withdrawn`, `Expired`, `ExpiredClient` (a credential ends between two
refreshes with one token); and wrong passwords one after another, `GuessesBesideGuess` (6, and another that
overlaps them, until time 3), `GuessesBesideLogin` (9, and a login with the right one, until time 2) and
`GuessesRepeated` (6 until time 3, one of which fails or loses its answer). An invariant is checked in every
workload, not only in that of its hazard.

*What `GuessesBounded` counts.* Each failure that `RecordLoginFailure` records is told by one event, as
`login_failed` or as `account_locked`, and is a password that was compared and not let in; `FailedGuesses`
counts both. The bound is for guesses of one source at one account of which each is sent when the one before
it is over (`OneByOne`): in a window of the counter there are the `MaximumAttempts` up to the first block and
one after each block that runs out before the window does, and a login on the account clears the counter, so
that it begins anew. Overlapping guesses read the counter before it blocks and count afterwards; each of them
lets one more through at most, which is the last term. Without the look at the block (the mutant
`NeverBlocked`) the bound is broken. No term of it is to spare: without any one of them (the windows, the
blocks of a window, the logins, the overlapping guesses) the workloads go past it.

*Why the bounds are enough.* Two callers are the fewest between whose read and write another may write, and a
third adds only another writer of the same kind: the version comparison cannot tell who wrote. Five versions
take a run from its start through every stage to completion (bind, provisioning, generating, validating,
completed). Three runs allow two successors of one parent and a chain of two retries. Two workers allow a
stale and a current executor, and one missed renewal makes a lease stale. Three packages of two versions allow
a choice that a later one forbids, a dependency of a version that is given up, a cycle, a conflict, and a
package that nobody provides. Three files allow one that is replaced, one in progress and one to come, or two
changed ones and one the request does not name. Two attempts in the outbox allow an event to be dead by its
own attempt and by that of another dispatcher. Two failures in `Provisioning` allow a request to fail between
any two of its three transactions and its repetition to fail as well; two requests that race are the fewest
for each compared version, nonce, generation or token. With a window of two times and a block of one,
three guesses block, so that four of a chain fill a window and the fifth would break its bound; the third time
begins a second window; a guess beside a chain can be late; and nine guesses beside a login are
more than the bounds before it and after it together. One fault lets a runner of migrations die with the lock, in every place. Deadlock is not
checked: when all runs are terminal, all requests answered, all events settled or all runners ended, the
system really stops.

*Constraints.* `AloneRetriedOrStraight` in `run_evolution` is the union of the three instances of the table in
one state space. `OnePlanStarted` in `plan_requests` lets the start requests begin only at the end of one of
the draftings; what may happen to a plan afterwards does not depend on how it was drafted (theorem
`PlanningStarts`), and once they began nothing leaves the constraint, so that liveness sees whole behaviours.

*Symmetry* is used for callers and keys in `run_evolution`, which are only compared for equality, and in no
run with liveness properties.

*Fairness.* `AssemblyExecution`: a worker's loop goes on (weak fairness of `Work`); a lease that nobody renews
expires since time passes (weak fairness of `LeaseExpires` while nobody renews); and a claim takes the row
that became available first (`ORDER BY available_at`), so a run is not passed over for ever (strong fairness
of a claim of each run). Nothing is assumed of failures, which are bounded in number. `AssemblyPlan` and
`AssemblyPlanning`: a client repeats its request and the server proceeds, once there is a plan. `AuditOutbox`:
time passes and a running dispatcher goes on; an event need not happen. That a claim serves the oldest rows
first is part of the action, not of the fairness. `PlatformRequests`: the server goes on with some request
that can go on, and a caller whose request failed repeats it, as `docs/adr/0012` asks of it; nothing of
failures or time. `Migrations`: a process that is started goes on.

*`OneExecutor` and the clock.* Two workers past a stale lease may both read the run as planned. The version
comparison lets one of them commit; the other is answered by the idempotency record of the same key, but only
if its document is identical, i.e. if both processes read the same nanosecond. The property states this: with
clocks that never agree there is one executor. With a common clock both would go on, and only the idempotency
of the external services keeps them from doing harm.

Every property of a passing run has a mutant in `PROJECT.json`: a definition of the model changed in the way
of a plausible bug, under which TLC finds the property violated. The variants are defined beside the
definitions they stand in for, with a comment that begins "Instead" or "A mistake".

## 4. Proofs

The theorems hold for every value of the constants that the modules' assumptions admit: any number of runs,
callers, keys, documents, designers, catalogs, clients, events, processes and releases, and no bound on
failures other than its being a number.

*AssemblyRunProofs.*
- `TypeCorrect`: the type invariant. It rests on lemmas about each transaction's row.
- `TerminalRunsStay`, `StepsOnlyAdvance`, `LifecycleImplemented`: every change of a run is a `BindProduct` or
  an `UpdateRunCommit`, both judged by `runRowMayChange` and one of them also by `validateRunEvolution` on the
  row it was validated against. The life cycle needs both judgements: the core lets a failed run go on, the
  trigger lets a run roll back.
- `ValidatedRowIsReplaced` and `PendingCorrect`: versions only grow, and a row keeps its contents while it
  keeps its version. The inductive invariant (`PendingInv`) says that a pending call's `base` was the row at
  its version; if the version compared under the lock is the expected one, the row is the base.
- `RetryChainHolds`, `RetryKeepsTheProduct`: from `ChainInv` with `RetryInv`, which says what a pending retry
  knows of its parent: a failed row is immutable, so what the read said of it still holds at the commit. The
  unique successor comes from the constraints of `assembly_runs`, not from the service.

*AssemblyRunProofs, what explains a run.* `ExplainedCorrect` adds to the invariant above what the other tables say of a row
(`TablesAgree`), what a pending call has made sure of (`EvidenceInv`: a failure document names the diagnostics
it brings, a completion is of a run bound to the plan's product) and that a plan has one product at most
(`PlanInv`). The point is the completion: its product was checked on a row read before the transaction, and a
bound product never changes, so the row that is replaced has it still. `CompletedRunsHaveManifests`,
`FailuresAreExplained`, `PlansCompleteOneProduct`, `VersionsHaveEvents` (one audit event per version of a run)
and `KeysHaveOneRun` follow.

*AssemblyExecutionProofs.* `ExecutionCorrect` proves an inductive invariant (`Inv`) of three parts: what a
run's row and dispatch say of each other (`QueueSound`, `RunSound`), what the records of the answered keys say
of the runs (`RepliesSound`), and what a worker knows at each place of `Execute` (`WorkerSound`: what it last
saw is a version the run has or had, what it has provisioned exists, and past the first update the row was
opened with its document). The last part gives `RunsHaveOneExecutor`: two executions past the first update
would both have submitted the document of the one answer. `RootsHaveOneProduct`, `RunsAreNotLost`,
`GeneratedRunsAreProvisioned` and `TypesCorrect` follow; `ExecutionNeverUndone` says that no step takes back
what an execution has reached, and `ExecutionFollowsLifecycle` that the runs under the workers implement
`RunLifecycle` as well, crashes and take-overs included.

*AssemblyPlanningProofs, starting.* `PlanCorrect` proves an inductive invariant (`IInv`): a plan is confirmed once, at one
version; every record, run and request that is past the confirmation (`OnTrack`) names that version, and the
record of a key names the one run of the key. `RunsAreOfConfirmedPlan` and `AnswersAlwaysAgree` follow.

*AssemblyPlanningProofs, drafting.* `PlanningStarts`: drafting with starting implements starting alone, each step being
one of `AssemblyPlan` or a stutter; so what is proved of a start (`PlannedRunsAreConfirmed`,
`PlannedAnswersAgree`) holds beside any drafting. `DraftsCorrect` proves what designers are told: records and
drafts name stored blueprints and plans, and a key that has a record keeps it (`DraftsAlwaysAgree`). It
assumes of the constants what `PlanningAssumption` says: that servers load catalogs that have contents, and
that no blueprint or plan is the mark of an absent one.

*AuditOutboxProofs.* `DeliveryCorrect` proves an inductive invariant: a dispatcher about to mark a row
published has its event in the log (`LogInv`), and was told of no attempt that the row does not count
(`AttemptInv`); the latter, with a relation between limit and counting that `SixSources` proves of each
outbox, gives `DeadEventsWereTried`. `PublishedEventsAreLogged` and `PublishedEventsStay` follow.

*GeneratorCommitProofs.* `EarlyEditsAreKept` follows from an inductive invariant (`EditsInv`): in every state
from which an operation writes a file without another look, that file holds no edit that could have been seen
(`LookedAtInv`), for the one file that was just checked, for those already replaced and for those left to
restore. `PublicationsAreTrue` rests on `VerifiedInv`: from the final verification on, every file has its
generated content or was edited since. `EvidenceAlwaysStays` rests on `EvidenceInv`: only an execution that
found nothing published runs on, and only the rollback of committed changes runs beside published evidence.
`FailureReportsAreTrue` follows every file through a commit and its restoration (`FilesInv`): a file that is
not yet replaced, or restored already, is as the operation found it or edited since, and the backup of every
other would make it so, as long as no restoration has failed; so when a failure is published that calls the
target unchanged, it is. A result for which that does not hold never passes the validation (`Reports`).
`TypeCorrect` is the type invariant.

*MigrationsProofs.* `MigrationsCorrect` proves an inductive invariant: a runner past the lock holds it (so
there is one), what it read is the history when it began, and in the state of a working runner at place `next`
of its release, of which the first `k` migrations were applied, the schema is the first max(`k`, `next` - 1)
of them (upwards) or the first min(`k`, `next`) (downwards). `HistoryIsTrue` and `SuccessIsCurrent` follow for
any releases. A history is a set and a release a sequence; that a release is determined by the set of a
beginning rests on `SortedAreSame`, proved by counting the elements below one. `LoadAssumption` states what
`sort.Slice` does, since the theory of sorting is behind a recursive definition.

*SoftwareRequestsProofs.* The theorems are about `PlatformRequests`, that is, of every kind of request beside
every other, for any workload that `WorkloadsAssumption` admits: a request is of a known kind, has the fields
that its handler asks for, names its caller and a key exactly if its kind is one of `KeyedKinds`, takes only
from answers it waits for, and has no token that was not issued. `FlowCorrect` is the frame of all of them (`FlowType`): a request counts its attempts,
and no identifier of an attempt that is to come is in any table (`Fresh`, `NewId`), since a request makes each
kind of row at one step only. Each property has an invariant of its module's tables:
- `CredentialsAreSingle` from `CredentialInv`: the generations of a client's credentials differ, and an active
  credential is the newest. The rotation compares the generation with the newest one under the client's lock.
- `VersionsAreContiguous` from `ApplicationInv` and `CapabilityInv`: the versions of a table are 1 up to its
  count, so that the next number is free although it was read before the write.
- `SuspensionsShow` and `ProofsOpenOneSession` from `SessionInv`: what a request has read of its application
  is no later than the row, and earlier once the application is suspended; a session's nonce is taken.
- `ReadyProductsAreWhole` from `ProvisioningInv`: the receipt of a key, the product, its official tenant and
  the requests between the three transactions name each other.
- `EffectsAreToldOnce` from those and `ToldInv`.

*AdminRequestsProofs.* Administrators' requests read what they decide on at several steps, so the invariants
say what a request still knows at each step of its route.
- `TokensCorrect`: `FlowInv` (a request is on the route of its kind, and its answer is what its steps made),
  `TimedInv` and `HasInv` (it read the clock when it was sent, and has the fields its kind needs), `TokenInv`
  (tokens and sessions are sound: one refresh token that can be used, access tokens of its generation, none of
  a revoked session; a client that was ended has no session). `RefreshTokensAreSingle` follows.
- `ServingCorrect` (`ServedInv`): a session is that of a login, with the time of its password, and a request
  that is past its session belongs to a client that was in use when the request began. `HighRiskIsRecent` and
  `EndedClientsAreCutOff` follow.
- `LogoutCorrect` (`IssuedInv`, `LogoutInv`): a token that a request shows was issued or is none; that a
  logout left it of no use stays so, since tokens and sessions only come to their end. `LogoutsEndSessions`.
- `SnapshotsCorrect` (`AccessInv`, `SnapInv`): a version counts every binding, so what is read after a version
  covers it. `SnapshotsCoverVersions`.
- `RenewalsCorrect` (`FamilyInv`, `RenewInv`): for each reason a refresh may be refused with, what it says of
  the token it was sent with (`Refusal`); a refresh that was answered has used its token up, and no two have
  used up one. `ReplaysRevoke`.
- `KeyedCorrect` (`KeyedInv`): at every step a request with a key is what its command and the receipts of the
  steps behind it make of it (`Reaches`, `Stands`), and so is its answer (`Answers`). Receipts never change,
  and where the clock is part of a command the receipt is one of the same time; so one command leads to one
  answer (`ReachesOne`), whichever requests have it and however their calls interleave:
  `KeyedRequestsAgree`.
- `CountersCorrect` (`GuessInv`, `CountInv`): `Excess` is by how much the failures told to some requests one
  after another go beyond the windows before the present one, beyond as many windows again for each login that
  has cleared the counters (`Cleared`: a login between its session and its clearing is not among them yet), and
  beyond one for each other failure. When there is a counter the excess fits its window (`Fits`): it is what
  the counter counts at most, and from the first block on, what the window allows until the last of these
  guesses was sent; when it is all of that, the counter blocks still. A guess on its way may follow
  (`MayFollow`) if it was sent later and found no block when it looked, or if others were counted so often that
  it does not matter. When there is no counter the excess is used up. A failure of the requests in question
  adds one and takes the room it was found to have; one of another request adds to the counter and takes one
  off the excess; a restart of the window and a clearing take off what a window allows (`WindowAllows`). Of
  requests one after another only one is under way (`OneUnderWay`), and a failure is told under an identifier
  of its own (`FailureIsNew`). `GuessesAreBounded` follows, at any time and with any number of sources,
  overlapping guesses, failures and logins.

Attempting these proofs corrected three properties. `ReplayRevokes` had held of every refused refresh in the
workloads there were; but a controlled client whose credential has expired is refused before its token is
looked at (`session_revoked`), and its session stays. The property now leaves that case out, and the workload
`ExpiredClient` shows it. `SnapshotCoversVersion` did not say of which requests it speaks: those that take a
snapshot. `GuessesBounded` had counted the failures of any stretch of one window's length; but the events
carry the time at which a request read the clock, and requests may be counted late and out of order, across a
login that clears the counters: the bound held in the workloads only. It now counts all failures of a counter,
those that are told as a lock too, against the windows there was time for and the logins there were, and sets
those of overlapping requests apart, which is what the throttle gives in any order. `PolicyAssumption`
says with the configuration (`config.go:186`) that `MaximumAttempts` is 3 at least. The proofs also made
explicit that callers do not guess tokens, and that only the handlers which ask for a key get one.

*Proved and in no run*: `DeadEventsWereTried`, `PublishedEventsStay`, `EvidenceAlwaysStays`,
`TerminalRunsStay`, `StepsOnlyAdvance`, `RetryKeepsTheProduct`, `KeysHaveOneRun`, `VersionsHaveEvents`,
`ExecutionNeverUndone`, `ExecutionFollowsLifecycle` and the type and inductive invariants.

*Model-checked only.* Of the safety properties `PlansAreResolutions`, which speaks of a recursive search and
would need an induction over data. Liveness (`EventSettles`, `ConfirmedKeyGetsRun`, `PlannedRunStarts`,
`PendingIsCompleted`, `RequestsSettle`, `RunnersEnd`) is out of the proof system's reach, as are `ENABLED`,
induction over data and RECURSIVE operators; no module uses the last. Every other property of a passing run is
a theorem.

## 5. Hazards

`PROJECT.json` lists them at their lines with the properties that cover them. Four name no property of a run:
two are theorems (`DeadEventsWereTried`, `EvidenceAlwaysStays`), two are losses that the code does not prevent
and that the next paragraph describes.

Remarks that are no property:

The generator looks at a file for the last time before it replaces it. An edit after that is overwritten by a
restoration, even the very edit that the verification after the commit has just found (`commit.go:174`),
although `docs/adr/0011-deterministic-secure-generator-contracts.md` says that a result of another process
must not be overwritten. If a restoration fails, or the target no longer is the final snapshot after the
commit, the result cannot satisfy the schema: nothing is published, and the clean-up removes the artifacts,
the backups among them (`executor.go:122`). An error of `MarkRolledBack` is ignored, so a failure may be
published beside a journal that still says prepared or committed. After a crash nothing restores a
half-replaced target: the request is answered with a conflict from then on. An explicit rollback compares the
whole target afterwards: if a custom file has changed since, or a forked one exists (which
`verifyRollbackSnapshot` takes for custom), it reports a failed rollback although all managed files are
restored. `FailureReportTrue` and `EvidenceAlwaysStays` hold in all these cases: what is published is true.

A dispatcher whose claim has run out may report a failure of a row that another has dealt with meanwhile. All
outboxes let it reopen a dead row, Identity's also a published one, since `MarkOutboxFailed` has no condition
on the status there. The event is then delivered again and the log ignores it, so `PublishedIsLogged` and
`EventSettles` hold; `PublishedEventsStay` excludes Identity. Product and Tenant give up one attempt later
than the others, since their claim returns the count before it is incremented.

*Planning.* The search backtracks over versions of packages as `docs/features/assembly/contract.md:20` asks,
and for one application `PlansAreResolutions` says that it finds a resolution if there is one. But each
application is resolved on its own, and two different results are refused as a version conflict even if one
set of versions would suit both (`planner.go:266`); and providers, capabilities and outputs are looked at
after the search, with no backtracking past them. A second key for a plan that exists conflicts, and no route
lists plans. A plan is made before its idempotency record is looked at: a repeated request is answered with
the old plan although the catalog is another, but refused if the blueprint can no longer be planned.

*Sessions.* The query for an access token does not look at the end of the session as a whole
(`AbsoluteExpiresAt`), and a refresh does not cap the new access token at it: an access token may outlive its
session by its lifetime, and a logout in that time answers 204 without revoking anything. `LogoutEndsSession`
excludes this case. A comment (`identity/postgres/repository.go:293`) says that the order of locks in a logout
rules deadlocks out; a logout with the refresh token alone beside one with both, or the end of a client beside
a refresh, can still wait in a circle, which PostgreSQL ends (`RequestsSettle`).

*The throttle.* A login looks at the counter before it compares the password and counts a failure after it, in
another transaction, so guesses at one time all pass a counter that does not block yet: the bound of
`GuessesBounded` is for guesses one after another, and one more for each that overlaps them. It is a bound for
one source and one account; other sources have counters of their own. A guess whose request ends after the
comparison and before the count (a lost database connection) is not counted, but not answered either. A login
that fails late can shorten a block. `blocked_until` is kept when a block has run out, so every failure after
the first block is told as `account_locked`, although the caller gets `invalid_credentials`, until a login
succeeds and clears the counter (`identity/postgres/repository.go:55`). A counter that restarts with its
window lets almost two windows' worth of guesses pass in one window's time. Each login that succeeds clears the
counters of all sources, and a failure that was under way then is counted anew.

*The guard* unites permissions and scopes independently of one another.

*Software.* Binding a tenant's administrator conflicts with its own repetition like a registration does, since
its command has the clock's time. `GET /products/{id}/capabilities` answers 500 as soon as there is a set, and
suspending an application that was created suspended answers 500 although it is answered under its key.
`revoke_existing` revokes no session: what protects is that the context version of the session is behind
(`StaleSessionDetectable`). The route that revokes a credential counts path segments differently from the
OpenAPI document. These are mistakes of single answers and are in no property.

*Migrations.* Each process runs once; `ApplyDownAll` is meant for disposable databases.

## 6. Where the program differs from its documents and tests

- `execution_complete`: no run completes. `nextRunDocument` keeps a completed step completed, and
  `validStepTransition` rejects a completed step that stays completed. The first update after a step has
  completed is the one to validating; nor can a failed generation be recorded. The unit test that runs the
  chain to completion has a stub in place of the core.
- `execution_resume`: a run whose worker dies after provisioning started is claimed again for ever, since
  `Execute` takes only planned runs.
- `execution_provision`: the failure of an operation right after provisioning started is not recorded, if the
  start time is not a whole microsecond: the run that `UpdateRun` returns has the document's nanoseconds.
- `plan_atomic`: confirming, creating the run and the dispatch are two transactions; the contract says one.
  `ConfirmedKeyGetsRun` shows what makes it good when the client repeats its request.
- `registration_retry`: a registration that failed between its modules, or whose answer was lost, cannot be
  repeated: the handler puts its clock into the validity of the credential, which is part of the digest of the
  request. `KeyedAnswersAgree` shows that nothing worse happens.

## 7. Not modelled, and why

Listings and queries, document formats and schema validation, loading a catalog from files: data without
protocol. The encoding of HTTP requests and answers, configuration, logging, database pool, health: I/O. The
renderer, the analysis of ownership and of integration regions, path checks and eject of the generator:
functions of files whose outcome the constants of `GeneratorCommit` enumerate. Password hashing and token
formats: cryptography, taken to be ideal. `TouchSession`, whose result nobody reads, and
`RevokeClientSession`, which no route calls. The tools for templates: run by hand on files. Stub business
modules: a `doc.go` each. Web clients and SDK: wrappers of the HTTP API. Rolling back a completed run:
`rolling_back` is not reachable, since the core never writes it. `withdraw_scopes` is external: an operator
who ends scope bindings in the database, which no code does.

Simplifications: the rows that one statement locks are taken together; with proofs of which the first is wrong
the code returns before it locks the second, the model after; a refresh reads the client of its session in
the statement that locks token and session (`FOR UPDATE OF t, s`), so what it sees of the client, whose row is
not locked, may be as old as the beginning of that statement, while `RotateRefresh` reads it with the locks
held (`EndedClientCutOff` does not depend on it: it speaks of requests that begin after the client was ended,
whose statements all see that); the wording of session errors is reduced.

## 8. What is left

All components of the plan are modelled, and all safety properties but one are proved. What could be added:

1. An abstract specification of `GeneratorCommit` (an operation leaves each file as it was, generated or
  edited, as its report says) with the refinement; `PublicationsAreTrue`, `FailureReportsAreTrue` and
  `EarlyEditsAreKept` together say what it would.
2. `PlansAreResolutions`: that a stored plan is a resolution of the catalog it was made with, by what the
  search returns rather than by how it finds it.
