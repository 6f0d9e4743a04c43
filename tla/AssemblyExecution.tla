-------------------------- MODULE AssemblyExecution --------------------------
(***************************************************************************)
(* The durable dispatch of Assembly Runs: workers claim a run's dispatch   *)
(* row under a lease and take the run through provisioning, generation and *)
(* validation (workflow assemblyexecution over the assembly core).         *)
(*                                                                         *)
(* Execute keeps a copy of the run, which each of its updates replaces     *)
(* with the run it returns.  core.UpdateRun reads, validates and commits;  *)
(* module AssemblyRun shows (ValidatedRowReplaced) that what it validates  *)
(* against is what it replaces, so an update is one action here.  The      *)
(* product, application and capability services and the generator are      *)
(* external: what matters of them is that they answer a repeated key with  *)
(* the first answer.                                                       *)
(*                                                                         *)
(* Each root run is of a plan of its own, for a new product; several root  *)
(* runs of one plan are in module AssemblyRun.                             *)
(*                                                                         *)
(* Failures are bounded by MaxFaults and by their kind: an operation that  *)
(* returns an error, an execution that is interrupted (a timeout, a        *)
(* shutdown, a lost database), missed lease renewals, a crashed process.   *)
(***************************************************************************)
EXTENDS RunEvolution, FiniteSets

CONSTANTS Runs,         \* run identifiers
          Workers,      \* server processes, one worker each
          Products,     \* product identifiers
          Applications, \* the applications of the plan
          Clock,        \* the readings of each process's clock
          NoRun, NoRow, \* absent values
          Dead,         \* the lease owner of a process that is gone
          FaultKinds, MaxFaults

ASSUME ExecutionAssumption ==
    /\ NoRun \notin Runs /\ Dead \notin Workers /\ NoProduct \notin Products
    /\ Clock \in [Workers -> SUBSET (Nat \ {NoTime})]
    /\ FaultKinds \subseteq {"operation", "interrupt", "lease", "crash"}
    /\ MaxFaults \in Nat

Steps == {"provision", "enable-capability", "generate", "validate", "commit"}

Document == [status: RunStatuses, steps: [Steps -> Step], completedAt: BOOLEAN,
             retryable: BOOLEAN, rollbackRequired: BOOLEAN]

Row == [status: RunStatuses, version: Nat, steps: [Steps -> Step], root: Runs,
        retryOf: Runs \union {NoRun}, product: Products \union {NoProduct},
        retryable: BOOLEAN, rollbackRequired: BOOLEAN, completedAt: BOOLEAN, manifest: BOOLEAN]

\* The answer that an operation's key is given: what was asked, and the run it made.
Reply == [request: (Document \X Nat) \union (Products \X Nat), row: Row]

ASSUME AbsentRowAssumption == NoRow \notin Row \union Reply

\* The statuses that Execute writes name the positions from which it writes them.
Updates == {"provisioning", "generating", "validating", "completed", "failed"}
Executing == Updates \union {"start", "product", "bind", "applications", "capabilities", "generate"}
Positions == Executing \union {"idle", "reread", "release"}

\* Idempotency keys of the operations on one run: one per status, one per failed step.
OperationKeys == (Updates \ {"failed"}) \union {"bind"} \union Steps

VARIABLES runs,         \* assembly_runs with assembly_run_steps
          dispatch,     \* assembly_run_dispatches
          replies,      \* idempotency_records of the operations on a run, per key
          worker,       \* each process's worker and its execution
          productOf,    \* products created, per execution key
          applications, \* applications created, per product
          capabilities, \* products whose capability set is that of the plan
          files,        \* runs whose generated files are committed
          faults

vars == <<runs, dispatch, replies, worker, productOf, applications, capabilities, files, faults>>

external == <<productOf, applications, capabilities, files>>

NoFailure == [step |-> "provision", retryable |-> TRUE]

Idle == [pc |-> "idle", run |-> NoRun, seen |-> NoRow, product |-> NoProduct,
         done |-> {}, failure |-> NoFailure, terminal |-> FALSE]

NoDispatch == [state |-> "none", owner |-> Dead, live |-> FALSE]

Pending == [state |-> "pending", owner |-> Dead, live |-> FALSE]
Completed == [state |-> "completed", owner |-> Dead, live |-> FALSE]
Leased(w) == [state |-> "leased", owner |-> w, live |-> TRUE]

NewRow(root, retryOf, product) ==
    [status |-> "planned", version |-> 1, root |-> root, retryOf |-> retryOf, product |-> product,
     steps |-> [s \in Steps |->
                  [status |-> "pending", attempt |-> 0, startedAt |-> NoTime, finishedAt |-> NoTime,
                   compensation |-> IF s = "validate" THEN "not_required" ELSE "pending"]],
     retryable |-> TRUE, rollbackRequired |-> FALSE, completedAt |-> FALSE, manifest |-> FALSE]

ExistingRuns == {r \in Runs : runs[r] # NoRow}

\* Instead: a run that has started ends its dispatch.
startedRun(row) == row.status # "planned"
terminalRun(row) == row.status \in TerminalStatuses

DispatchRow == [state: {"none", "pending", "leased", "completed"},
                owner: Workers \union {Dead}, live: BOOLEAN]

\* What a worker keeps of the run it executes.
Execution == [pc: Positions, run: Runs \union {NoRun}, seen: Row \union {NoRow},
              product: Products \union {NoProduct}, done: SUBSET Applications,
              failure: [step: Steps, retryable: BOOLEAN], terminal: BOOLEAN]

TypeOK ==
    /\ runs \in [Runs -> Row \union {NoRow}]
    /\ dispatch \in [Runs -> DispatchRow]
    /\ replies \in [Runs -> [OperationKeys -> Reply \union {NoRow}]]
    /\ worker \in [Workers -> Execution]
    /\ productOf \in [Runs -> Products \union {NoProduct}]
    /\ applications \subseteq Products \X Applications
    /\ capabilities \subseteq Products
    /\ files \subseteq Runs
    /\ faults \in 0..MaxFaults

Init ==
    /\ runs = [r \in Runs |-> NoRow]
    /\ dispatch = [r \in Runs |-> NoDispatch]
    /\ replies = [r \in Runs |-> [k \in OperationKeys |-> NoRow]]
    /\ worker = [w \in Workers |-> Idle]
    /\ productOf = [r \in Runs |-> NoProduct]
    /\ applications = {}
    /\ capabilities = {}
    /\ files = {}
    /\ faults = 0

Fault(kind) == kind \in FaultKinds /\ faults < MaxFaults /\ faults' = faults + 1

-----------------------------------------------------------------------------
(* Administrators: each transaction inserts a run and its dispatch row.    *)

InsertRun(r, row) ==
    /\ runs[r] = NoRow
    /\ runs' = [runs EXCEPT ![r] = row]
    /\ dispatch' = [dispatch EXCEPT ![r] = Pending]
    /\ UNCHANGED <<replies, worker, external, faults>>

StartRun(r) == InsertRun(r, NewRow(r, NoRun, NoProduct))

RetryRun(parent, r) ==
    /\ runs[parent] # NoRow
    /\ runs[parent].status = "failed" /\ runs[parent].retryable /\ ~runs[parent].rollbackRequired
    /\ \A other \in ExistingRuns : runs[other].retryOf # parent
    /\ InsertRun(r, NewRow(runs[parent].root, parent, runs[parent].product))

-----------------------------------------------------------------------------
(* The lease.                                                              *)

HoldsLease(w) ==
    LET d == dispatch[worker[w].run] IN d.state = "leased" /\ d.owner = w

\* A worker renews the lease of the run it executes.
Renewing(r) ==
    \E w \in Workers : worker[w].run = r /\ worker[w].pc \in Executing /\ HoldsLease(w)

PendingOnly(r) == dispatch[r].state = "pending"

\* The row is pending, or leased by a worker that let the lease run out.
Claimable(r) ==
    \/ dispatch[r].state = "pending"
    \/ dispatch[r].state = "leased" /\ ~dispatch[r].live

\* ClaimDispatch.  That available_at or lease_until has passed shows only in
\* when the action happens; `live' is lease_until > now.
ClaimDispatch(w, r) ==
    /\ worker[w].pc = "idle"
    /\ Claimable(r)
    /\ dispatch' = [dispatch EXCEPT ![r] = Leased(w)]
    /\ worker' = [worker EXCEPT ![w] = [Idle EXCEPT !.pc = "start", !.run = r]]
    /\ UNCHANGED <<runs, replies, external, faults>>

\* lease_until passes, of its own accord unless renewals are missed.
LeaseExpires(r) ==
    /\ dispatch[r].state = "leased" /\ dispatch[r].live
    /\ dispatch' = [dispatch EXCEPT ![r].live = FALSE]
    /\ IF Renewing(r) THEN Fault("lease") ELSE UNCHANGED faults
    /\ UNCHANGED <<runs, replies, worker, external>>

\* The end of runOne: the row changes only while this worker holds the lease.
ReleaseDispatch(w) ==
    /\ worker[w].pc = "release"
    /\ dispatch' = IF HoldsLease(w)
                   THEN [dispatch EXCEPT ![worker[w].run] =
                            IF worker[w].terminal THEN Completed ELSE Pending]
                   ELSE dispatch
    /\ worker' = [worker EXCEPT ![w] = Idle]
    /\ UNCHANGED <<runs, replies, external, faults>>

\* Execute returned no terminal run: the worker reads the run again.
Reread(w) ==
    /\ worker[w].pc = "reread"
    /\ worker' = [worker EXCEPT ![w].pc = "release",
                                ![w].terminal = terminalRun(runs[worker[w].run])]
    /\ UNCHANGED <<runs, dispatch, replies, external, faults>>

-----------------------------------------------------------------------------
(* Execute.                                                                *)

\* GetRun and the check of its status.
Start(w) ==
    /\ worker[w].pc = "start"
    /\ LET row == runs[worker[w].run]
       IN  worker' =
             IF row.status = "planned"
             THEN [worker EXCEPT ![w].pc = "provisioning", ![w].seen = row]
             ELSE [worker EXCEPT ![w].pc = IF terminalRun(row) THEN "release" ELSE "reread",
                                 ![w].terminal = terminalRun(row)]
    /\ UNCHANGED <<runs, dispatch, replies, external, faults>>

\* What the workflow writes at each position (its transitionSpec).
Transition(status, running, completed, failed, retryable) ==
    [status |-> status, running |-> running, completed |-> completed, failed |-> failed,
     retryable |-> retryable]

transitionSpec(pc, failure) ==
    CASE pc = "provisioning" -> Transition(pc, {"provision"}, {}, {}, TRUE)
      [] pc = "generating"   -> Transition(pc, {"generate"}, {"provision", "enable-capability"}, {}, TRUE)
      [] pc = "validating"   -> Transition(pc, {"validate"}, {"generate"}, {}, TRUE)
      [] pc = "completed"    -> Transition(pc, {}, {"validate", "commit"}, {}, FALSE)
      [] pc = "failed"       -> Transition(pc, {}, {}, {failure.step}, failure.retryable)

\* The loop of nextRunDocument on one step.
nextStep(step, s, now, spec) ==
    LET finishes == s \in spec.completed \union spec.failed
        starts == \/ s \in spec.running /\ step.status \in {"pending", "failed"}
                  \/ finishes /\ step.status = "pending"
    IN  [status |-> IF s \in spec.completed THEN "completed"
                    ELSE IF s \in spec.failed THEN "failed"
                    ELSE IF starts THEN "running" ELSE step.status,
         attempt |-> IF starts THEN step.attempt + 1 ELSE step.attempt,
         startedAt |-> IF starts THEN now ELSE step.startedAt,
         finishedAt |-> IF finishes THEN now ELSE step.finishedAt,
         compensation |-> step.compensation]

nextRunDocument(seen, now, spec) ==
    [status |-> spec.status,
     steps |-> [s \in Steps |-> nextStep(seen.steps[s], s, now, spec)],
     completedAt |-> spec.status \in TerminalStatuses,
     retryable |-> spec.retryable,
     rollbackRequired |-> spec.status = "failed" /\ ~spec.retryable]

\* The run that a document and the stored row make.
RunOf(row, doc) ==
    [row EXCEPT !.status = doc.status, !.version = @ + 1, !.steps = doc.steps,
                !.completedAt = doc.completedAt, !.retryable = doc.retryable,
                !.rollbackRequired = doc.rollbackRequired,
                !.manifest = @ \/ doc.status = "completed"]

StoredRow(row) == [row EXCEPT !.steps = [s \in Steps |-> StoredStep(row.steps[s])]]

\* Where Execute goes on after an operation that succeeds.  Instead: it skips
\* the capabilities.
WithoutCapabilities(pc) ==
    CASE pc = "provisioning" -> "product"
      [] pc = "product"      -> "bind"
      [] pc = "bind"         -> "applications"
      [] pc = "applications" -> "generating"
      [] pc = "generating"   -> "generate"
      [] OTHER               -> "release"

NextPosition(pc) ==
    CASE pc = "provisioning" -> "product"
      [] pc = "product"      -> "bind"
      [] pc = "bind"         -> "applications"
      [] pc = "applications" -> "capabilities"
      [] pc = "capabilities" -> "generating"
      [] pc = "generating"   -> "generate"
      [] pc = "generate"     -> "validating"
      [] pc = "validating"   -> "completed"
      [] OTHER               -> "release"

\* A repeated key is answered with the first answer; any other use of the key fails.
\* Instead: any use of the key is answered.
AnyAnswer(r, key, request) == replies[r][key] # NoRow
Replays(r, key, request) == replies[r][key] # NoRow /\ replies[r][key].request = request

\* The documents an execution may submit: the clock has not run back.
Submitted(w) ==
    {nextRunDocument(worker[w].seen, now, transitionSpec(worker[w].pc, worker[w].failure)) :
        now \in {t \in Clock[w] : \A s \in Steps : t >= worker[w].seen.steps[s].startedAt}}

\* updateRun, failRun and CompleteAssembly: the document is built from the
\* worker's copy, validated against the run as it is read (what the worker last
\* saw or what it has become) and committed, or the error ends the execution.
\* The run returned has the times of the document; the row has
\* those the column keeps.
Persist(w) ==
    /\ worker[w].pc \in Updates
    /\ \E doc \in Submitted(w), read \in {StoredRow(worker[w].seen), runs[worker[w].run]} :
         LET r == worker[w].run
             key == IF worker[w].pc = "failed" THEN worker[w].failure.step ELSE worker[w].pc
             request == <<doc, worker[w].seen.version>>
             new == RunOf(runs[r], doc)
             valid == validateRunEvolution(read, doc)
             commits == /\ valid
                        /\ replies[r][key] = NoRow
                        /\ runs[r].version = worker[w].seen.version
                        /\ runRowMayChange(runs[r], StoredRow(new))
             answered == [worker[w] EXCEPT !.pc = NextPosition(@), !.terminal = doc.completedAt]
         IN  IF commits
             THEN /\ runs' = [runs EXCEPT ![r] = StoredRow(new)]
                  /\ replies' = [replies EXCEPT ![r][key] = [request |-> request, row |-> new]]
                  /\ worker' = [worker EXCEPT ![w] = [answered EXCEPT !.seen = new]]
             ELSE /\ worker' = [worker EXCEPT ![w] =
                                  IF valid /\ Replays(r, key, request)
                                  THEN [answered EXCEPT !.seen = replies[r][key].row]
                                  ELSE [@ EXCEPT !.pc = "reread"]]
                  /\ UNCHANGED <<runs, replies>>
    /\ UNCHANGED <<dispatch, external, faults>>

\* failRun is told a step and whether the run may be retried.
Failures(pc) ==
    CASE pc = "provisioning" -> {[step |-> "provision", retryable |-> FALSE]}
      [] pc = "product"      -> {[step |-> "provision", retryable |-> TRUE]}
      [] pc = "applications" -> [step: {"provision"}, retryable: BOOLEAN]
      [] pc = "capabilities" -> {[step |-> "enable-capability", retryable |-> TRUE]}
      [] pc = "generate"     -> [step: {"generate"}, retryable: BOOLEAN]
      [] OTHER               -> {}

\* An operation returns an error before the run's failure is recorded; it may
\* have had its effect all the same.
Fails(w) ==
    /\ Fault("operation")
    /\ \E failure \in Failures(worker[w].pc) :
          worker' = [worker EXCEPT ![w].pc = "failed", ![w].failure = failure]

OperationFails(w) ==
    /\ Fails(w)
    /\ UNCHANGED <<runs, dispatch, replies, external>>

Proceeds(w, execution) == worker' = [worker EXCEPT ![w] = execution] /\ UNCHANGED faults

\* The key under which all attempts of a root create their product.
\* Instead: one for each attempt.
attemptKey(r) == r
executionKey(r) == runs[r].root

CreateProduct(w) ==
    /\ worker[w].pc = "product"
    /\ LET key == executionKey(worker[w].run)
       IN  \E p \in Products :
              /\ productOf[key] \in {p, NoProduct}
              /\ productOf[key] = NoProduct => \A other \in Runs : productOf[other] # p
              /\ productOf' = [productOf EXCEPT ![key] = p]
              /\ \/ Proceeds(w, [worker[w] EXCEPT !.pc = NextPosition(@), !.product = p])
                 \/ Fails(w)
    /\ UNCHANGED <<runs, dispatch, replies, applications, capabilities, files>>

\* The copy is now the stored run.
BindProduct(w) ==
    /\ worker[w].pc = "bind"
    /\ LET r == worker[w].run
           request == <<worker[w].product, worker[w].seen.version>>
           bound == IF runs[r].product = NoProduct
                    THEN [runs[r] EXCEPT !.product = worker[w].product, !.version = @ + 1]
                    ELSE runs[r]
           commits == /\ replies[r]["bind"] = NoRow
                      /\ runs[r].product \in {NoProduct, worker[w].product}
                      /\ runs[r].version = worker[w].seen.version
                      /\ bound = runs[r] \/ runRowMayChange(runs[r], bound)
       IN  /\ worker' = IF commits \/ Replays(r, "bind", request)
                        THEN [worker EXCEPT ![w].pc = NextPosition(@),
                                            ![w].seen = IF commits THEN bound ELSE replies[r]["bind"].row]
                        ELSE [worker EXCEPT ![w].pc = "reread"]
           /\ IF commits
              THEN /\ runs' = [runs EXCEPT ![r] = bound]
                   /\ replies' = [replies EXCEPT ![r]["bind"] = [request |-> request, row |-> bound]]
              ELSE UNCHANGED <<runs, replies>>
    /\ UNCHANGED <<dispatch, external, faults>>

\* One round of the loop over the plan's applications.
CreateApplication(w) ==
    /\ worker[w].pc = "applications"
    /\ \E a \in Applications \ worker[w].done :
          LET done == worker[w].done \union {a}
          IN  /\ applications' = applications \union {<<worker[w].product, a>>}
              /\ \/ Proceeds(w, [worker[w] EXCEPT !.done = done,
                                    !.pc = IF done = Applications THEN NextPosition(@) ELSE @])
                 \/ Fails(w)
    /\ UNCHANGED <<runs, dispatch, replies, productOf, capabilities, files>>

ReplaceCapabilitySet(w) ==
    /\ worker[w].pc = "capabilities"
    /\ capabilities' = capabilities \union {worker[w].product}
    /\ \/ Proceeds(w, [worker[w] EXCEPT !.pc = NextPosition(@)])
       \/ Fails(w)
    /\ UNCHANGED <<runs, dispatch, replies, productOf, applications, files>>

Generate(w) ==
    /\ worker[w].pc = "generate"
    /\ files' = files \union {worker[w].run}
    /\ Proceeds(w, [worker[w] EXCEPT !.pc = NextPosition(@)])
    /\ UNCHANGED <<runs, dispatch, replies, productOf, applications, capabilities>>

-----------------------------------------------------------------------------
(* Failures of the process.                                                *)

\* The execution's context is cancelled, by the heartbeat once the lease is
\* lost or by a timeout or a shutdown: the next call fails, and with it any
\* attempt to record the failure.
Interrupt(w) ==
    /\ worker[w].pc # "idle"
    /\ IF worker[w].pc \in Executing /\ ~(HoldsLease(w) /\ dispatch[worker[w].run].live)
       THEN UNCHANGED faults
       ELSE Fault("interrupt")
    /\ worker' = [worker EXCEPT ![w] =
                    IF @.pc \in Executing THEN [@ EXCEPT !.pc = "reread"]
                    ELSE IF @.pc = "reread" THEN [@ EXCEPT !.pc = "release", !.terminal = FALSE]
                    ELSE Idle]
    /\ UNCHANGED <<runs, dispatch, replies, external>>

\* The process ends; its successor has another random worker identifier.
Crash(w) ==
    /\ Fault("crash")
    /\ worker[w].pc # "idle"
    /\ worker' = [worker EXCEPT ![w] = Idle]
    /\ dispatch' = [r \in Runs |-> IF dispatch[r].owner = w
                                   THEN [dispatch[r] EXCEPT !.owner = Dead] ELSE dispatch[r]]
    /\ UNCHANGED <<runs, replies, external>>

-----------------------------------------------------------------------------
\* What a worker's loop does without anything going wrong.
Work(w) ==
    \/ Start(w)
    \/ Persist(w)
    \/ CreateProduct(w)
    \/ BindProduct(w)
    \/ CreateApplication(w)
    \/ ReplaceCapabilitySet(w)
    \/ Generate(w)
    \/ Reread(w)
    \/ ReleaseDispatch(w)

Next ==
    \/ \E r \in Runs : StartRun(r)
    \/ \E parent, r \in Runs : RetryRun(parent, r)
    \/ \E w \in Workers, r \in Runs : ClaimDispatch(w, r)
    \/ \E r \in Runs : LeaseExpires(r)
    \/ \E w \in Workers : Work(w)
    \/ \E w \in Workers : OperationFails(w)
    \/ \E w \in Workers : Interrupt(w)
    \/ \E w \in Workers : Crash(w)

Spec == Init /\ [][Next]_vars

\* Workers run on; a lease that nobody renews expires; and a run is not passed
\* over for ever, since a claim takes the row that became available first.
Fairness ==
    /\ \A w \in Workers : WF_vars(Work(w))
    /\ \A r \in Runs : WF_vars(~Renewing(r) /\ LeaseExpires(r))
    /\ \A r \in Runs : SF_vars(\E w \in Workers : ClaimDispatch(w, r))

FairSpec == Spec /\ Fairness

-----------------------------------------------------------------------------
(* Properties.                                                             *)

StatusOf(r) == IF runs[r] = NoRow THEN "none" ELSE runs[r].status

\* All attempts of a root, by whichever workers and however often they are
\* interrupted, are bound to one product and create no other.
\* (executionKey of the root run, retryRunDocument, BindProduct)
OneProductPerRoot ==
    /\ \A r, s \in ExistingRuns :
          (runs[r].root = runs[s].root /\ runs[r].product # NoProduct /\ runs[s].product # NoProduct)
             => runs[r].product = runs[s].product
    /\ \A r \in Runs : productOf[r] # NoProduct => runs[r] # NoRow /\ runs[r].root = r

\* Positions behind the first update, where a worker acts on other systems.
PastGate(w) == worker[w].pc \in Executing \ {"start", "provisioning"} /\ worker[w].seen.version > 1

\* No two workers execute one run at a time, however leases expire and
\* executions overlap, if no two processes read the same nanosecond: a worker
\* that submits the very same document is given the other's answer.  (the status
\* check, the version and the idempotency record of provisioning-started)
OneExecutor ==
    \A w, v \in Workers :
        (w # v /\ Clock[w] \intersect Clock[v] = {} /\ PastGate(w) /\ PastGate(v))
           => worker[w].run # worker[v].run

\* No run is lost by the queue: a run has a dispatch row, and the row is
\* completed only when the run is terminal.  (runOne, StartRun, RetryRun)
NoRunLost ==
    \A r \in ExistingRuns :
        /\ dispatch[r].state # "none"
        /\ dispatch[r].state = "completed" => runs[r].status \in TerminalStatuses

\* Files are generated, and a run is generating, only for a product that has
\* all the applications and the capabilities of the plan.  (Execute)
ProvisionedBeforeGenerate ==
    \A r \in ExistingRuns :
        (r \in files \/ runs[r].status \in {"generating", "validating", "completed"}) =>
            /\ runs[r].product # NoProduct
            /\ {runs[r].product} \X Applications \subseteq applications
            /\ runs[r].product \in capabilities

\* A planned run does not stay planned, whatever failed at first.
PlannedRunStarts ==
    \A r \in Runs : StatusOf(r) = "planned" ~> StatusOf(r) # "planned"

-----------------------------------------------------------------------------
(* What the documents and tests say and the program does not do.           *)

\* Without any failure a run is completed.  (service_test.go, the statuses of
\* TestExecuteRunsProvisionGenerationAndCompletionChain)
RunCompletes == \A r \in Runs : StatusOf(r) = "planned" ~> StatusOf(r) = "completed"

\* A run that a dying process leaves provisioning is taken up again and leaves
\* that status.  (contract.md, claiming and recovery)
ProvisioningResumes ==
    \A r \in Runs : StatusOf(r) = "provisioning" ~> StatusOf(r) # "provisioning"

\* A failed CreateProduct is recorded.  (contract.md, failure recovery)
ProvisioningFailureRecorded ==
    \A w \in Workers, r \in Runs :
        (worker[w].pc = "failed" /\ worker[w].run = r /\ worker[w].failure.step = "provision")
            ~> StatusOf(r) = "failed"
=============================================================================
