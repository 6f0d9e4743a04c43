----------------------- MODULE AssemblyExecutionProofs -----------------------
(***************************************************************************)
(* However many workers, runs, products and failures there are, a run is   *)
(* executed by one worker at a time, is not lost by the queue, shares the  *)
(* product of its root run, and is generated only once it is provisioned.  *)
(***************************************************************************)
EXTENDS AssemblyExecution, TLAPS

-----------------------------------------------------------------------------
(* The inductive invariant.                                                *)

\* The positions of an execution behind each of its operations.
Started == Executing \ {"start"}
Generated == {"validating", "completed"}
Capable == Generated \union {"generating", "generate"}
Supplied == Capable \union {"capabilities"}
Bound == Supplied \union {"applications"}
Created == Bound \union {"bind"}
Opened == Created \union {"product"}

\* The request with which a run was taken out of planned.
Opening(r) == replies[r]["provisioning"].request[1]

\* This worker's document opened the run.
OpenedBy(w, r) ==
    /\ replies[r]["provisioning"] # NoRow
    /\ Opening(r).steps["provision"].startedAt \in Clock[w]

\* A run that no execution has touched.
Untouched(row) == row.version = 1 /\ row.steps["provision"].status = "pending"

Provisioned(p) == p # NoProduct /\ {p} \X Applications \subseteq applications /\ p \in capabilities

\* What is known of a run's row, its dispatch row and its idempotency records.
QueueSound(r) ==
    /\ dispatch[r].state = "none" <=> runs[r] = NoRow
    /\ dispatch[r].state = "completed" => terminalRun(runs[r])

RunSound(r) ==
    IF runs[r] = NoRow
    THEN productOf[r] = NoProduct /\ r \notin files /\ \A k \in OperationKeys : replies[r][k] = NoRow
    ELSE /\ runs[runs[r].root] # NoRow
         /\ runs[runs[r].root].root = runs[r].root
         /\ productOf[r] # NoProduct => runs[r].root = r
         /\ runs[r].product # NoProduct => productOf[runs[r].root] = runs[r].product
         /\ runs[r].status = "planned" =>
               Untouched(runs[r]) /\ \A k \in OperationKeys : replies[r][k] = NoRow
         /\ (r \in files \/ runs[r].status \in {"generating", "validating", "completed"})
               => Provisioned(runs[r].product)

\* An update's answer tells the end of the run, a binding's its product.
RepliesSound(r) ==
    /\ \A k \in OperationKeys \ {"bind"} : replies[r][k] # NoRow =>
          /\ replies[r][k].request \in Document \X Nat
          /\ replies[r][k].request[1].completedAt => terminalRun(runs[r])
    /\ replies[r]["bind"] # NoRow => replies[r]["bind"].request[1] = runs[r].product

\* What is known of an execution at each of its positions.
WorkerSound(w) ==
    LET e == worker[w]
        r == worker[w].run
    IN  e.pc # "idle" =>
          /\ r \in Runs /\ runs[r] # NoRow
          /\ e.pc \in Started => e.seen \in Row
          /\ e.terminal => terminalRun(runs[r])
          /\ e.product # NoProduct => productOf[runs[r].root] = e.product
          /\ e.pc \in Created => e.product # NoProduct
          /\ e.pc \in Bound => runs[r].product = e.product
          /\ e.pc \in {"start", "provisioning", "product"} => e.done = {}
          /\ {e.product} \X e.done \subseteq applications
          /\ e.pc \in Supplied => {e.product} \X Applications \subseteq applications
          /\ e.pc \in Capable => e.product \in capabilities
          /\ e.pc = "provisioning" => e.seen.status = "planned" /\ Untouched(e.seen)
          /\ e.pc \in Opened \/ (e.pc = "failed" /\ e.seen.version > 1) => OpenedBy(w, r)

Inv ==
    /\ TypeOK
    /\ \A r \in Runs : QueueSound(r) /\ RunSound(r) /\ RepliesSound(r)
    /\ \A w \in Workers : WorkerSound(w)

-----------------------------------------------------------------------------
(* What the operators yield.                                               *)

\* Truncating the times of a step yields a step.
LEMMA StoredStepType == \A step \in Step : StoredStep(step) \in Step
  <1>1. \A t \in Nat : Stored(t) \in Nat
    <2> TAKE t \in Nat
    <2>1. t \div SubTicks \in Nat
        BY SubTicksAssumption
    <2> QED
        BY <2>1, SubTicksAssumption DEF Stored
  <1> QED
      BY <1>1 DEF StoredStep, Step

LEMMA StoredRowType == \A row \in Row : StoredRow(row) \in Row
  <1> TAKE row \in Row
  <1>1. [s \in Steps |-> StoredStep(row.steps[s])] \in [Steps -> Step]
      BY StoredStepType DEF Row
  <1> QED
      BY <1>1 DEF StoredRow, Row

\* The row that a document makes of a row.
LEMMA RunOfType == \A row \in Row, doc \in Document : RunOf(row, doc) \in Row
  <1> TAKE row \in Row, doc \in Document
  <1> DEFINE New(n, m, c, t, b) ==
                [row EXCEPT !.status = doc.status, !.version = n, !.steps = doc.steps,
                            !.completedAt = c, !.retryable = t, !.rollbackRequired = b,
                            !.manifest = m]
             complete == row.manifest \/ doc.status = "completed"
  <1>1. RunOf(row, doc) = New(row.version + 1, complete, doc.completedAt, doc.retryable, doc.rollbackRequired)
      BY DEF RunOf
  <1>2. \A n \in Nat, m, c, t, b \in BOOLEAN : New(n, m, c, t, b) \in Row
      BY DEF Row, Document
  <1>3. complete \in BOOLEAN /\ row.version + 1 \in Nat
      BY DEF Row
  <1>4. doc.completedAt \in BOOLEAN /\ doc.retryable \in BOOLEAN /\ doc.rollbackRequired \in BOOLEAN
      BY DEF Document
  <1> HIDE DEF New, complete
  <1> QED
      BY <1>1, <1>2, <1>3, <1>4

LEMMA NewRowType ==
    ASSUME NEW root \in Runs, NEW retryOf \in Runs \union {NoRun},
           NEW product \in Products \union {NoProduct}
    PROVE  NewRow(root, retryOf, product) \in Row
  BY DEF NewRow, Row, Step, StepStatuses, CompensationStatuses, RunStatuses, NoTime

\* What an execution writes at a position, and to which steps.
LEMMA TransitionSpec ==
    ASSUME NEW pc \in Updates, NEW failure \in [step: Steps, retryable: BOOLEAN]
    PROVE  /\ transitionSpec(pc, failure).status = pc
           /\ transitionSpec(pc, failure).retryable \in BOOLEAN
           /\ pc = "provisioning" =>
                 /\ transitionSpec(pc, failure).running = {"provision"}
                 /\ transitionSpec(pc, failure).completed = {}
                 /\ transitionSpec(pc, failure).failed = {}
  BY DEF transitionSpec, Transition, Updates

LEMMA NextStepType ==
    ASSUME NEW step \in Step, NEW s, NEW now \in Nat, NEW spec
    PROVE  nextStep(step, s, now, spec) \in Step
  BY DEF nextStep, Step, StepStatuses

\* A document that an execution submits: of the status that its position names,
\* and opening a pending run with a reading of the process's own clock.
LEMMA SubmittedDocument ==
    ASSUME TypeOK, NEW w \in Workers, worker[w].pc \in Updates, worker[w].seen \in Row,
           NEW doc \in Submitted(w)
    PROVE  /\ doc \in Document
           /\ doc.status = worker[w].pc
           /\ doc.completedAt <=> worker[w].pc \in TerminalStatuses
           /\ (worker[w].pc = "provisioning" /\ worker[w].seen.steps["provision"].status = "pending")
                 => doc.steps["provision"].startedAt \in Clock[w]
  <1> DEFINE spec == transitionSpec(worker[w].pc, worker[w].failure)
  <1>1. PICK now \in Clock[w] : doc = nextRunDocument(worker[w].seen, now, spec)
      BY DEF Submitted
  <1>2. now \in Nat
      BY ExecutionAssumption
  <1>3. worker[w].failure \in [step: Steps, retryable: BOOLEAN]
      BY DEF TypeOK, Execution
  <1>4. spec.status = worker[w].pc /\ spec.retryable \in BOOLEAN
      BY TransitionSpec, <1>3
  <1>5. \A s \in Steps : nextStep(worker[w].seen.steps[s], s, now, spec) \in Step
    <2> TAKE s \in Steps
    <2>1. worker[w].seen.steps[s] \in Step
        BY DEF Row
    <2> QED
        BY <2>1, <1>2, NextStepType
  <1>6. doc.steps = [s \in Steps |-> nextStep(worker[w].seen.steps[s], s, now, spec)]
      BY <1>1 DEF nextRunDocument
  <1>7. doc \in Document
    <2>1. doc.steps \in [Steps -> Step]
        BY <1>5, <1>6
    <2>2. worker[w].pc \in RunStatuses
        BY DEF Updates, RunStatuses
    <2> QED
        BY <2>1, <2>2, <1>1, <1>4 DEF nextRunDocument, Document
  <1>8. ASSUME worker[w].pc = "provisioning", worker[w].seen.steps["provision"].status = "pending"
        PROVE  doc.steps["provision"].startedAt \in Clock[w]
    <2>1. doc.steps["provision"] = nextStep(worker[w].seen.steps["provision"], "provision", now, spec)
        BY <1>6 DEF Steps
    <2>2. spec.running = {"provision"}
        BY <1>3, <1>8, TransitionSpec
    <2>3. doc.steps["provision"].startedAt = now
        BY <2>1, <2>2, <1>8 DEF nextStep
    <2> QED
        BY <2>3
  <1> QED
      BY <1>1, <1>4, <1>7, <1>8 DEF nextRunDocument

-----------------------------------------------------------------------------
(* The outcomes of an update and of a binding.                             *)

\* The key under which an update is recorded.
Key(w) == IF worker[w].pc = "failed" THEN worker[w].failure.step ELSE worker[w].pc

\* The execution w goes on with the run that it was answered.
Answered(w, doc, row) ==
    worker' = [worker EXCEPT ![w] = [worker[w] EXCEPT !.pc = NextPosition(@),
                                                      !.terminal = doc.completedAt, !.seen = row]]

\* The row is stored, and recorded as the answer to the key.
Commits(w, key, request, row) ==
    /\ replies[worker[w].run][key] = NoRow
    /\ runs' = [runs EXCEPT ![worker[w].run] = StoredRow(row)]
    /\ replies' = [replies EXCEPT ![worker[w].run][key] = [request |-> request, row |-> row]]

\* A binding's counterpart of Answered.
GoesOn(w, row) ==
    worker' = [worker EXCEPT ![w].pc = NextPosition(@), ![w].seen = row]

\* The error ends the execution.
Stops(w) == worker' = [worker EXCEPT ![w].pc = "reread"]

PersistCommits(w, doc) ==
    LET r == worker[w].run
        row == RunOf(runs[r], doc)
    IN  /\ Commits(w, Key(w), <<doc, worker[w].seen.version>>, row)
        /\ runRowMayChange(runs[r], StoredRow(row))
        /\ Answered(w, doc, row)

PersistReplays(w, doc) ==
    LET r == worker[w].run IN
    /\ Replays(r, Key(w), <<doc, worker[w].seen.version>>)
    /\ Answered(w, doc, replies[r][Key(w)].row)

LEMMA PersistCases ==
    ASSUME NEW w \in Workers, Persist(w)
    PROVE  \E doc \in Submitted(w) :
              \/ PersistCommits(w, doc)
              \/ PersistReplays(w, doc) /\ UNCHANGED <<runs, replies>>
              \/ Stops(w) /\ UNCHANGED <<runs, replies>>
  BY DEF Persist, PersistCommits, PersistReplays, Commits, Answered, Stops, Key

\* The row that a binding stores.
BoundRow(w) ==
    LET r == worker[w].run IN
    IF runs[r].product = NoProduct
    THEN [runs[r] EXCEPT !.product = worker[w].product, !.version = @ + 1] ELSE runs[r]

BindCommits(w) ==
    LET r == worker[w].run IN
    /\ replies[r]["bind"] = NoRow
    /\ runs' = [runs EXCEPT ![r] = BoundRow(w)]
    /\ replies' = [replies EXCEPT ![r]["bind"] =
                      [request |-> <<worker[w].product, worker[w].seen.version>>,
                       row |-> BoundRow(w)]]
    /\ runs[r].product \in {NoProduct, worker[w].product}
    /\ BoundRow(w) = runs[r] \/ runRowMayChange(runs[r], BoundRow(w))
    /\ GoesOn(w, BoundRow(w))

BindReplays(w) ==
    LET r == worker[w].run IN
    /\ Replays(r, "bind", <<worker[w].product, worker[w].seen.version>>)
    /\ GoesOn(w, replies[r]["bind"].row)

LEMMA BindCases ==
    ASSUME NEW w \in Workers, BindProduct(w)
    PROVE  \/ BindCommits(w)
           \/ BindReplays(w) /\ UNCHANGED <<runs, replies>>
           \/ Stops(w) /\ UNCHANGED <<runs, replies>>
  BY DEF BindProduct, BindCommits, BindReplays, BoundRow, GoesOn, Stops

-----------------------------------------------------------------------------
(* Types.                                                                  *)

LEMMA IdleType == Idle \in Execution
  BY DEF Idle, Execution, Positions, NoFailure, Steps

LEMMA NextPositionType == \A pc \in Positions : NextPosition(pc) \in Positions
  BY DEF NextPosition, Positions, Executing, Updates

LEMMA BoundRowType ==
    ASSUME NEW row \in Row, NEW p \in Products
    PROVE  [row EXCEPT !.product = p, !.version = @ + 1] \in Row
  <1>1. row.version + 1 \in Nat
      BY DEF Row
  <1> QED
      BY <1>1 DEF Row

\* One execution moves, the others stay.
LEMMA MovesType ==
    ASSUME TypeOK, NEW w \in Workers, NEW e \in Execution, worker' = [worker EXCEPT ![w] = e]
    PROVE  worker' \in [Workers -> Execution]
  BY DEF TypeOK

LEMMA PositionType ==
    ASSUME NEW e \in Execution, NEW pc \in Positions
    PROVE  [e EXCEPT !.pc = pc] \in Execution
  BY DEF Execution

LEMMA SeenType ==
    ASSUME NEW e \in Execution, NEW pc \in Positions, NEW row \in Row
    PROVE  [e EXCEPT !.pc = pc, !.seen = row] \in Execution
  BY DEF Execution

LEMMA ExecutionType ==
    ASSUME TypeOK, NEW w \in Workers
    PROVE  worker[w] \in Execution /\ NextPosition(worker[w].pc) \in Positions
  BY NextPositionType DEF TypeOK, Execution

LEMMA FailsType ==
    ASSUME TypeOK, NEW w \in Workers, Fails(w)
    PROVE  worker' \in [Workers -> Execution] /\ faults' \in 0..MaxFaults
  <1>1. PICK failure \in Failures(worker[w].pc) :
           worker' = [worker EXCEPT ![w].pc = "failed", ![w].failure = failure]
      BY DEF Fails
  <1>2. failure \in [step: Steps, retryable: BOOLEAN]
    <2>1. worker[w].pc \in {"provisioning", "product", "applications", "capabilities", "generate"}
        BY <1>1 DEF Failures
    <2>2. CASE worker[w].pc \in {"provisioning", "product", "capabilities"}
      <3>1. /\ [step |-> "provision", retryable |-> FALSE] \in [step: Steps, retryable: BOOLEAN]
            /\ [step |-> "provision", retryable |-> TRUE] \in [step: Steps, retryable: BOOLEAN]
            /\ [step |-> "enable-capability", retryable |-> TRUE]
                  \in [step: Steps, retryable: BOOLEAN]
          BY DEF Steps
      <3>2. \/ failure = [step |-> "provision", retryable |-> FALSE]
            \/ failure = [step |-> "provision", retryable |-> TRUE]
            \/ failure = [step |-> "enable-capability", retryable |-> TRUE]
          BY <1>1, <2>2, Zenon DEF Failures
      <3> QED
          BY <3>1, <3>2
    <2>3. CASE worker[w].pc = "applications"
      <3>1. failure \in [step: {"provision"}, retryable: BOOLEAN]
          BY <1>1, <2>3 DEF Failures
      <3> QED
          BY <3>1 DEF Steps
    <2>4. CASE worker[w].pc = "generate"
      <3>1. failure \in [step: {"generate"}, retryable: BOOLEAN]
          BY <1>1, <2>4 DEF Failures
      <3> QED
          BY <3>1 DEF Steps
    <2> QED
        BY <2>1, <2>2, <2>3, <2>4
  <1>3. worker' \in [Workers -> Execution]
    <2>1. worker' = [worker EXCEPT ![w] = [worker[w] EXCEPT !.pc = "failed", !.failure = failure]]
        BY <1>1
    <2>2. [worker[w] EXCEPT !.pc = "failed", !.failure = failure] \in Execution
        BY <1>2, ExecutionType DEF Execution, Positions, Executing, Updates
    <2> QED
        BY <2>1, <2>2, MovesType
  <1>4. faults' \in 0..MaxFaults
      BY ExecutionAssumption DEF Fails, Fault, TypeOK
  <1> QED
      BY <1>3, <1>4

\* The key and the outcome of an update.
LEMMA KeyType ==
    ASSUME TypeOK, NEW w \in Workers, worker[w].pc \in Updates
    PROVE  Key(w) \in OperationKeys \ {"bind"}
  BY DEF TypeOK, Execution, Key, OperationKeys, Updates, Steps

LEMMA AnsweredType ==
    ASSUME TypeOK, NEW w \in Workers, NEW doc \in Document, NEW row \in Row, Answered(w, doc, row)
    PROVE  worker' \in [Workers -> Execution]
  <1> DEFINE e == [worker[w] EXCEPT !.pc = NextPosition(@), !.terminal = doc.completedAt,
                                    !.seen = row]
  <1>1. doc.completedAt \in BOOLEAN
      BY DEF Document
  <1>2. e \in Execution
      BY <1>1, ExecutionType DEF Execution
  <1> QED
      BY <1>2, MovesType DEF Answered

LEMMA GoesOnType ==
    ASSUME TypeOK, NEW w \in Workers, NEW row \in Row, GoesOn(w, row)
    PROVE  worker' \in [Workers -> Execution]
  <1>1. worker' = [worker EXCEPT ![w] =
                      [worker[w] EXCEPT !.pc = NextPosition(worker[w].pc), !.seen = row]]
      BY DEF GoesOn
  <1>2. [worker[w] EXCEPT !.pc = NextPosition(worker[w].pc), !.seen = row] \in Execution
      BY ExecutionType, SeenType
  <1> QED
      BY <1>1, <1>2, MovesType

LEMMA StopsType ==
    ASSUME TypeOK, NEW w \in Workers, Stops(w)
    PROVE  worker' \in [Workers -> Execution]
  <1>1. worker' = [worker EXCEPT ![w] = [worker[w] EXCEPT !.pc = "reread"]]
      BY DEF Stops
  <1>2. "reread" \in Positions
      BY DEF Positions
  <1>3. [worker[w] EXCEPT !.pc = "reread"] \in Execution
      BY <1>2, ExecutionType, PositionType
  <1> QED
      BY <1>1, <1>3, MovesType

LEMMA CommitsType ==
    ASSUME TypeOK, NEW w \in Workers, worker[w].run \in Runs, NEW key \in OperationKeys,
           NEW request \in (Document \X Nat) \union (Products \X Nat), NEW row \in Row,
           Commits(w, key, request, row)
    PROVE  /\ runs' \in [Runs -> Row \union {NoRow}]
           /\ replies' \in [Runs -> [OperationKeys -> Reply \union {NoRow}]]
  <1>1. StoredRow(row) \in Row
      BY StoredRowType
  <1>2. [request |-> request, row |-> row] \in Reply
      BY DEF Reply
  <1> QED
      BY <1>1, <1>2 DEF Commits, TypeOK

\* A reply that is there is a reply.
LEMMA ReplyType ==
    ASSUME TypeOK, NEW r \in Runs, NEW k \in OperationKeys, replies[r][k] # NoRow
    PROVE  replies[r][k].row \in Row
  BY DEF TypeOK, Reply

LEMMA RowType ==
    ASSUME TypeOK, NEW r \in Runs, runs[r] # NoRow
    PROVE  runs[r] \in Row
  BY DEF TypeOK

\* A worker that has a run, and the run it has seen.
LEMMA AtWork ==
    ASSUME Inv, NEW w \in Workers, worker[w].pc # "idle"
    PROVE  /\ worker[w].run \in Runs
           /\ runs[worker[w].run] # NoRow
           /\ runs[worker[w].run] \in Row
           /\ worker[w].pc \in Executing \ {"start"} => worker[w].seen \in Row
  BY RowType DEF Inv, WorkerSound, Started

LEMMA InsertType ==
    ASSUME TypeOK, NEW r \in Runs, NEW row \in Row, InsertRun(r, row)
    PROVE  TypeOK'
  <1>1. runs' \in [Runs -> Row \union {NoRow}]
      BY DEF InsertRun, TypeOK
  <1>2. dispatch' \in [Runs -> DispatchRow]
      BY DEF InsertRun, TypeOK, Pending, DispatchRow
  <1> QED
      BY <1>1, <1>2 DEF InsertRun, TypeOK, external

LEMMA PersistType ==
    ASSUME Inv, NEW w \in Workers, Persist(w)
    PROVE  TypeOK'
  <1> DEFINE r == worker[w].run
  <1>1. /\ TypeOK /\ worker[w].pc \in Updates
        /\ UNCHANGED <<dispatch, external, faults>>
      BY DEF Inv, Persist
  <1>2. r \in Runs /\ runs[r] \in Row /\ worker[w].seen \in Row
      BY <1>1, AtWork DEF Updates, Executing
  <1>3. PICK doc \in Submitted(w) :
              \/ PersistCommits(w, doc)
              \/ PersistReplays(w, doc) /\ UNCHANGED <<runs, replies>>
              \/ Stops(w) /\ UNCHANGED <<runs, replies>>
      BY PersistCases
  <1>4. doc \in Document
      BY <1>1, <1>2, SubmittedDocument
  <1>5. Key(w) \in OperationKeys
      BY <1>1, KeyType
  <1>6. worker[w].seen.version \in Nat
      BY <1>2 DEF Row
  <1>7. /\ runs' \in [Runs -> Row \union {NoRow}]
        /\ replies' \in [Runs -> [OperationKeys -> Reply \union {NoRow}]]
        /\ worker' \in [Workers -> Execution]
    <2>1. CASE PersistCommits(w, doc)
      <3>1. RunOf(runs[r], doc) \in Row
          BY <1>2, <1>4, RunOfType
      <3>2. <<doc, worker[w].seen.version>> \in (Document \X Nat) \union (Products \X Nat)
          BY <1>4, <1>6
      <3> QED
          BY <1>1, <1>2, <1>4, <1>5, <2>1, <3>1, <3>2, CommitsType, AnsweredType DEF PersistCommits
    <2>2. CASE PersistReplays(w, doc) /\ UNCHANGED <<runs, replies>>
      <3>1. replies[r][Key(w)].row \in Row
          BY <1>1, <1>2, <1>5, <2>2, ReplyType DEF PersistReplays, Replays
      <3>2. worker' \in [Workers -> Execution]
          BY <1>1, <1>4, <2>2, <3>1, AnsweredType DEF PersistReplays
      <3> QED
          BY <1>1, <2>2, <3>2 DEF TypeOK
    <2>3. CASE Stops(w) /\ UNCHANGED <<runs, replies>>
      <3>1. worker' \in [Workers -> Execution]
          BY <1>1, <2>3, StopsType
      <3> QED
          BY <1>1, <2>3, <3>1 DEF TypeOK
    <2> QED
        BY <1>3, <2>1, <2>2, <2>3
  <1> QED
      BY <1>1, <1>7 DEF TypeOK, external

LEMMA BindType ==
    ASSUME Inv, NEW w \in Workers, BindProduct(w)
    PROVE  TypeOK'
  <1> DEFINE r == worker[w].run
             request == <<worker[w].product, worker[w].seen.version>>
  <1>1. /\ TypeOK /\ worker[w].pc = "bind"
        /\ UNCHANGED <<dispatch, external, faults>>
      BY DEF Inv, BindProduct
  <1>2. r \in Runs /\ runs[r] \in Row /\ worker[w].seen \in Row
      BY <1>1, AtWork DEF Executing
  <1>3. worker[w].product \in Products
    <2>1. worker[w].product # NoProduct
        BY <1>1 DEF Inv, WorkerSound, Created
    <2> QED
        BY <1>1, <2>1, ExecutionType DEF Execution
  <1>4. "bind" \in OperationKeys
      BY DEF OperationKeys
  <1>5. BoundRow(w) \in Row
      BY <1>2, <1>3, BoundRowType DEF BoundRow
  <1>6. request \in (Document \X Nat) \union (Products \X Nat)
      BY <1>2, <1>3 DEF Row
  <1>7. /\ runs' \in [Runs -> Row \union {NoRow}]
        /\ replies' \in [Runs -> [OperationKeys -> Reply \union {NoRow}]]
        /\ worker' \in [Workers -> Execution]
    <2>1. CASE BindCommits(w)
      <3>1. [request |-> request, row |-> BoundRow(w)] \in Reply
          BY <1>5, <1>6 DEF Reply
      <3>2. worker' \in [Workers -> Execution]
          BY <1>1, <1>5, <2>1, GoesOnType DEF BindCommits
      <3> HIDE DEF request
      <3>3. replies' \in [Runs -> [OperationKeys -> Reply \union {NoRow}]]
          BY <1>1, <1>4, <2>1, <3>1 DEF BindCommits, TypeOK, request
      <3> QED
          BY <1>1, <1>5, <2>1, <3>2, <3>3 DEF BindCommits, TypeOK
    <2>2. CASE BindReplays(w) /\ UNCHANGED <<runs, replies>>
      <3>1. replies[r]["bind"].row \in Row
          BY <1>1, <1>2, <1>4, <2>2, ReplyType DEF BindReplays, Replays
      <3>2. worker' \in [Workers -> Execution]
          BY <1>1, <2>2, <3>1, GoesOnType DEF BindReplays
      <3> QED
          BY <1>1, <2>2, <3>2 DEF TypeOK
    <2>3. CASE Stops(w) /\ UNCHANGED <<runs, replies>>
      <3>1. worker' \in [Workers -> Execution]
          BY <1>1, <2>3, StopsType
      <3> QED
          BY <1>1, <2>3, <3>1 DEF TypeOK
    <2> QED
        BY <2>1, <2>2, <2>3, BindCases
  <1> QED
      BY <1>1, <1>7 DEF TypeOK, external

LEMMA FaultType == ASSUME TypeOK, NEW kind, Fault(kind) PROVE faults' \in 0..MaxFaults
  BY ExecutionAssumption DEF Fault, TypeOK

LEMMA ProceedsType ==
    ASSUME TypeOK, NEW w \in Workers, NEW e \in Execution, Proceeds(w, e)
    PROVE  worker' \in [Workers -> Execution] /\ faults' \in 0..MaxFaults
  <1>1. worker' \in [Workers -> Execution]
      BY MovesType DEF Proceeds
  <1> QED
      BY <1>1 DEF Proceeds, TypeOK

LEMMA QueueType ==
    ASSUME TypeOK,
           \/ \E w \in Workers, q \in Runs : ClaimDispatch(w, q)
           \/ \E q \in Runs : LeaseExpires(q)
           \/ \E w \in Workers : ReleaseDispatch(w) \/ Crash(w)
    PROVE  TypeOK'
  <1>1. TypeOK
      OBVIOUS
  <1>2. ASSUME NEW w \in Workers, NEW q \in Runs, ClaimDispatch(w, q) PROVE TypeOK'
    <2>1. [Idle EXCEPT !.pc = "start", !.run = q] \in Execution
        BY IdleType DEF Execution, Positions, Executing
    <2>2. worker' \in [Workers -> Execution]
        BY <1>1, <1>2, <2>1, MovesType DEF ClaimDispatch
    <2>3. Leased(w) \in DispatchRow
        BY DEF Leased, DispatchRow
    <2>4. dispatch' \in [Runs -> DispatchRow]
        BY <1>1, <1>2, <2>3 DEF ClaimDispatch, TypeOK
    <2> QED
        BY <1>1, <1>2, <2>2, <2>4 DEF ClaimDispatch, TypeOK, external
  <1>3. ASSUME NEW q \in Runs, LeaseExpires(q) PROVE TypeOK'
    <2>1. dispatch' \in [Runs -> DispatchRow]
        BY <1>1, <1>3 DEF LeaseExpires, TypeOK, DispatchRow
    <2>2. faults' \in 0..MaxFaults
        BY <1>1, <1>3, FaultType DEF LeaseExpires, TypeOK
    <2> QED
        BY <1>1, <1>3, <2>1, <2>2 DEF LeaseExpires, TypeOK, external
  <1>4. ASSUME NEW w \in Workers, ReleaseDispatch(w) PROVE TypeOK'
    <2>1. worker' \in [Workers -> Execution]
        BY <1>1, <1>4, IdleType, MovesType DEF ReleaseDispatch
    <2>2. Completed \in DispatchRow /\ Pending \in DispatchRow
        BY DEF Completed, Pending, DispatchRow
    <2>3. dispatch' \in [Runs -> DispatchRow]
        BY <1>1, <1>4, <2>2 DEF ReleaseDispatch, TypeOK
    <2> QED
        BY <1>1, <1>4, <2>1, <2>3 DEF ReleaseDispatch, TypeOK, external
  <1>5. ASSUME NEW w \in Workers, Crash(w) PROVE TypeOK'
    <2>1. worker' \in [Workers -> Execution]
        BY <1>1, <1>5, IdleType, MovesType DEF Crash
    <2>2. dispatch' \in [Runs -> DispatchRow]
      <3>1. \A d \in DispatchRow : [d EXCEPT !.owner = Dead] \in DispatchRow
          BY DEF DispatchRow
      <3> QED
          BY <1>1, <1>5, <3>1 DEF Crash, TypeOK
    <2>3. faults' \in 0..MaxFaults
        BY <1>1, <1>5, FaultType DEF Crash
    <2> QED
        BY <1>1, <1>5, <2>1, <2>2, <2>3 DEF Crash, TypeOK, external
  <1> QED
      BY <1>2, <1>3, <1>4, <1>5

\* The steps that only move an execution.
LEMMA MoveType ==
    ASSUME Inv, NEW w \in Workers,
           Start(w) \/ Reread(w) \/ OperationFails(w) \/ Interrupt(w)
    PROVE  TypeOK'
  <1>1. TypeOK /\ worker[w] \in Execution
      BY ExecutionType DEF Inv
  <1>2. worker' \in [Workers -> Execution] /\ faults' \in 0..MaxFaults
    <2>1. CASE Start(w)
      <3>1. runs[worker[w].run] \in Row
          BY <2>1, AtWork DEF Start
      <3>2. [worker[w] EXCEPT !.pc = "provisioning", !.seen = runs[worker[w].run]] \in Execution
          BY <1>1, <3>1 DEF Execution, Positions, Executing, Updates
      <3>3. \A pc \in {"release", "reread"}, t \in BOOLEAN :
               [worker[w] EXCEPT !.pc = pc, !.terminal = t] \in Execution
          BY <1>1 DEF Execution, Positions
      <3>4. terminalRun(runs[worker[w].run]) \in BOOLEAN
          BY DEF terminalRun
      <3>5. CASE runs[worker[w].run].status = "planned"
        <4>1. worker' = [worker EXCEPT ![w] = [worker[w] EXCEPT !.pc = "provisioning",
                                                                !.seen = runs[worker[w].run]]]
            BY <2>1, <3>5 DEF Start
        <4> QED
            BY <1>1, <2>1, <3>2, <4>1, MovesType DEF Start, TypeOK
      <3>6. CASE runs[worker[w].run].status # "planned"
        <4> DEFINE t == terminalRun(runs[worker[w].run])
                   pc == IF t THEN "release" ELSE "reread"
        <4>1. worker' = [worker EXCEPT ![w] = [worker[w] EXCEPT !.pc = pc, !.terminal = t]]
            BY <2>1, <3>6 DEF Start
        <4>2. [worker[w] EXCEPT !.pc = pc, !.terminal = t] \in Execution
            BY <3>3, <3>4
        <4> QED
            BY <1>1, <2>1, <4>1, <4>2, MovesType DEF Start, TypeOK
      <3> QED
          BY <3>5, <3>6
    <2>2. CASE Reread(w)
      <3> DEFINE t == terminalRun(runs[worker[w].run])
      <3>1. worker' = [worker EXCEPT ![w] = [worker[w] EXCEPT !.pc = "release", !.terminal = t]]
          BY <2>2 DEF Reread
      <3>2. t \in BOOLEAN
          BY DEF terminalRun
      <3>3. [worker[w] EXCEPT !.pc = "release", !.terminal = t] \in Execution
          BY <1>1, <3>2 DEF Execution, Positions
      <3> QED
          BY <1>1, <2>2, <3>1, <3>3, MovesType DEF Reread, TypeOK
    <2>3. CASE OperationFails(w)
        BY <1>1, <2>3, FailsType DEF OperationFails
    <2>4. CASE Interrupt(w)
      <3>1. faults' \in 0..MaxFaults
          BY <1>1, <2>4, FaultType DEF Interrupt, TypeOK
      <3> DEFINE e == IF worker[w].pc \in Executing THEN [worker[w] EXCEPT !.pc = "reread"]
                      ELSE IF worker[w].pc = "reread"
                      THEN [worker[w] EXCEPT !.pc = "release", !.terminal = FALSE] ELSE Idle
      <3>2. worker' = [worker EXCEPT ![w] = e]
          BY <2>4 DEF Interrupt
      <3>3. e \in Execution
        <4>1. [worker[w] EXCEPT !.pc = "reread"] \in Execution
            BY <1>1 DEF Execution, Positions
        <4>2. [worker[w] EXCEPT !.pc = "release", !.terminal = FALSE] \in Execution
            BY <1>1 DEF Execution, Positions
        <4> QED
            BY <4>1, <4>2, IdleType
      <3> QED
          BY <1>1, <3>1, <3>2, <3>3, MovesType
    <2> QED
        BY <2>1, <2>2, <2>3, <2>4
  <1> QED
      BY <1>1, <1>2 DEF Start, Reread, OperationFails, Interrupt, TypeOK, external

\* The steps that call another system.
LEMMA CreateProductType ==
    ASSUME Inv, NEW w \in Workers, CreateProduct(w)
    PROVE  TypeOK'
  <1>1. TypeOK /\ worker[w] \in Execution /\ NextPosition(worker[w].pc) \in Positions
      BY ExecutionType DEF Inv
  <1>2. runs[worker[w].run] \in Row
      BY AtWork DEF CreateProduct
  <1>3. executionKey(worker[w].run) \in Runs
      BY <1>2 DEF executionKey, Row
  <1>4. PICK p \in Products :
           /\ productOf' = [productOf EXCEPT ![executionKey(worker[w].run)] = p]
           /\ \/ Proceeds(w, [worker[w] EXCEPT !.pc = NextPosition(@), !.product = p])
              \/ Fails(w)
      BY DEF CreateProduct
  <1>5. [worker[w] EXCEPT !.pc = NextPosition(@), !.product = p] \in Execution
      BY <1>1 DEF Execution
  <1>6. worker' \in [Workers -> Execution] /\ faults' \in 0..MaxFaults
      BY <1>1, <1>4, <1>5, ProceedsType, FailsType
  <1>7. productOf' \in [Runs -> Products \union {NoProduct}]
      BY <1>1, <1>3, <1>4 DEF TypeOK
  <1> QED
      BY <1>1, <1>6, <1>7 DEF CreateProduct, TypeOK

LEMMA CreateApplicationType ==
    ASSUME Inv, NEW w \in Workers, CreateApplication(w)
    PROVE  TypeOK'
  <1>1. TypeOK /\ worker[w] \in Execution /\ NextPosition(worker[w].pc) \in Positions
      BY ExecutionType DEF Inv
  <1>2. worker[w].product \in Products
    <2>1. worker[w].product # NoProduct
        BY DEF CreateApplication, Inv, WorkerSound, Created, Bound
    <2> QED
        BY <1>1, <2>1 DEF Execution
  <1>3. PICK a \in Applications \ worker[w].done :
           /\ applications' = applications \union {<<worker[w].product, a>>}
           /\ \/ Proceeds(w, [worker[w] EXCEPT !.done = @ \union {a},
                                  !.pc = IF worker[w].done \union {a} = Applications
                                         THEN NextPosition(@) ELSE @])
              \/ Fails(w)
      BY DEF CreateApplication
  <1>4. [worker[w] EXCEPT !.done = @ \union {a},
                          !.pc = IF worker[w].done \union {a} = Applications
                                 THEN NextPosition(@) ELSE @] \in Execution
      BY <1>1 DEF Execution
  <1>5. worker' \in [Workers -> Execution] /\ faults' \in 0..MaxFaults
      BY <1>1, <1>3, <1>4, ProceedsType, FailsType
  <1> QED
      BY <1>1, <1>2, <1>3, <1>5 DEF CreateApplication, TypeOK

LEMMA SupplyType ==
    ASSUME Inv, NEW w \in Workers, ReplaceCapabilitySet(w) \/ Generate(w)
    PROVE  TypeOK'
  <1>1. TypeOK /\ worker[w] \in Execution /\ NextPosition(worker[w].pc) \in Positions
      BY ExecutionType DEF Inv
  <1>2. [worker[w] EXCEPT !.pc = NextPosition(@)] \in Execution
      BY <1>1 DEF Execution
  <1>3. worker[w].run \in Runs
      BY AtWork DEF ReplaceCapabilitySet, Generate
  <1>4. worker' \in [Workers -> Execution] /\ faults' \in 0..MaxFaults
      BY <1>1, <1>2, ProceedsType, FailsType DEF ReplaceCapabilitySet, Generate
  <1>5. CASE ReplaceCapabilitySet(w)
    <2>1. worker[w].product \in Products
      <3>1. worker[w].product # NoProduct
          BY <1>5 DEF ReplaceCapabilitySet, Inv, WorkerSound, Created, Bound, Supplied
      <3> QED
          BY <1>1, <3>1 DEF Execution
    <2> QED
        BY <1>1, <1>4, <1>5, <2>1 DEF ReplaceCapabilitySet, TypeOK
  <1>6. CASE Generate(w)
      BY <1>1, <1>3, <1>4, <1>6 DEF Generate, TypeOK
  <1> QED
      BY <1>5, <1>6

\* A new run is inserted as a row, by a start or by a retry.
Inserts(r, row) ==
    /\ InsertRun(r, row)
    /\ row \in Row
    /\ row.status = "planned" /\ Untouched(row)
    /\ \/ row.root = r /\ row.product = NoProduct
       \/ \E parent \in Runs : /\ runs[parent] # NoRow
                               /\ row.root = runs[parent].root /\ row.product = runs[parent].product

LEMMA InsertCases ==
    ASSUME TypeOK, NEW r \in Runs, StartRun(r) \/ \E parent \in Runs : RetryRun(parent, r)
    PROVE  \E row : Inserts(r, row)
  <1>1. \A root, retryOf, product :
           LET row == NewRow(root, retryOf, product) IN
           row.status = "planned" /\ Untouched(row) /\ row.root = root /\ row.product = product
      BY DEF NewRow, Untouched, Steps
  <1>2. CASE StartRun(r)
    <2>1. NewRow(r, NoRun, NoProduct) \in Row
        BY NewRowType
    <2>2. Inserts(r, NewRow(r, NoRun, NoProduct))
        BY <1>1, <1>2, <2>1 DEF StartRun, Inserts
    <2> QED
        BY <2>2
  <1>3. ASSUME NEW parent \in Runs, RetryRun(parent, r)
        PROVE  \E row : Inserts(r, row)
    <2>1. runs[parent] \in Row /\ runs[parent] # NoRow
        BY <1>3, RowType DEF RetryRun
    <2>2. runs[parent].root \in Runs /\ runs[parent].product \in Products \union {NoProduct}
        BY <2>1 DEF Row
    <2>3. NewRow(runs[parent].root, parent, runs[parent].product) \in Row
        BY <2>2, NewRowType
    <2>4. Inserts(r, NewRow(runs[parent].root, parent, runs[parent].product))
        BY <1>1, <1>3, <2>1, <2>3 DEF RetryRun, Inserts
    <2> QED
        BY <2>4
  <1> QED
      BY <1>2, <1>3

LEMMA TypeStep == Inv /\ [Next]_vars => TypeOK'
  <1> SUFFICES ASSUME Inv, [Next]_vars PROVE TypeOK'
      OBVIOUS
  <1>1. TypeOK
      BY DEF Inv
  <1>2. CASE UNCHANGED vars
      BY <1>1, <1>2 DEF vars, TypeOK
  <1>3. ASSUME NEW r \in Runs, StartRun(r) \/ \E parent \in Runs : RetryRun(parent, r)
        PROVE  TypeOK'
      BY <1>1, <1>3, InsertCases, InsertType DEF Inserts
  <1>4. ASSUME NEW w \in Workers, Start(w) \/ Reread(w) \/ OperationFails(w) \/ Interrupt(w)
        PROVE  TypeOK'
      BY <1>4, MoveType
  <1> QED
      BY <1>1, <1>2, <1>3, <1>4, QueueType, PersistType, BindType, CreateProductType,
         CreateApplicationType, SupplyType DEF Next, Work

-----------------------------------------------------------------------------
(* What every step leaves to those who do not take it.                     *)

\* Runs, records and creations are never taken back, and ends of runs are final.
Keeps ==
    /\ \A r \in Runs : runs[r] # NoRow =>
          /\ runs'[r] # NoRow
          /\ runs'[r].root = runs[r].root
          /\ runs[r].product # NoProduct => runs'[r].product = runs[r].product
          /\ terminalRun(runs[r]) => terminalRun(runs'[r])
    /\ \A r \in Runs, k \in OperationKeys :
          replies[r][k] # NoRow => replies'[r][k] = replies[r][k]
    /\ \A r \in Runs : productOf[r] # NoProduct => productOf'[r] = productOf[r]
    /\ applications \subseteq applications' /\ capabilities \subseteq capabilities'

\* The row that a document makes of a run.
LEMMA UpdatedRow ==
    ASSUME NEW row \in Row, NEW doc \in Document
    PROVE  LET new == StoredRow(RunOf(row, doc)) IN
           /\ new \in Row /\ new # NoRow
           /\ new.root = row.root /\ new.product = row.product
           /\ new.status = doc.status /\ new.completedAt = doc.completedAt
  <1>1. StoredRow(RunOf(row, doc)) \in Row
      BY RunOfType, StoredRowType
  <1> QED
      BY <1>1, AbsentRowAssumption DEF StoredRow, RunOf, Row

LEMMA BoundRowSound ==
    ASSUME Inv, NEW w \in Workers, worker[w].pc = "bind", BindCommits(w)
    PROVE  /\ worker[w].product \in Products
           /\ BoundRow(w) \in Row /\ BoundRow(w) # NoRow
           /\ BoundRow(w).root = runs[worker[w].run].root
           /\ BoundRow(w).status = runs[worker[w].run].status
           /\ BoundRow(w).product = worker[w].product
  <1>1. runs[worker[w].run] \in Row
      BY AtWork
  <1>2. worker[w].product \in Products
    <2>1. worker[w].product # NoProduct
        BY DEF Inv, WorkerSound, Created
    <2> QED
        BY <2>1, ExecutionType DEF Execution, Inv
  <1>3. BoundRow(w) \in Row
      BY <1>1, <1>2, BoundRowType DEF BoundRow
  <1> QED
      BY <1>1, <1>2, <1>3, AbsentRowAssumption DEF BoundRow, Row, BindCommits

\* A run that is terminal is not updated.
LEMMA UpdateNotTerminal ==
    \A old, new : runRowMayChange(old, new) =>
        /\ ~terminalRun(old)
        /\ new.completedAt <=> terminalRun(new)
  BY DEF runRowMayChange, runStatusMayChange, terminalRun

LEMMA CommitKeeps ==
    ASSUME Inv, NEW r \in Runs, NEW k \in OperationKeys, NEW row \in Row, NEW reply,
           runs' = [runs EXCEPT ![r] = row],
           replies[r][k] = NoRow, replies' = [replies EXCEPT ![r][k] = reply],
           runs[r] # NoRow,
           row.root = runs[r].root,
           runs[r].product # NoProduct => row.product = runs[r].product,
           terminalRun(runs[r]) => terminalRun(row),
           UNCHANGED external
    PROVE  Keeps
  <1>1. row # NoRow
      BY AbsentRowAssumption
  <1>2. TypeOK
      BY DEF Inv
  <1>3. \A q \in Runs : runs'[q] = IF q = r THEN row ELSE runs[q]
      BY <1>2 DEF TypeOK
  <1>4. \A q \in Runs, j \in OperationKeys :
           replies'[q][j] = IF q = r /\ j = k THEN reply ELSE replies[q][j]
      BY <1>2 DEF TypeOK
  <1> QED
      BY <1>1, <1>3, <1>4 DEF Keeps, external

LEMMA StepKeeps == Inv /\ [Next]_vars => Keeps
  <1> SUFFICES ASSUME Inv, [Next]_vars PROVE Keeps
      OBVIOUS
  <1>1. TypeOK
      BY DEF Inv
  <1>2. CASE UNCHANGED <<runs, replies, external>>
      BY <1>2 DEF Keeps, external
  <1>3. ASSUME NEW r \in Runs, NEW row, Inserts(r, row) PROVE Keeps
    <2>1. \A q \in Runs : runs[q] # NoRow => runs'[q] = runs[q]
        BY <1>1, <1>3 DEF Inserts, InsertRun, TypeOK
    <2> QED
        BY <1>3, <2>1 DEF Inserts, InsertRun, external, Keeps
  <1>4. ASSUME NEW w \in Workers, Persist(w) PROVE Keeps
    <2> DEFINE r == worker[w].run
    <2>1. /\ worker[w].pc \in Updates /\ r \in Runs /\ runs[r] # NoRow
          /\ runs[r] \in Row /\ worker[w].seen \in Row
        BY <1>4, AtWork DEF Persist, Updates, Executing
    <2>2. PICK doc \in Submitted(w) :
              \/ PersistCommits(w, doc)
              \/ PersistReplays(w, doc) /\ UNCHANGED <<runs, replies>>
              \/ Stops(w) /\ UNCHANGED <<runs, replies>>
        BY <1>4, PersistCases
    <2>3. CASE PersistCommits(w, doc)
      <3> DEFINE row == StoredRow(RunOf(runs[r], doc))
      <3>1. doc \in Document
          BY <1>1, <2>1, SubmittedDocument
      <3>2. row \in Row /\ row.root = runs[r].root /\ row.product = runs[r].product
          BY <2>1, <3>1, UpdatedRow
      <3>3. ~terminalRun(runs[r])
          BY <2>3, UpdateNotTerminal DEF PersistCommits
      <3>4. Key(w) \in OperationKeys
          BY <1>1, <2>1, KeyType
      <3>5. UNCHANGED external
          BY <1>4 DEF Persist
      <3> QED
          BY <2>1, <2>3, <3>2, <3>3, <3>4, <3>5, CommitKeeps DEF PersistCommits, Commits
    <2> QED
        BY <1>2, <1>4, <2>2, <2>3 DEF Persist
  <1>5. ASSUME NEW w \in Workers, BindProduct(w) PROVE Keeps
    <2> DEFINE r == worker[w].run
    <2>1. worker[w].pc = "bind" /\ r \in Runs /\ runs[r] # NoRow
        BY <1>5, AtWork DEF BindProduct
    <2>2. CASE BindCommits(w)
      <3>1. "bind" \in OperationKeys /\ UNCHANGED external
          BY <1>5 DEF OperationKeys, BindProduct
      <3>2. runs[r].product # NoProduct => BoundRow(w).product = runs[r].product
          BY DEF BoundRow
      <3>3. terminalRun(runs[r]) => terminalRun(BoundRow(w))
          BY <2>1, <2>2, BoundRowSound DEF terminalRun
      <3> QED
          BY <2>1, <2>2, <3>1, <3>2, <3>3, BoundRowSound, CommitKeeps DEF BindCommits
    <2> QED
        BY <1>2, <1>5, <2>2, BindCases DEF BindProduct
  <1>6. ASSUME NEW w \in Workers, CreateProduct(w) PROVE Keeps
    <2>1. runs[worker[w].run] \in Row
        BY <1>6, AtWork DEF CreateProduct
    <2>2. executionKey(worker[w].run) \in Runs
        BY <2>1 DEF executionKey, Row
    <2>3. \A r \in Runs : productOf[r] # NoProduct => productOf'[r] = productOf[r]
        BY <1>1, <1>6, <2>2 DEF CreateProduct, TypeOK
    <2> QED
        BY <1>6, <2>3 DEF CreateProduct, Keeps
  <1>7. ASSUME NEW w \in Workers,
               CreateApplication(w) \/ ReplaceCapabilitySet(w) \/ Generate(w)
        PROVE  Keeps
      BY <1>7 DEF CreateApplication, ReplaceCapabilitySet, Generate, Keeps
  <1>8. CASE UNCHANGED vars
      BY <1>2, <1>8 DEF vars, external
  <1> QED
    <2>1. CASE \E r \in Runs : StartRun(r) \/ \E parent \in Runs : RetryRun(parent, r)
        BY <1>1, <1>3, <2>1, InsertCases
    <2>2. CASE \/ \E w \in Workers, r \in Runs : ClaimDispatch(w, r)
               \/ \E r \in Runs : LeaseExpires(r)
               \/ \E w \in Workers : Crash(w) \/ ReleaseDispatch(w) \/ Start(w) \/ Reread(w)
                                        \/ OperationFails(w) \/ Interrupt(w)
        BY <1>2, <2>2 DEF ClaimDispatch, LeaseExpires, ReleaseDispatch, Crash, Start, Reread,
                          OperationFails, Interrupt
    <2> QED
        BY <1>4, <1>5, <1>6, <1>7, <1>8, <2>1, <2>2 DEF Next, Work

\* An execution that did not move is as sound as it was.
LEMMA OthersSound ==
    ASSUME Inv, Keeps, NEW v \in Workers, worker'[v] = worker[v]
    PROVE  WorkerSound(v)'
  <1> SUFFICES ASSUME worker[v].pc # "idle" PROVE WorkerSound(v)'
      BY DEF WorkerSound
  <1> DEFINE r == worker[v].run
  <1>1. WorkerSound(v) /\ r \in Runs /\ runs[r] \in Row /\ runs[r] # NoRow
      BY AtWork DEF Inv
  <1>2. /\ runs'[r] # NoRow /\ runs'[r].root = runs[r].root
        /\ terminalRun(runs[r]) => terminalRun(runs'[r])
        /\ runs[r].product # NoProduct => runs'[r].product = runs[r].product
      BY <1>1 DEF Keeps
  <1>3. runs[r].root \in Runs
      BY <1>1 DEF Row
  <1>4. OpenedBy(v, r) => OpenedBy(v, r)'
      BY <1>1 DEF Keeps, OpenedBy, Opening, OperationKeys, Updates
  <1> QED
      BY <1>1, <1>2, <1>3, <1>4 DEF WorkerSound, Keeps, Created, Bound

\* A run and its records that did not change are as sound as they were.
LEMMA RowKept ==
    ASSUME Inv, Keeps, NEW r \in Runs, runs'[r] = runs[r],
           \A k \in OperationKeys : replies'[r][k] = replies[r][k],
           r \in files' => r \in files,
           productOf'[r] = productOf[r]
    PROVE  RunSound(r)' /\ RepliesSound(r)'
  <1>1. RunSound(r) /\ RepliesSound(r)
      BY DEF Inv
  <1>2. RepliesSound(r)'
      BY <1>1 DEF RepliesSound, OperationKeys
  <1>3. CASE runs[r] = NoRow
      BY <1>1, <1>2, <1>3 DEF RunSound
  <1>4. CASE runs[r] # NoRow
    <2>1. runs[r].root \in Runs
        BY <1>4, RowType DEF Inv, Row
    <2>2. Provisioned(runs[r].product) => Provisioned(runs[r].product)'
        BY DEF Provisioned, Keeps
    <2> QED
        BY <1>1, <1>2, <1>4, <2>1, <2>2 DEF RunSound, Keeps, Untouched
  <1> QED
      BY <1>2, <1>3, <1>4

\* The queue is sound as long as no row appears and no run ceases to be terminal.
LEMMA QueueKept ==
    ASSUME Inv, Keeps, NEW r \in Runs, dispatch'[r].state = dispatch[r].state,
           (runs[r] = NoRow) <=> (runs'[r] = NoRow)
    PROVE  QueueSound(r)'
  BY DEF Inv, QueueSound, Keeps

-----------------------------------------------------------------------------
(* The invariant is inductive: one lemma for each kind of step.            *)

\* What a step has to show beyond what it keeps.
LEMMA StepInv ==
    ASSUME Inv, [Next]_vars,
           \A r \in Runs : QueueSound(r)' /\ RunSound(r)' /\ RepliesSound(r)',
           \A w \in Workers : worker'[w] # worker[w] => WorkerSound(w)'
    PROVE  Inv'
  BY TypeStep, StepKeeps, OthersSound DEF Inv

LEMMA InsertInv ==
    ASSUME Inv, [Next]_vars, NEW r \in Runs, NEW row, Inserts(r, row)
    PROVE  Inv'
  <1>1. TypeOK /\ Keeps
      BY StepKeeps DEF Inv
  <1>2. /\ runs[r] = NoRow /\ row # NoRow /\ row \in Row
        /\ UNCHANGED <<replies, worker, external, faults>>
      BY AbsentRowAssumption DEF Inserts, InsertRun
  <1>3. runs' = [runs EXCEPT ![r] = row] /\ dispatch' = [dispatch EXCEPT ![r] = Pending]
      BY DEF Inserts, InsertRun
  <1>4. \A q \in Runs \ {r} : QueueSound(q)' /\ RunSound(q)' /\ RepliesSound(q)'
      BY <1>1, <1>2, <1>3, RowKept, QueueKept DEF external, TypeOK
  <1>5. QueueSound(r)'
      BY <1>1, <1>2, <1>3 DEF QueueSound, TypeOK, Pending
  <1>6. \A k \in OperationKeys : replies[r][k] = NoRow
      BY <1>2 DEF Inv, RunSound
  <1>7. RepliesSound(r)'
      BY <1>2, <1>6 DEF RepliesSound, OperationKeys
  <1>8. RunSound(r)'
    <2>1. /\ runs'[r] = row /\ row.status = "planned" /\ Untouched(row)
          /\ productOf'[r] = NoProduct /\ r \notin files'
        BY <1>1, <1>2, <1>3 DEF Inserts, TypeOK, Inv, RunSound, external
    <2>2. /\ runs'[row.root] # NoRow /\ runs'[row.root].root = row.root
          /\ row.product # NoProduct => productOf'[row.root] = row.product
      <3>1. CASE row.root = r /\ row.product = NoProduct
          BY <1>1, <1>2, <1>3, <3>1 DEF TypeOK
      <3>2. ASSUME NEW parent \in Runs, runs[parent] # NoRow,
                   row.root = runs[parent].root, row.product = runs[parent].product
            PROVE  /\ runs'[row.root] # NoRow /\ runs'[row.root].root = row.root
                   /\ row.product # NoProduct => productOf'[row.root] = row.product
        <4>1. runs[parent].root \in Runs
            BY <1>1, <3>2, RowType DEF Row
        <4>2. /\ runs[row.root] # NoRow /\ runs[row.root].root = row.root
              /\ row.product # NoProduct => productOf[row.root] = row.product
            BY <3>2 DEF Inv, RunSound
        <4>3. runs'[row.root] # NoRow /\ runs'[row.root].root = runs[row.root].root
            BY <1>1, <3>2, <4>1, <4>2 DEF Keeps
        <4>4. productOf' = productOf
            BY <1>2 DEF external
        <4> QED
            BY <4>2, <4>3, <4>4
      <3> QED
          BY <3>1, <3>2 DEF Inserts
    <2> QED
        BY <1>2, <1>6, <2>1, <2>2 DEF RunSound, Untouched
  <1> QED
      BY <1>2, <1>4, <1>5, <1>7, <1>8, StepInv

\* The run of an execution keeps what the execution relies on.
LEMMA RunKept ==
    ASSUME Inv, Keeps, NEW w \in Workers, worker[w].pc # "idle"
    PROVE  LET r == worker[w].run IN
           /\ r \in Runs /\ runs'[r] # NoRow /\ runs'[r].root = runs[r].root
           /\ runs[r].root \in Runs
           /\ terminalRun(runs[r]) => terminalRun(runs'[r])
           /\ runs[r].product # NoProduct => runs'[r].product = runs[r].product
           /\ \A q \in Runs : OpenedBy(w, q) => OpenedBy(w, q)'
  <1> DEFINE r == worker[w].run
  <1>1. r \in Runs /\ runs[r] # NoRow /\ runs[r] \in Row
      BY AtWork
  <1>2. \A q \in Runs : OpenedBy(w, q) => OpenedBy(w, q)'
      BY <1>1 DEF Keeps, OpenedBy, Opening, OperationKeys, Updates
  <1> QED
      BY <1>1, <1>2 DEF Keeps, Row

LEMMA StopsSound ==
    ASSUME Inv, Keeps, NEW w \in Workers, worker[w].pc # "idle", Stops(w)
    PROVE  WorkerSound(w)'
  <1>1. worker'[w] = [worker[w] EXCEPT !.pc = "reread"]
      BY DEF Stops, Inv, TypeOK
  <1>2. /\ worker'[w].pc = "reread" /\ worker'[w].run = worker[w].run
        /\ worker'[w].product = worker[w].product /\ worker'[w].done = worker[w].done
        /\ worker'[w].terminal = worker[w].terminal
      BY <1>1, ExecutionType DEF Inv, Execution
  <1>3. WorkerSound(w)
      BY DEF Inv
  <1> QED
      BY <1>2, <1>3, RunKept DEF WorkerSound, Keeps, Started, Executing, Updates, Created, Bound,
                                 Supplied, Capable, Generated, Opened

LEMMA AnsweredSound ==
    ASSUME Inv, Keeps, NEW w \in Workers, worker[w].pc \in Updates,
           NEW doc \in Submitted(w), NEW row \in Row, Answered(w, doc, row),
           replies'[worker[w].run][Key(w)] # NoRow,
           replies'[worker[w].run][Key(w)].request[1] = doc,
           doc.completedAt => terminalRun(runs'[worker[w].run])
    PROVE  WorkerSound(w)'
  <1> DEFINE e == worker[w]
             r == worker[w].run
  <1>1. TypeOK /\ e.pc # "idle" /\ e.seen \in Row /\ WorkerSound(w)
      BY AtWork DEF Updates, Executing, Inv
  <1>2. /\ worker'[w].pc = NextPosition(e.pc) /\ worker'[w].run = e.run
        /\ worker'[w].seen = row /\ worker'[w].terminal = doc.completedAt
        /\ worker'[w].product = e.product /\ worker'[w].done = e.done
    <2>1. worker'[w] = [e EXCEPT !.pc = NextPosition(@), !.terminal = doc.completedAt, !.seen = row]
        BY <1>1 DEF Answered, TypeOK
    <2> QED
        BY <1>1, <2>1, ExecutionType DEF Execution
  <1>3. e.pc = "provisioning" => OpenedBy(w, r)'
    <2> SUFFICES ASSUME e.pc = "provisioning" PROVE OpenedBy(w, r)'
        OBVIOUS
    <2>1. Key(w) = "provisioning"
        BY DEF Key
    <2>2. doc.steps["provision"].startedAt \in Clock[w]
        BY <1>1, SubmittedDocument DEF WorkerSound, Untouched
    <2> QED
        BY <1>2, <2>1, <2>2 DEF OpenedBy, Opening
  <1>4. /\ r \in Runs /\ runs'[r] # NoRow
        /\ worker'[w].terminal => terminalRun(runs'[r])
        /\ e.product # NoProduct => productOf'[runs'[r].root] = e.product
        /\ {e.product} \X e.done \subseteq applications'
      BY <1>1, <1>2, RunKept DEF WorkerSound, Keeps
  <1>5. CASE e.pc = "provisioning"
    <2>1. NextPosition(e.pc) = "product" /\ e.done = {}
        BY <1>1, <1>5 DEF NextPosition, WorkerSound
    <2> QED
        BY <1>2, <1>3, <1>4, <1>5, <2>1 DEF WorkerSound, Created, Bound, Supplied, Capable, Generated
  <1>6. CASE e.pc \in {"generating", "validating"}
    <2>1. NextPosition(e.pc) \in {"generate", "completed"}
        BY <1>6 DEF NextPosition
    <2>2. /\ e.product # NoProduct /\ runs[r].product = e.product
          /\ {e.product} \X Applications \subseteq applications /\ e.product \in capabilities
          /\ OpenedBy(w, r)
        BY <1>1, <1>6 DEF WorkerSound, Created, Bound, Supplied, Capable, Generated, Opened
    <2>3. runs'[r].product = e.product /\ OpenedBy(w, r)'
        BY <1>1, <1>2, <2>2, RunKept
    <2> QED
        BY <1>2, <1>4, <2>1, <2>2, <2>3 DEF WorkerSound, Keeps
  <1>7. CASE e.pc \in {"completed", "failed"}
    <2>1. NextPosition(e.pc) = "release"
        BY <1>7 DEF NextPosition
    <2> QED
        BY <1>2, <1>4, <2>1 DEF WorkerSound, Started, Executing, Updates, Created, Bound,
                                Supplied, Capable, Generated, Opened
  <1> QED
      BY <1>5, <1>6, <1>7 DEF Updates

\* A step that changes one execution and no row leaves the runs as sound as they were.
LEMMA RunsKept ==
    ASSUME Inv, Keeps, UNCHANGED <<runs, replies, productOf, files>>,
           NEW r \in Runs, dispatch'[r].state = dispatch[r].state
    PROVE  QueueSound(r)' /\ RunSound(r)' /\ RepliesSound(r)'
  BY RowKept, QueueKept

LEMMA OneMoves ==
    ASSUME Inv, [Next]_vars, NEW w \in Workers, WorkerSound(w)',
           \A v \in Workers \ {w} : worker'[v] = worker[v],
           \A r \in Runs : QueueSound(r)' /\ RunSound(r)' /\ RepliesSound(r)'
    PROVE  Inv'
  BY StepInv

LEMMA PersistInv ==
    ASSUME Inv, [Next]_vars, NEW w \in Workers, Persist(w)
    PROVE  Inv'
  <1> DEFINE e == worker[w]
             r == worker[w].run
  <1>1. TypeOK /\ Keeps
      BY StepKeeps DEF Inv
  <1>2. /\ e.pc \in Updates /\ e.pc # "idle" /\ r \in Runs /\ runs[r] # NoRow
        /\ runs[r] \in Row /\ e.seen \in Row /\ WorkerSound(w)
        /\ UNCHANGED <<dispatch, external, faults>>
      BY AtWork DEF Persist, Updates, Executing, Inv
  <1>3. PICK doc \in Submitted(w) :
              \/ PersistCommits(w, doc)
              \/ PersistReplays(w, doc) /\ UNCHANGED <<runs, replies>>
              \/ Stops(w) /\ UNCHANGED <<runs, replies>>
      BY PersistCases
  <1>4. doc \in Document /\ doc.status = e.pc
      BY <1>1, <1>2, SubmittedDocument
  <1>5. Key(w) \in OperationKeys \ {"bind"}
      BY <1>1, <1>2, KeyType
  <1>6. CASE PersistCommits(w, doc)
    <2> DEFINE new == StoredRow(RunOf(runs[r], doc))
               request == <<doc, e.seen.version>>
    <2>1. /\ new \in Row /\ new # NoRow /\ new.root = runs[r].root
          /\ new.product = runs[r].product /\ new.status = e.pc
          /\ new.completedAt = doc.completedAt /\ RunOf(runs[r], doc) \in Row
        BY <1>2, <1>4, UpdatedRow, RunOfType
    <2>2. /\ ~terminalRun(runs[r]) /\ (doc.completedAt => terminalRun(new))
        BY <1>6, <2>1, UpdateNotTerminal DEF PersistCommits
    <2> HIDE DEF new
    <2>3. /\ \A q \in Runs : runs'[q] = IF q = r THEN new ELSE runs[q]
          /\ \A q \in Runs, k \in OperationKeys :
                replies'[q][k] = IF q = r /\ k = Key(w)
                                 THEN [request |-> request, row |-> RunOf(runs[r], doc)]
                                 ELSE replies[q][k]
        BY <1>1, <1>6 DEF PersistCommits, Commits, TypeOK, new
    <2>4. [request |-> request, row |-> RunOf(runs[r], doc)] # NoRow
      <3>1. request \in Document \X Nat
          BY <1>2, <1>4 DEF Row
      <3>2. [request |-> request, row |-> RunOf(runs[r], doc)] \in Reply
          BY <2>1, <3>1 DEF Reply
      <3> QED
          BY <3>2, AbsentRowAssumption
    <2>5. WorkerSound(w)'
      <3>1. doc.completedAt => terminalRun(runs'[r])
          BY <1>2, <2>2, <2>3
      <3>2. /\ replies'[r][Key(w)] # NoRow /\ replies'[r][Key(w)].request[1] = doc
          BY <1>2, <1>5, <2>3, <2>4
      <3> QED
          BY <1>1, <1>2, <1>6, <2>1, <3>1, <3>2, AnsweredSound DEF PersistCommits
    <2>6. ASSUME NEW q \in Runs PROVE QueueSound(q)'
        BY <1>1, <1>2, <2>1, <2>3, QueueKept
    <2>7. ASSUME NEW q \in Runs, q # r PROVE RunSound(q)' /\ RepliesSound(q)'
        BY <1>1, <1>2, <2>3, <2>7, RowKept DEF external
    <2>8. ASSUME NEW q \in Runs, q = r PROVE RepliesSound(q)'
      <3>1. runs'[r] = new
          BY <1>2, <2>3
      <3>2. ASSUME NEW k \in OperationKeys \ {"bind"}, replies'[r][k] # NoRow
            PROVE  /\ replies'[r][k].request \in Document \X Nat
                   /\ replies'[r][k].request[1].completedAt => terminalRun(runs'[r])
        <4>1. CASE k = Key(w)
          <5>1. replies'[r][k].request = request
              BY <1>2, <2>3, <4>1
          <5>2. request \in Document \X Nat /\ request[1] = doc
              BY <1>2, <1>4 DEF Row
          <5> QED
              BY <2>2, <3>1, <5>1, <5>2
        <4>2. CASE k # Key(w)
          <5>1. replies'[r][k] = replies[r][k]
              BY <1>2, <2>3, <4>2
          <5> QED
              BY <1>2, <2>2, <3>2, <5>1 DEF Inv, RepliesSound
        <4> QED
            BY <4>1, <4>2
      <3>3. replies'[r]["bind"] = replies[r]["bind"]
          BY <1>2, <1>5, <2>3 DEF OperationKeys
      <3> QED
          BY <2>1, <2>8, <3>1, <3>2, <3>3, <1>2 DEF Inv, RepliesSound
    <2>9. ASSUME NEW q \in Runs, q = r PROVE RunSound(q)'
      <3>1. /\ runs[runs[r].root] # NoRow /\ runs[runs[r].root].root = runs[r].root
            /\ productOf[r] # NoProduct => runs[r].root = r
            /\ runs[r].product # NoProduct => productOf[runs[r].root] = runs[r].product
            /\ r \in files => Provisioned(runs[r].product)
            /\ runs[r].root \in Runs
          BY <1>2 DEF Inv, RunSound, Row
      <3>2. e.pc \in {"generating", "validating", "completed"} => Provisioned(runs[r].product)
          BY <1>2 DEF WorkerSound, Created, Bound, Supplied, Capable, Generated, Provisioned
      <3>3. runs'[r] = new /\ new.status # "planned"
          BY <1>2, <2>1, <2>3 DEF Updates
      <3>4. /\ runs'[runs[r].root] # NoRow
            /\ runs'[runs[r].root].root = runs[r].root
          BY <1>1, <3>1 DEF Keeps
      <3>5. /\ UNCHANGED <<productOf, files>>
            /\ \A p : Provisioned(p) => Provisioned(p)'
          BY <1>2 DEF Provisioned, external
      <3> QED
          BY <2>1, <2>9, <3>1, <3>2, <3>3, <3>4, <3>5 DEF RunSound
    <2> QED
        BY <1>1, <1>6, <2>5, <2>6, <2>7, <2>8, <2>9, OneMoves DEF PersistCommits, Answered, TypeOK
  <1>7. CASE PersistReplays(w, doc) /\ UNCHANGED <<runs, replies>>
    <2>1. /\ replies[r][Key(w)] # NoRow /\ replies[r][Key(w)].request[1] = doc
          /\ replies[r][Key(w)].row \in Row
        BY <1>1, <1>2, <1>5, <1>7, ReplyType DEF PersistReplays, Replays
    <2>2. doc.completedAt => terminalRun(runs[r])
        BY <1>2, <1>5, <2>1 DEF Inv, RepliesSound
    <2>3. WorkerSound(w)'
        BY <1>1, <1>2, <1>7, <2>1, <2>2, AnsweredSound DEF PersistReplays
    <2> QED
        BY <1>1, <1>2, <1>7, <2>3, RunsKept, OneMoves
           DEF PersistReplays, Answered, TypeOK, external
  <1>8. CASE Stops(w) /\ UNCHANGED <<runs, replies>>
      BY <1>1, <1>2, <1>8, StopsSound, RunsKept, OneMoves DEF Stops, TypeOK, external
  <1> QED
      BY <1>3, <1>6, <1>7, <1>8

LEMMA GoesOnSound ==
    ASSUME Inv, Keeps, NEW w \in Workers, worker[w].pc = "bind", NEW row \in Row, GoesOn(w, row),
           runs'[worker[w].run].product = worker[w].product
    PROVE  WorkerSound(w)'
  <1> DEFINE e == worker[w]
  <1>1. TypeOK /\ WorkerSound(w)
      BY DEF Inv
  <1>2. /\ worker'[w].pc = "applications" /\ worker'[w].run = e.run /\ worker'[w].seen = row
        /\ worker'[w].product = e.product /\ worker'[w].done = e.done
        /\ worker'[w].terminal = e.terminal
    <2>1. worker'[w] = [e EXCEPT !.pc = NextPosition(@), !.seen = row]
        BY <1>1 DEF GoesOn, TypeOK
    <2> QED
        BY <1>1, <2>1, ExecutionType DEF Execution, NextPosition
  <1>3. e.product # NoProduct /\ OpenedBy(w, e.run)
      BY <1>1 DEF WorkerSound, Created, Opened
  <1> QED
      BY <1>1, <1>2, <1>3, RunKept DEF WorkerSound, Keeps, Created, Bound, Supplied, Capable, Generated

LEMMA BindInv ==
    ASSUME Inv, [Next]_vars, NEW w \in Workers, BindProduct(w)
    PROVE  Inv'
  <1> DEFINE e == worker[w]
             r == worker[w].run
  <1>1. TypeOK /\ Keeps
      BY StepKeeps DEF Inv
  <1>2. /\ e.pc = "bind" /\ r \in Runs /\ runs[r] # NoRow /\ runs[r] \in Row /\ e.seen \in Row
        /\ WorkerSound(w) /\ UNCHANGED <<dispatch, external, faults>>
      BY AtWork DEF BindProduct, Executing, Inv
  <1>3. /\ e.product # NoProduct /\ productOf[runs[r].root] = e.product
        /\ replies[r]["provisioning"] # NoRow
      BY <1>2 DEF WorkerSound, Created, Opened, OpenedBy
  <1>4. CASE BindCommits(w)
    <2> DEFINE new == BoundRow(w)
               reply == [request |-> <<e.product, e.seen.version>>, row |-> new]
    <2>1. /\ new \in Row /\ new # NoRow /\ new.root = runs[r].root
          /\ new.status = runs[r].status /\ new.product = e.product
        BY <1>2, <1>4, BoundRowSound
    <2> HIDE DEF new
    <2>2. /\ \A q \in Runs : runs'[q] = IF q = r THEN new ELSE runs[q]
          /\ \A q \in Runs, k \in OperationKeys :
                replies'[q][k] = IF q = r /\ k = "bind" THEN reply ELSE replies[q][k]
        BY <1>1, <1>4 DEF BindCommits, TypeOK, new
    <2>3. WorkerSound(w)'
        BY <1>1, <1>2, <1>4, <2>1, <2>2, GoesOnSound DEF BindCommits, new
    <2>4. ASSUME NEW q \in Runs PROVE QueueSound(q)'
        BY <1>1, <1>2, <2>1, <2>2, QueueKept
    <2>5. ASSUME NEW q \in Runs, q # r PROVE RunSound(q)' /\ RepliesSound(q)'
        BY <1>1, <1>2, <2>2, <2>5, RowKept DEF external
    <2>6. ASSUME NEW q \in Runs, q = r PROVE RepliesSound(q)'
      <3>1. RepliesSound(q) /\ runs'[q] = new /\ terminalRun(runs[q]) = terminalRun(new)
          BY <2>1, <2>2, <2>6 DEF Inv, terminalRun
      <3>2. \A k \in OperationKeys \ {"bind"} : replies'[q][k] = replies[q][k]
          BY <2>2
      <3>3. replies'[q]["bind"].request[1] = e.product
          BY <2>2, <2>6 DEF OperationKeys
      <3> QED
          BY <2>1, <3>1, <3>2, <3>3 DEF RepliesSound
    <2>7. ASSUME NEW q \in Runs, q = r PROVE RunSound(q)'
      <3>1. /\ runs[runs[r].root] # NoRow /\ runs[runs[r].root].root = runs[r].root
            /\ productOf[r] # NoProduct => runs[r].root = r
            /\ runs[r].status # "planned"
            /\ (r \in files \/ runs[r].status \in {"generating", "validating", "completed"})
                  => Provisioned(runs[r].product)
            /\ runs[r].root \in Runs
          BY <1>2, <1>3 DEF Inv, RunSound, Row, OperationKeys, Updates
      <3>2. runs[r].product # NoProduct => runs[r].product = e.product
          BY <1>4 DEF BindCommits
      <3>3. runs'[runs[r].root] # NoRow /\ runs'[runs[r].root].root = runs[r].root
          BY <1>1, <3>1 DEF Keeps
      <3>4. /\ UNCHANGED <<productOf, files>>
            /\ \A p : Provisioned(p) => p # NoProduct /\ Provisioned(p)'
          BY <1>2 DEF Provisioned, external
      <3>5. runs'[q] = new
          BY <2>2, <2>7
      <3> QED
          BY <1>3, <2>1, <2>7, <3>1, <3>2, <3>3, <3>4, <3>5 DEF RunSound
    <2> QED
        BY <1>1, <1>4, <2>3, <2>4, <2>5, <2>6, <2>7, OneMoves DEF BindCommits, GoesOn, TypeOK
  <1>5. CASE BindReplays(w) /\ UNCHANGED <<runs, replies>>
    <2>1. /\ replies[r]["bind"] # NoRow /\ replies[r]["bind"].request[1] = e.product
          /\ replies[r]["bind"].row \in Row
        BY <1>1, <1>2, <1>5, ReplyType DEF BindReplays, Replays, OperationKeys
    <2>2. runs'[r].product = e.product
        BY <1>2, <1>5, <2>1 DEF Inv, RepliesSound
    <2>3. WorkerSound(w)'
        BY <1>1, <1>2, <1>5, <2>1, <2>2, GoesOnSound DEF BindReplays
    <2> QED
        BY <1>1, <1>2, <1>5, <2>3, RunsKept, OneMoves DEF BindReplays, GoesOn, TypeOK, external
  <1>6. CASE Stops(w) /\ UNCHANGED <<runs, replies>>
      BY <1>1, <1>2, <1>6, StopsSound, RunsKept, OneMoves DEF Stops, TypeOK, external
  <1> QED
      BY <1>4, <1>5, <1>6, BindCases

LEMMA FailsSound ==
    ASSUME Inv, Keeps, NEW w \in Workers, Fails(w)
    PROVE  WorkerSound(w)'
  <1> DEFINE e == worker[w]
  <1>1. TypeOK /\ WorkerSound(w)
      BY DEF Inv
  <1>2. PICK failure \in Failures(e.pc) :
           worker' = [worker EXCEPT ![w].pc = "failed", ![w].failure = failure]
      BY DEF Fails
  <1>3. e.pc \in {"provisioning", "product", "applications", "capabilities", "generate"}
      BY <1>2 DEF Failures
  <1>4. /\ worker'[w].pc = "failed" /\ worker'[w].run = e.run /\ worker'[w].seen = e.seen
        /\ worker'[w].product = e.product /\ worker'[w].done = e.done
        /\ worker'[w].terminal = e.terminal
    <2>1. worker'[w] = [e EXCEPT !.pc = "failed", !.failure = failure]
        BY <1>1, <1>2 DEF TypeOK
    <2> QED
        BY <1>1, <2>1, ExecutionType DEF Execution
  <1>5. e.seen \in Row
      BY <1>1, <1>3 DEF WorkerSound, Started, Executing, Updates
  <1>6. e.seen.version > 1 => OpenedBy(w, e.run)
      BY <1>1, <1>3 DEF WorkerSound, Untouched, Opened, Created, Bound, Supplied, Capable
  <1> QED
      BY <1>1, <1>3, <1>4, <1>5, <1>6, RunKept
         DEF WorkerSound, Keeps, Created, Bound, Supplied, Capable, Generated, Opened

LEMMA ProceedsAt ==
    ASSUME TypeOK, NEW w \in Workers, NEW x, Proceeds(w, x)
    PROVE  worker'[w] = x /\ \A v \in Workers \ {w} : worker'[v] = worker[v]
  BY DEF TypeOK, Proceeds

LEMMA FailsAt ==
    ASSUME TypeOK, NEW w \in Workers, Fails(w)
    PROVE  \A v \in Workers \ {w} : worker'[v] = worker[v]
  BY DEF TypeOK, Fails

LEMMA CreateProductInv ==
    ASSUME Inv, [Next]_vars, NEW w \in Workers, CreateProduct(w)
    PROVE  Inv'
  <1> DEFINE e == worker[w]
             key == executionKey(worker[w].run)
  <1>1. TypeOK /\ Keeps
      BY StepKeeps DEF Inv
  <1>2. /\ e.pc = "product" /\ e.run \in Runs /\ runs[e.run] # NoRow /\ runs[e.run] \in Row
        /\ e.seen \in Row /\ WorkerSound(w)
        /\ UNCHANGED <<runs, dispatch, replies, applications, capabilities, files>>
      BY AtWork DEF CreateProduct, Executing, Inv
  <1>3. /\ key = runs[e.run].root /\ key \in Runs /\ runs[key] # NoRow /\ runs[key].root = key
      BY <1>2 DEF executionKey, Row, Inv, RunSound
  <1>4. PICK p \in Products :
           /\ productOf' = [productOf EXCEPT ![key] = p]
           /\ \/ Proceeds(w, [e EXCEPT !.pc = NextPosition(@), !.product = p])
              \/ Fails(w)
      BY DEF CreateProduct
  <1> HIDE DEF key
  <1>5. \A q \in Runs : productOf'[q] = IF q = key THEN p ELSE productOf[q]
      BY <1>1, <1>3, <1>4 DEF TypeOK
  <1>6. WorkerSound(w)'
    <2>1. CASE Fails(w)
        BY <1>1, <2>1, FailsSound
    <2>2. CASE Proceeds(w, [e EXCEPT !.pc = NextPosition(@), !.product = p])
      <3>1. worker'[w] = [e EXCEPT !.pc = NextPosition(@), !.product = p]
          BY <1>1, <2>2, ProceedsAt
      <3>2. /\ worker'[w].pc = "bind" /\ worker'[w].run = e.run /\ worker'[w].seen = e.seen
            /\ worker'[w].product = p /\ worker'[w].done = e.done
            /\ worker'[w].terminal = e.terminal
          BY <1>1, <1>2, <3>1, ExecutionType DEF Execution, NextPosition
      <3>3. e.done = {} /\ OpenedBy(w, e.run) /\ p # NoProduct
          BY <1>2, ExecutionAssumption DEF WorkerSound, Opened
      <3>4. productOf'[runs'[e.run].root] = p
          BY <1>2, <1>3, <1>5
      <3> QED
          BY <1>1, <1>2, <3>2, <3>3, <3>4, RunKept
             DEF WorkerSound, Bound, Supplied, Capable, Generated
    <2> QED
        BY <1>4, <2>1, <2>2
  <1>7. ASSUME NEW q \in Runs PROVE QueueSound(q)' /\ RunSound(q)' /\ RepliesSound(q)'
    <2>1. CASE q # key
        BY <1>1, <1>2, <1>5, <2>1, RowKept, QueueKept
    <2>2. CASE q = key
      <3>1. QueueSound(q)'
          BY <1>1, <1>2, QueueKept
      <3>2. RepliesSound(q)'
          BY <1>2 DEF Inv, RepliesSound
      <3>3. RunSound(q) /\ \A x : Provisioned(x) => Provisioned(x)'
          BY <1>2 DEF Inv, Provisioned
      <3>4. runs[q].product # NoProduct => productOf'[q] = runs[q].product
        <4>1. runs[q].product # NoProduct => productOf[q] = runs[q].product
            BY <1>3, <2>2, <3>3 DEF RunSound
        <4> QED
            BY <1>1, <4>1 DEF Keeps
      <3>5. RunSound(q)'
          BY <1>2, <1>3, <2>2, <3>3, <3>4 DEF RunSound, Untouched
      <3> QED
          BY <3>1, <3>2, <3>5
    <2> QED
        BY <2>1, <2>2
  <1>8. \A v \in Workers \ {w} : worker'[v] = worker[v]
      BY <1>1, <1>4, ProceedsAt, FailsAt
  <1> QED
      BY <1>6, <1>7, <1>8, OneMoves

LEMMA CreateApplicationInv ==
    ASSUME Inv, [Next]_vars, NEW w \in Workers, CreateApplication(w)
    PROVE  Inv'
  <1> DEFINE e == worker[w]
  <1>1. TypeOK /\ Keeps
      BY StepKeeps DEF Inv
  <1>2. /\ e.pc = "applications" /\ e.run \in Runs /\ e.seen \in Row /\ WorkerSound(w)
        /\ UNCHANGED <<runs, dispatch, replies, productOf, capabilities, files>>
      BY AtWork DEF CreateApplication, Executing, Inv
  <1>3. PICK a \in Applications \ e.done :
           /\ applications' = applications \union {<<e.product, a>>}
           /\ \/ Proceeds(w, [e EXCEPT !.done = @ \union {a},
                                  !.pc = IF e.done \union {a} = Applications
                                         THEN NextPosition(@) ELSE @])
              \/ Fails(w)
      BY DEF CreateApplication
  <1>4. WorkerSound(w)'
    <2>1. CASE Fails(w)
        BY <1>1, <2>1, FailsSound
    <2>2. CASE Proceeds(w, [e EXCEPT !.done = @ \union {a},
                                  !.pc = IF e.done \union {a} = Applications
                                         THEN NextPosition(@) ELSE @])
      <3>1. worker'[w] = [e EXCEPT !.done = @ \union {a},
                                   !.pc = IF e.done \union {a} = Applications
                                          THEN NextPosition(@) ELSE @]
          BY <1>1, <2>2, ProceedsAt
      <3>2. /\ worker'[w].run = e.run /\ worker'[w].seen = e.seen
            /\ worker'[w].product = e.product /\ worker'[w].done = e.done \union {a}
            /\ worker'[w].terminal = e.terminal
            /\ worker'[w].pc = IF e.done \union {a} = Applications
                               THEN "capabilities" ELSE "applications"
          BY <1>1, <1>2, <3>1, ExecutionType DEF Execution, NextPosition
      <3>3. /\ e.product # NoProduct /\ runs[e.run].product = e.product /\ OpenedBy(w, e.run)
            /\ {e.product} \X e.done \subseteq applications
          BY <1>2 DEF WorkerSound, Created, Bound, Opened
      <3>4. {e.product} \X (e.done \union {a}) \subseteq applications'
          BY <1>3, <3>3
      <3> QED
          BY <1>1, <1>2, <3>2, <3>3, <3>4, RunKept
             DEF WorkerSound, Keeps, Created, Bound, Supplied, Capable, Generated
    <2> QED
        BY <1>3, <2>1, <2>2
  <1>5. \A v \in Workers \ {w} : worker'[v] = worker[v]
      BY <1>1, <1>3, ProceedsAt, FailsAt
  <1> QED
      BY <1>1, <1>2, <1>4, <1>5, RunsKept, OneMoves

LEMMA SupplyInv ==
    ASSUME Inv, [Next]_vars, NEW w \in Workers, ReplaceCapabilitySet(w) \/ Generate(w)
    PROVE  Inv'
  <1> DEFINE e == worker[w]
  <1>1. TypeOK /\ Keeps
      BY StepKeeps DEF Inv
  <1>2. /\ e.pc \in {"capabilities", "generate"} /\ e.run \in Runs /\ e.seen \in Row /\ WorkerSound(w)
        /\ runs[e.run] # NoRow
        /\ UNCHANGED <<runs, dispatch, replies, productOf, applications>>
      BY AtWork DEF ReplaceCapabilitySet, Generate, Executing, Inv
  <1>3. /\ e.product # NoProduct /\ runs[e.run].product = e.product /\ OpenedBy(w, e.run)
        /\ {e.product} \X Applications \subseteq applications
        /\ e.pc = "generate" => e.product \in capabilities
      BY <1>2 DEF WorkerSound, Created, Bound, Supplied, Capable, Opened
  <1>4. /\ e.pc = "capabilities" => e.product \in capabilities' /\ files' = files
        /\ e.pc = "generate" => files' = files \union {e.run}
      BY DEF ReplaceCapabilitySet, Generate
  <1>5. Proceeds(w, [e EXCEPT !.pc = NextPosition(@)]) \/ Fails(w)
      BY DEF ReplaceCapabilitySet, Generate
  <1>6. WorkerSound(w)'
    <2>1. CASE Fails(w)
        BY <1>1, <2>1, FailsSound
    <2>2. CASE Proceeds(w, [e EXCEPT !.pc = NextPosition(@)])
      <3>1. worker'[w] = [e EXCEPT !.pc = NextPosition(@)]
          BY <1>1, <2>2, ProceedsAt
      <3>2. /\ worker'[w].run = e.run /\ worker'[w].seen = e.seen
            /\ worker'[w].product = e.product /\ worker'[w].done = e.done
            /\ worker'[w].terminal = e.terminal
            /\ worker'[w].pc \in {"generating", "validating"}
          BY <1>1, <1>2, <3>1, ExecutionType DEF Execution, NextPosition
      <3> QED
          BY <1>1, <1>2, <1>3, <1>4, <3>2, RunKept DEF WorkerSound, Keeps
    <2> QED
        BY <1>5, <2>1, <2>2
  <1>7. ASSUME NEW q \in Runs PROVE QueueSound(q)' /\ RunSound(q)' /\ RepliesSound(q)'
    <2>1. QueueSound(q)'
        BY <1>1, <1>2, QueueKept
    <2>2. CASE q \in files' => q \in files
        BY <1>1, <1>2, <2>1, <2>2, RowKept
    <2>3. CASE q \in files' /\ q \notin files
      <3>1. q = e.run /\ e.pc = "generate"
          BY <1>2, <1>4, <2>3
      <3>2. Provisioned(runs[q].product)'
          BY <1>1, <1>2, <1>3, <3>1 DEF Provisioned, Keeps
      <3>3. RunSound(q) /\ RepliesSound(q)
          BY DEF Inv
      <3>4. RunSound(q)'
          BY <1>2, <3>1, <3>2, <3>3 DEF RunSound, Untouched
      <3>5. RepliesSound(q)'
          BY <1>2, <3>3 DEF RepliesSound
      <3> QED
          BY <2>1, <3>4, <3>5
    <2> QED
        BY <2>2, <2>3
  <1>8. \A v \in Workers \ {w} : worker'[v] = worker[v]
      BY <1>1, <1>5, ProceedsAt, FailsAt
  <1> QED
      BY <1>6, <1>7, <1>8, OneMoves

LEMMA MovesInv ==
    ASSUME Inv, [Next]_vars, NEW w \in Workers,
           Start(w) \/ Reread(w) \/ OperationFails(w) \/ Interrupt(w)
    PROVE  Inv'
  <1> DEFINE e == worker[w]
             r == worker[w].run
  <1>1. TypeOK /\ Keeps
      BY StepKeeps DEF Inv
  <1>2. UNCHANGED <<runs, dispatch, replies, external>>
      BY DEF Start, Reread, OperationFails, Interrupt
  <1>3. CASE OperationFails(w)
      BY <1>1, <1>2, <1>3, FailsSound, FailsAt, RunsKept, OneMoves DEF OperationFails, external
  <1>4. CASE Start(w) \/ Reread(w) \/ Interrupt(w)
    <2>1. /\ e.pc # "idle" /\ r \in Runs /\ runs[r] # NoRow /\ runs[r] \in Row /\ WorkerSound(w)
        BY <1>4, AtWork DEF Start, Reread, Interrupt, Inv
    <2>2. \A v \in Workers \ {w} : worker'[v] = worker[v]
        BY <1>1, <1>4 DEF Start, Reread, Interrupt, TypeOK
    <2>3. WorkerSound(w)'
      <3>1. CASE Start(w) /\ runs[r].status = "planned"
        <4>1. worker'[w] = [e EXCEPT !.pc = "provisioning", !.seen = runs[r]]
            BY <1>1, <3>1 DEF Start, TypeOK
        <4>2. /\ worker'[w].run = r /\ worker'[w].seen = runs[r] /\ worker'[w].pc = "provisioning"
              /\ worker'[w].product = e.product /\ worker'[w].done = e.done
              /\ worker'[w].terminal = e.terminal
            BY <1>1, <4>1, ExecutionType DEF Execution
        <4>3. Untouched(runs[r])
            BY <2>1, <3>1 DEF Inv, RunSound
        <4> QED
            BY <1>1, <1>2, <2>1, <3>1, <4>2, <4>3, RunKept
               DEF WorkerSound, Keeps, Start, Created, Bound, Supplied, Capable, Generated, Opened
      <3>2. CASE (Start(w) /\ runs[r].status # "planned") \/ Reread(w)
        <4>1. /\ worker'[w].run = r /\ worker'[w].pc \in {"release", "reread"}
              /\ worker'[w].product = e.product /\ worker'[w].done = e.done
              /\ worker'[w].terminal => terminalRun(runs[r])
          <5> DEFINE t == terminalRun(runs[r])
          <5>1. \/ worker'[w] = [e EXCEPT !.pc = "release", !.terminal = t]
                \/ worker'[w] = [e EXCEPT !.pc = "reread", !.terminal = t]
              BY <1>1, <3>2 DEF Start, Reread, TypeOK
          <5> HIDE DEF t
          <5>2. /\ worker'[w].run = r /\ worker'[w].pc \in {"release", "reread"}
                /\ worker'[w].product = e.product /\ worker'[w].done = e.done
                /\ worker'[w].terminal = t
              BY <1>1, <5>1, ExecutionType DEF Execution
          <5> QED
              BY <5>2 DEF t
        <4> QED
            BY <1>1, <1>2, <2>1, <4>1, RunKept
               DEF WorkerSound, Keeps, Started, Executing, Updates, Created, Bound, Supplied,
                   Capable, Generated, Opened
      <3>3. CASE Interrupt(w)
        <4>1. \/ /\ e.pc \in Executing /\ Stops(w)
              \/ /\ e.pc = "reread"
                 /\ worker'[w] = [e EXCEPT !.pc = "release", !.terminal = FALSE]
              \/ worker'[w] = Idle
            BY <1>1, <3>3 DEF Interrupt, Stops, TypeOK
        <4>2. CASE e.pc \in Executing /\ Stops(w)
            BY <1>1, <2>1, <4>2, StopsSound
        <4>3. CASE /\ e.pc = "reread"
                   /\ worker'[w] = [e EXCEPT !.pc = "release", !.terminal = FALSE]
          <5>1. /\ worker'[w].run = r /\ worker'[w].pc = "release" /\ ~worker'[w].terminal
                /\ worker'[w].product = e.product /\ worker'[w].done = e.done
              BY <1>1, <4>3, ExecutionType DEF Execution
          <5> QED
              BY <1>1, <1>2, <2>1, <5>1, RunKept
                 DEF WorkerSound, Keeps, Started, Executing, Updates, Created, Bound, Supplied,
                     Capable, Generated, Opened
        <4>4. CASE worker'[w] = Idle
            BY <4>4 DEF WorkerSound, Idle
        <4> QED
            BY <4>1, <4>2, <4>3, <4>4
      <3> QED
          BY <1>4, <3>1, <3>2, <3>3
    <2> QED
        BY <1>1, <1>2, <2>2, <2>3, RunsKept, OneMoves DEF external
  <1> QED
      BY <1>3, <1>4

LEMMA ClaimInv ==
    ASSUME Inv, [Next]_vars, NEW w \in Workers, NEW r \in Runs, ClaimDispatch(w, r)
    PROVE  Inv'
  <1>1. TypeOK /\ Keeps
      BY StepKeeps DEF Inv
  <1>2. runs[r] # NoRow
      BY DEF ClaimDispatch, Claimable, Inv, QueueSound
  <1>3. worker'[w] = [Idle EXCEPT !.pc = "start", !.run = r]
      BY <1>1 DEF ClaimDispatch, TypeOK
  <1>4. WorkerSound(w)'
      BY <1>2, <1>3 DEF WorkerSound, Idle, ClaimDispatch, Started, Created, Bound, Supplied, Capable,
                        Generated, Opened, Executing
  <1>5. ASSUME NEW q \in Runs PROVE QueueSound(q)' /\ RunSound(q)' /\ RepliesSound(q)'
    <2>1. RunSound(q)' /\ RepliesSound(q)'
        BY <1>1, RowKept DEF ClaimDispatch, external
    <2>2. QueueSound(q)'
        BY <1>1, <1>2 DEF ClaimDispatch, Inv, QueueSound, TypeOK, Leased
    <2> QED
        BY <2>1, <2>2
  <1> QED
      BY <1>1, <1>4, <1>5, OneMoves DEF ClaimDispatch, TypeOK

LEMMA ReleaseInv ==
    ASSUME Inv, [Next]_vars, NEW w \in Workers, ReleaseDispatch(w)
    PROVE  Inv'
  <1>1. TypeOK /\ Keeps
      BY StepKeeps DEF Inv
  <1>2. /\ worker[w].run \in Runs /\ runs[worker[w].run] # NoRow
        /\ worker[w].terminal => terminalRun(runs[worker[w].run])
      BY AtWork DEF ReleaseDispatch, Inv, WorkerSound
  <1>3. WorkerSound(w)'
      BY <1>1 DEF ReleaseDispatch, WorkerSound, Idle, TypeOK
  <1>4. ASSUME NEW q \in Runs PROVE QueueSound(q)' /\ RunSound(q)' /\ RepliesSound(q)'
    <2>1. RunSound(q)' /\ RepliesSound(q)'
        BY <1>1, RowKept DEF ReleaseDispatch, external
    <2>2. dispatch'[q].state # dispatch[q].state =>
             /\ q = worker[w].run
             /\ dispatch'[q].state = IF worker[w].terminal THEN "completed" ELSE "pending"
        BY <1>1 DEF ReleaseDispatch, TypeOK, Completed, Pending
    <2>3. QueueSound(q)'
        BY <1>2, <2>2 DEF ReleaseDispatch, Inv, QueueSound
    <2> QED
        BY <2>1, <2>3
  <1> QED
      BY <1>1, <1>3, <1>4, OneMoves DEF ReleaseDispatch, TypeOK

LEMMA LeaseInv ==
    ASSUME Inv, [Next]_vars,
           \/ \E r \in Runs : LeaseExpires(r)
           \/ \E w \in Workers : Crash(w)
    PROVE  Inv'
  <1>1. TypeOK /\ Keeps /\ UNCHANGED <<runs, replies, external>>
      BY StepKeeps DEF Inv, LeaseExpires, Crash
  <1>2. \A q \in Runs : dispatch'[q].state = dispatch[q].state
    <2> TAKE q \in Runs
    <2>1. dispatch[q] \in DispatchRow
        BY <1>1 DEF TypeOK
    <2>2. /\ [dispatch[q] EXCEPT !.live = FALSE].state = dispatch[q].state
          /\ [dispatch[q] EXCEPT !.owner = Dead].state = dispatch[q].state
        BY <2>1 DEF DispatchRow
    <2>3. CASE \E r \in Runs : LeaseExpires(r)
      <3>1. dispatch'[q] \in {dispatch[q], [dispatch[q] EXCEPT !.live = FALSE]}
          BY <1>1, <2>3 DEF LeaseExpires, TypeOK
      <3> QED
          BY <2>2, <3>1
    <2>4. CASE \E w \in Workers : Crash(w)
      <3>1. dispatch'[q] \in {dispatch[q], [dispatch[q] EXCEPT !.owner = Dead]}
          BY <2>4 DEF Crash
      <3> QED
          BY <2>2, <3>1
    <2> QED
        BY <2>3, <2>4
  <1>3. \A w \in Workers : worker'[w] # worker[w] => worker'[w] = Idle
      BY <1>1 DEF LeaseExpires, Crash, TypeOK
  <1>4. \A w \in Workers : worker'[w] # worker[w] => WorkerSound(w)'
      BY <1>3 DEF WorkerSound, Idle
  <1> QED
      BY <1>1, <1>2, <1>4, RunsKept, StepInv DEF external

\* At the start there are no runs and no worker has one.
LEMMA InitInv == Init => Inv
  <1> SUFFICES ASSUME Init PROVE Inv
      OBVIOUS
  <1>1. TypeOK
    <2>1. NoDispatch \in DispatchRow
        BY DEF NoDispatch, DispatchRow
    <2>2. 0 \in 0..MaxFaults
        BY ExecutionAssumption
    <2>3. worker \in [Workers -> Execution]
        BY IdleType DEF Init
    <2>4. dispatch \in [Runs -> DispatchRow]
        BY <2>1 DEF Init
    <2> QED
        BY <2>2, <2>3, <2>4 DEF Init, TypeOK
  <1>2. ASSUME NEW r \in Runs PROVE QueueSound(r) /\ RunSound(r) /\ RepliesSound(r)
      BY DEF Init, NoDispatch, QueueSound, RunSound, RepliesSound, OperationKeys, Updates
  <1>3. ASSUME NEW w \in Workers PROVE WorkerSound(w)
      BY DEF Init, Idle, WorkerSound
  <1> QED
      BY <1>1, <1>2, <1>3 DEF Inv

\* A step that changes nothing.
LEMMA StutterInv ==
    ASSUME Inv, [Next]_vars, UNCHANGED vars
    PROVE  Inv'
  <1>1. Keeps
      BY StepKeeps
  <1>2. UNCHANGED <<runs, replies, productOf, files, dispatch, worker>>
      BY DEF vars
  <1> QED
      BY <1>1, <1>2, RunsKept, StepInv

\* However executions overlap, fail and are taken over, what is known of the rows,
\* the records and the workers stays true.  (Execute, runOne)
THEOREM ExecutionCorrect == Spec => []Inv
  <1>1. Inv /\ [Next]_vars => Inv'
    <2> SUFFICES ASSUME Inv, [Next]_vars PROVE Inv'
        OBVIOUS
    <2>1. CASE UNCHANGED vars
        BY <2>1, StutterInv
    <2>2. ASSUME NEW r \in Runs, StartRun(r) \/ \E parent \in Runs : RetryRun(parent, r)
          PROVE  Inv'
      <3>1. TypeOK
          BY DEF Inv
      <3>2. PICK row : Inserts(r, row)
          BY <2>2, <3>1, InsertCases
      <3> QED
          BY <3>2, InsertInv
    <2>3. ASSUME NEW w \in Workers, NEW r \in Runs, ClaimDispatch(w, r) PROVE Inv'
        BY <2>3, ClaimInv
    <2>4. CASE (\E r \in Runs : LeaseExpires(r)) \/ (\E w \in Workers : Crash(w))
        BY <2>4, LeaseInv
    <2>5. ASSUME NEW w \in Workers, Work(w) PROVE Inv'
        BY <2>5, PersistInv, CreateProductInv, BindInv, CreateApplicationInv, SupplyInv, MovesInv,
           ReleaseInv DEF Work
    <2>6. ASSUME NEW w \in Workers, OperationFails(w) \/ Interrupt(w) PROVE Inv'
        BY <2>6, MovesInv
    <2> QED
        BY <2>1, <2>2, <2>3, <2>4, <2>5, <2>6 DEF Next
  <1> QED
      BY InitInv, <1>1, PTL DEF Spec

-----------------------------------------------------------------------------
(* What the invariant shows.                                               *)

\* Every variable keeps its type: an update never makes a document or a row that
\* the tables could not hold.
THEOREM TypesCorrect == Spec => []TypeOK
  <1>1. Inv => TypeOK
      BY DEF Inv
  <1> QED
      BY ExecutionCorrect, <1>1, PTL

\* All attempts of a root share one product: its key makes one, and each of them is
\* bound to that.  (executionKey of the root run, retryRunDocument, BindProduct)
THEOREM RootsHaveOneProduct == Spec => []OneProductPerRoot
  <1>1. Inv => OneProductPerRoot
    <2> SUFFICES ASSUME Inv PROVE OneProductPerRoot
        OBVIOUS
    <2>1. \A r \in ExistingRuns : runs[r].product # NoProduct => productOf[runs[r].root] = runs[r].product
        BY DEF Inv, RunSound, ExistingRuns
    <2>2. \A r \in Runs : productOf[r] # NoProduct => runs[r] # NoRow /\ runs[r].root = r
        BY DEF Inv, RunSound
    <2> QED
        BY <2>1, <2>2 DEF OneProductPerRoot
  <1> QED
      BY ExecutionCorrect, <1>1, PTL

\* A run keeps its dispatch row, which is completed only when the run is terminal:
\* an answered update tells its worker that a run ended, and it stays so.  (runOne)
THEOREM RunsAreNotLost == Spec => []NoRunLost
  <1>1. Inv => NoRunLost
      BY DEF Inv, QueueSound, NoRunLost, ExistingRuns, terminalRun
  <1> QED
      BY ExecutionCorrect, <1>1, PTL

\* Files are generated for a product that has the plan's applications and
\* capabilities, also when the execution was taken over on the way.  (Execute)
THEOREM GeneratedRunsAreProvisioned == Spec => []ProvisionedBeforeGenerate
  <1>1. Inv => ProvisionedBeforeGenerate
    <2> SUFFICES ASSUME Inv, NEW r \in Runs, runs[r] # NoRow,
                        r \in files \/ runs[r].status \in {"generating", "validating", "completed"}
                 PROVE  Provisioned(runs[r].product)
        BY DEF ProvisionedBeforeGenerate, ExistingRuns, Provisioned
    <2> QED
        BY DEF Inv, RunSound
  <1> QED
      BY ExecutionCorrect, <1>1, PTL

\* Of all executions of a run, one gets behind the first update: two would both have
\* submitted the document of the answer, which has one start time.  (the idempotency
\* record of provisioning-started)
THEOREM RunsHaveOneExecutor == Spec => []OneExecutor
  <1>1. Inv => OneExecutor
    <2> SUFFICES ASSUME Inv, NEW w \in Workers, NEW v \in Workers,
                        Clock[w] \intersect Clock[v] = {}, PastGate(w), PastGate(v),
                        worker[w].run = worker[v].run
                 PROVE  FALSE
        BY DEF OneExecutor
    <2>1. ASSUME NEW u \in Workers, PastGate(u) PROVE OpenedBy(u, worker[u].run)
      <3>1. \/ worker[u].pc \in Opened
            \/ worker[u].pc = "failed" /\ worker[u].seen.version > 1
          BY <2>1 DEF PastGate, Executing, Updates, Opened, Created, Bound, Supplied, Capable, Generated
      <3>2. worker[u].pc # "idle"
          BY <2>1 DEF PastGate, Executing, Updates
      <3> QED
          BY <3>1, <3>2 DEF Inv, WorkerSound
    <2>2. OpenedBy(w, worker[w].run) /\ OpenedBy(v, worker[w].run)
        BY <2>1
    <2> QED
        BY <2>2 DEF OpenedBy
  <1> QED
      BY ExecutionCorrect, <1>1, PTL

\* No step takes back what an execution has reached: runs, their root, product and
\* end, the answers to keys, and what was created for products.
THEOREM ExecutionNeverUndone == Spec => [][Keeps]_vars
  <1>1. Inv /\ [Next]_vars => [Keeps]_vars
      BY StepKeeps
  <1> QED
      BY ExecutionCorrect, <1>1, PTL DEF Spec

-----------------------------------------------------------------------------
(* Refinement: the executions take the runs through RunLifecycle.          *)

Lifecycle == INSTANCE RunLifecycle WITH status <- [r \in Runs |-> StatusOf(r)]

\* Executions write five of the statuses.
OnTrack == \A r \in ExistingRuns : runs[r].status \in Updates \union {"planned"}

\* The status of a run stays or becomes a successor, and no other run changes.
Advances(r) ==
    /\ \A q \in Runs \ {r} : runs'[q] = runs[q]
    /\ \/ StatusOf(r)' = StatusOf(r)
       \/ StatusOf(r)' \in Lifecycle!Successors(StatusOf(r)) \intersect (Updates \union {"planned"})

LEMMA PersistAdvances ==
    ASSUME Inv, OnTrack, NEW w \in Workers, Persist(w), NEW r \in Runs, r = worker[w].run
    PROVE  Advances(r)
  <1>1. /\ worker[w].pc \in Updates /\ worker[w].pc # "idle"
        /\ runs[r] # NoRow /\ runs[r] \in Row /\ worker[w].seen \in Row /\ TypeOK
      BY AtWork DEF Persist, Updates, Inv, Executing
  <1>2. CASE UNCHANGED runs
      BY <1>2 DEF Advances, StatusOf
  <1>3. ASSUME NEW doc \in Submitted(w), PersistCommits(w, doc) PROVE Advances(r)
    <2> DEFINE row == StoredRow(RunOf(runs[r], doc))
    <2>1. doc \in Document /\ doc.status = worker[w].pc
        BY <1>1, SubmittedDocument
    <2>2. row # NoRow /\ row.status \in Updates
        BY <1>1, <2>1, UpdatedRow
    <2>3. runRowMayChange(runs[r], row)
        BY <1>3 DEF PersistCommits
    <2>4. runStatusMayChange(runs[r], row)
        BY <2>3 DEF runRowMayChange
    <2>5. runs' = [runs EXCEPT ![r] = row]
        BY <1>3 DEF PersistCommits, Commits
    <2>6. StatusOf(r) = runs[r].status /\ StatusOf(r)' = row.status
        BY <1>1, <2>2, <2>5 DEF StatusOf, TypeOK
    <2>7. runs[r].status \in Updates \union {"planned"}
        BY <1>1 DEF OnTrack, ExistingRuns
    <2>8. \/ row.status = runs[r].status
          \/ row.status \in Lifecycle!Successors(runs[r].status)
        BY <2>2, <2>4, <2>7 DEF runStatusMayChange, Lifecycle!Successors, Updates, TerminalStatuses
    <2>9. \A q \in Runs \ {r} : runs'[q] = runs[q]
        BY <2>5 DEF TypeOK
    <2> QED
        BY <2>2, <2>6, <2>8, <2>9 DEF Advances
  <1> QED
      BY <1>2, <1>3, PersistCases

LEMMA BindAdvances ==
    ASSUME Inv, NEW w \in Workers, BindProduct(w), NEW r \in Runs, r = worker[w].run
    PROVE  Advances(r)
  <1>1. /\ worker[w].pc = "bind" /\ runs[r] # NoRow /\ TypeOK
      BY AtWork DEF BindProduct, Inv
  <1>2. CASE UNCHANGED runs
      BY <1>2 DEF Advances, StatusOf
  <1>3. CASE BindCommits(w)
    <2>1. BoundRow(w) # NoRow /\ BoundRow(w).status = runs[r].status
        BY <1>1, <1>3, BoundRowSound
    <2>2. runs' = [runs EXCEPT ![r] = BoundRow(w)]
        BY <1>3 DEF BindCommits
    <2>3. StatusOf(r)' = StatusOf(r)
        BY <1>1, <2>1, <2>2 DEF StatusOf, TypeOK
    <2>4. \A q \in Runs \ {r} : runs'[q] = runs[q]
        BY <2>2 DEF TypeOK
    <2> QED
        BY <2>3, <2>4 DEF Advances
  <1> QED
      BY <1>2, <1>3, BindCases

LEMMA InsertAdvances ==
    ASSUME TypeOK, NEW r \in Runs, NEW row, Inserts(r, row)
    PROVE  Advances(r)
  <1>1. /\ runs[r] = NoRow /\ runs' = [runs EXCEPT ![r] = row]
        /\ row # NoRow /\ row.status = "planned"
      BY AbsentRowAssumption DEF Inserts, InsertRun
  <1>2. StatusOf(r) = "none" /\ StatusOf(r)' = "planned"
      BY <1>1 DEF StatusOf, TypeOK
  <1>3. \A q \in Runs \ {r} : runs'[q] = runs[q]
      BY <1>1 DEF TypeOK
  <1> QED
      BY <1>2, <1>3 DEF Advances, Lifecycle!Successors

LEMMA StepAdvances ==
    ASSUME Inv, OnTrack, [Next]_vars
    PROVE  UNCHANGED runs \/ \E r \in Runs : Advances(r)
  <1>1. ASSUME NEW r \in Runs, StartRun(r) \/ \E parent \in Runs : RetryRun(parent, r)
        PROVE  Advances(r)
      BY <1>1, InsertCases, InsertAdvances DEF Inv
  <1>2. ASSUME NEW w \in Workers, Persist(w) \/ BindProduct(w)
        PROVE  \E r \in Runs : Advances(r)
    <2>1. worker[w].run \in Runs
        BY <1>2, AtWork DEF Persist, BindProduct, Updates
    <2> QED
        BY <1>2, <2>1, PersistAdvances, BindAdvances
  <1>3. \/ UNCHANGED runs
        \/ \E r \in Runs : StartRun(r) \/ \E parent \in Runs : RetryRun(parent, r)
        \/ \E w \in Workers : Persist(w) \/ BindProduct(w)
      BY DEF Next, Work, vars, ClaimDispatch, LeaseExpires, Start, CreateProduct, CreateApplication,
             ReplaceCapabilitySet, Generate, Reread, ReleaseDispatch, OperationFails, Interrupt, Crash
  <1> QED
      BY <1>1, <1>2, <1>3

\* The runs that the workers execute implement RunLifecycle, as do those of module
\* AssemblyRun.
THEOREM ExecutionFollowsLifecycle == Spec => Lifecycle!Spec
  <1> DEFINE status == [r \in Runs |-> StatusOf(r)]
  <1>1. Init => Lifecycle!Init /\ OnTrack
      BY DEF Init, Lifecycle!Init, StatusOf, OnTrack, ExistingRuns
  <1>2. ASSUME Inv, OnTrack, [Next]_vars PROVE [Lifecycle!Next]_status /\ OnTrack'
    <2>1. CASE UNCHANGED runs
      <3>1. status' = status
          BY <2>1 DEF StatusOf
      <3>2. OnTrack'
          BY <1>2, <2>1 DEF OnTrack, ExistingRuns
      <3> QED
          BY <3>1, <3>2
    <2>2. ASSUME NEW r \in Runs, Advances(r) PROVE [Lifecycle!Next]_status /\ OnTrack'
      <3>1. \A q \in Runs : q # r => StatusOf(q)' = StatusOf(q)
          BY <2>2 DEF Advances, StatusOf
      <3>2. status' = [status EXCEPT ![r] = StatusOf(r)']
          BY <3>1
      <3>3. \A q \in Runs : StatusOf(q) \in Updates \union {"planned", "none"}
          BY <1>2 DEF OnTrack, ExistingRuns, StatusOf
      <3>4. \A q \in Runs : StatusOf(q)' \in Updates \union {"planned", "none"}
          BY <2>2, <3>1, <3>3 DEF Advances
      <3>5. OnTrack'
        <4> SUFFICES ASSUME NEW q \in Runs, runs'[q] # NoRow
                     PROVE  runs'[q].status \in Updates \union {"planned"}
            BY DEF OnTrack, ExistingRuns
        <4>1. StatusOf(q)' = runs'[q].status
            BY DEF StatusOf
        <4>2. TypeOK'
            BY <1>2, TypeStep
        <4>3. runs'[q].status # "none"
            BY <4>2 DEF TypeOK, Row, RunStatuses
        <4> QED
            BY <3>4, <4>1, <4>3
      <3>6. CASE StatusOf(r)' = StatusOf(r)
          BY <3>2, <3>5, <3>6
      <3>7. CASE StatusOf(r)' \in Lifecycle!Successors(StatusOf(r))
          BY <3>2, <3>5, <3>7 DEF Lifecycle!Next, Lifecycle!Advance
      <3> QED
          BY <2>2, <3>6, <3>7 DEF Advances
    <2> QED
        BY <1>2, <2>1, <2>2, StepAdvances
  <1>3. Spec => []OnTrack
      BY <1>1, <1>2, ExecutionCorrect, PTL DEF Spec
  <1> QED
      BY <1>1, <1>2, <1>3, ExecutionCorrect, PTL DEF Spec, Lifecycle!Spec
=============================================================================
