------------------------- MODULE AssemblyRunProofs -------------------------
(***************************************************************************)
(* Safety of the run records, for any runs, callers and documents: their   *)
(* types, their life cycle, what a pending call has read, the retry chain, *)
(* and that manifests, diagnostics, events and answers agree with the row. *)
(***************************************************************************)
EXTENDS AssemblyRun, TLAPS

\* Truncating a stored time yields a time.
LEMMA StoredIsTime == \A t \in Nat : Stored(t) \in Nat
  <1> SUFFICES ASSUME NEW t \in Nat PROVE Stored(t) \in Nat
      OBVIOUS
  <1>1. t \div SubTicks \in Nat
      BY SubTicksAssumption
  <1> QED
      BY <1>1, SubTicksAssumption DEF Stored

\* A stored step is a step.
LEMMA StoredStepType == \A step \in Step : StoredStep(step) \in Step
  BY StoredIsTime DEF StoredStep, Step

\* The row of a new run is a row.
LEMMA NewRowType ==
    ASSUME NEW root \in Runs, NEW retryOf \in Runs \union {NoRun},
           NEW n \in Nat \ {0}, NEW product \in Products \union {NoProduct}
    PROVE  NewRow(root, retryOf, n, product) \in Row
  BY DEF NewRow, FirstVersion, Row, InitialSteps, Step, StepStatuses, CompensationStatuses,
         RunStatuses, NoTime

\* Binding a row to a product yields a row.
LEMMA BoundRowType ==
    ASSUME NEW row \in Row, NEW product \in Products
    PROVE  [row EXCEPT !.product = product, !.version = @ + 1] \in Row
  <1>1. row.version + 1 \in Nat \ {0}
      BY DEF Row
  <1> QED
      BY <1>1 DEF Row

\* A row updated by a document is a row.
LEMMA UpdatedRowType ==
    ASSUME NEW row \in Row, NEW doc \in Document, NEW manifest \in BOOLEAN
    PROVE  UpdatedRow(row, doc, manifest) \in Row
  <1>1. [s \in Steps |-> StoredStep(doc.steps[s])] \in [Steps -> Step]
      BY StoredStepType DEF Document
  <1> QED
      BY <1>1 DEF UpdatedRow, Row, Document

-----------------------------------------------------------------------------
(* Type correctness.                                                       *)

\* The kinds of pending operations, from their op field.
Updates == [op: {"update", "complete"}, run: Runs, base: Row, expected: Nat,
            doc: Document, evidence: SUBSET Diagnostics]

Retries == [op: {"retry"}, run: Runs, base: Row, expected: Nat, key: Keys]

\* What the operation of a pending call says of its fields.
LEMMA PendingKind ==
    ASSUME TypeOK, NEW c \in Callers
    PROVE  /\ call[c].op \in {"update", "complete"} => call[c] \in Updates
           /\ call[c].op = "retry" => call[c] \in Retries
  <1>1. call[c] \in {Idle} \union Updates \union Retries
      BY DEF TypeOK, Updates, Retries
  <1>2. ASSUME call[c] = Idle
        PROVE  call[c].op = "idle"
      BY <1>2 DEF Idle
  <1>3. ASSUME call[c] \in Updates
        PROVE  call[c].op \in {"update", "complete"}
      BY <1>3 DEF Updates
  <1>4. ASSUME call[c] \in Retries
        PROVE  call[c].op = "retry"
      BY <1>4 DEF Retries
  <1> QED
      BY <1>1, <1>2, <1>3, <1>4

\* A row exists exactly when it is typed as one.
LEMMA ExistingRow ==
    ASSUME TypeOK, NEW r \in Runs
    PROVE  Exists(r) <=> runs[r] \in Row
  BY NoRecordAssumption DEF TypeOK, Exists

\* Answering a repeated key keeps the types of the tables.
LEMMA ReplayType ==
    ASSUME TypeOK, NEW scope \in Scopes, NEW key \in Keys, NEW digest,
           ReplaysIdempotency(scope, key, digest)
    PROVE  /\ <<runs, diagnostics, manifests, outbox, idem>>'
                = <<runs, diagnostics, manifests, outbox, idem>>
           /\ answers' \in [Scopes \X Keys -> SUBSET Runs]
  <1>1. idem[<<scope, key>>].run \in Runs
      BY DEF TypeOK, ReplaysIdempotency, IdemRecord
  <1> QED
      BY <1>1 DEF TypeOK, ReplaysIdempotency

\* So does inserting a run with a row.
LEMMA InsertType ==
    ASSUME TypeOK, NEW r \in Runs, NEW row \in Row, NEW scope \in Scopes, NEW key \in Keys,
           NEW digest \in Targets \union Nat, InsertRun(r, row, scope, key, digest)
    PROVE  /\ runs' \in [Runs -> Row \union {NoRecord}]
           /\ outbox' \in [Runs -> Nat]
           /\ idem' \in [Scopes \X Keys -> IdemRecord \union {NoRecord}]
           /\ answers' \in [Scopes \X Keys -> SUBSET Runs]
           /\ UNCHANGED <<diagnostics, manifests>>
  <1>1. [digest |-> digest, run |-> r] \in IdemRecord
      BY DEF IdemRecord
  <1> QED
      BY <1>1 DEF TypeOK, InsertRun, insertOutbox

\* Typed variables other than call.
TablesOK ==
    /\ planProducts \subseteq Products \union {NoProduct}
    /\ runs \in [Runs -> Row \union {NoRecord}]
    /\ diagnostics \in [Runs -> SUBSET Diagnostics]
    /\ manifests \subseteq Runs
    /\ outbox \in [Runs -> Nat]
    /\ idem \in [Scopes \X Keys -> IdemRecord \union {NoRecord}]
    /\ answers \in [Scopes \X Keys -> SUBSET Runs]

\* The type invariant, the tables apart from the calls.
LEMMA TypeSplit == TypeOK <=> TablesOK /\ call \in [Callers -> {Idle} \union Updates \union Retries]
  BY DEF TypeOK, TablesOK, Updates, Retries

\* Every step keeps the types.
LEMMA TypeStep == TypeOK /\ [Next]_vars => TypeOK'
  <1> SUFFICES ASSUME TypeOK, [Next]_vars
               PROVE  TablesOK' /\ call' \in [Callers -> {Idle} \union Updates \union Retries]
      BY DEF TypeOK, TablesOK, Updates, Retries
  <1>0. TablesOK /\ call \in [Callers -> {Idle} \union Updates \union Retries]
      BY TypeSplit
  <1>1. ASSUME NEW key \in Keys, NEW target \in Targets, StartAssembly(key, target)
        PROVE  TablesOK' /\ call' = call
    <2>1. NoRun \in Scopes
        BY DEF Scopes
    <2>2. CASE ReplaysIdempotency(NoRun, key, target)
        BY <1>0, <1>1, <2>1, <2>2, ReplayType DEF TablesOK, StartAssembly
    <2>3. ASSUME NEW r \in Runs, NEW product \in planProducts,
                 InsertRun(r, NewRow(r, NoRun, 1, product), NoRun, key, target)
          PROVE  TablesOK'
      <3>0. product \in Products \union {NoProduct} /\ 1 \in Nat \ {0}
          BY <1>0 DEF TablesOK
      <3>1. NewRow(r, NoRun, 1, product) \in Row
          BY <3>0, NewRowType
      <3> QED
          BY <1>0, <1>1, <2>1, <2>3, <3>1, InsertType DEF TablesOK, StartAssembly
    <2> QED
        BY <1>1, <2>2, <2>3 DEF StartAssembly
  <1>2. ASSUME NEW c \in Callers, NEW r \in Runs, NEW expected \in 1..MaxVersion, NEW key \in Keys,
               RetryRun(c, r, expected, key)
        PROVE  TablesOK' /\ call' \in [Callers -> {Idle} \union Updates \union Retries]
    <2>1. runs[r] \in Row
        BY <1>2, ExistingRow DEF RetryRun
    <2>2. [op |-> "retry", run |-> r, base |-> runs[r], expected |-> expected, key |-> key] \in Retries
        BY <2>1 DEF Retries
    <2> QED
        BY <1>0, <1>2, <2>2 DEF TablesOK, RetryRun
  <1>3. ASSUME NEW c \in Callers, RetryRunCommit(c)
        PROVE  TablesOK' /\ call' = [call EXCEPT ![c] = Idle]
    <2>1. call[c] \in Retries
        BY <1>3, PendingKind DEF RetryRunCommit
    <2>2. call[c].run \in Scopes /\ call[c].key \in Keys /\ call[c].expected \in Nat
        BY <2>1 DEF Retries, Scopes
    <2> DEFINE row == NewRow(call[c].base.root, call[c].run,
                             call[c].base.attemptNumber + 1, RetryProduct(call[c].base))
    <2>3. row \in Row
      <3>1. /\ call[c].base.root \in Runs
            /\ call[c].base.attemptNumber + 1 \in Nat \ {0}
            /\ RetryProduct(call[c].base) \in Products \union {NoProduct}
            /\ call[c].run \in Runs
          BY <2>1 DEF Retries, Row, RetryProduct
      <3> QED
          BY <3>1, NewRowType
    <2>4. CASE ReplaysIdempotency(call[c].run, call[c].key, call[c].expected)
        BY <1>0, <1>3, <2>2, <2>4, ReplayType DEF TablesOK, RetryRunCommit
    <2>5. ASSUME NEW r \in Runs, InsertRun(r, row, call[c].run, call[c].key, call[c].expected)
          PROVE  TablesOK'
      <3> HIDE DEF row
      <3> QED
          BY <1>0, <1>3, <2>2, <2>3, <2>5, InsertType DEF TablesOK, RetryRunCommit
    <2> QED
        BY <1>3, <2>4, <2>5 DEF RetryRunCommit
  <1>4. ASSUME NEW r \in Runs, NEW product \in Products, NEW expected \in 1..MaxVersion,
               BindProduct(r, product, expected)
        PROVE  TablesOK' /\ call' = call
    <2>1. runs[r] \in Row
        BY <1>4, ExistingRow DEF BindProduct
    <2>2. [runs[r] EXCEPT !.product = product, !.version = @ + 1] \in Row
        BY <2>1, BoundRowType
    <2> QED
        BY <1>0, <1>4, <2>2 DEF TablesOK, BindProduct, insertOutbox
  <1>5. ASSUME NEW c \in Callers, NEW r \in Runs, NEW expected \in 1..MaxVersion,
               NEW doc \in Documents, NEW given \in SUBSET Diagnostics,
               UpdateRun(c, r, expected, doc, given)
        PROVE  TablesOK' /\ call' \in [Callers -> {Idle} \union Updates \union Retries]
    <2>1. runs[r] \in Row
        BY <1>5, ExistingRow DEF UpdateRun
    <2>2. doc \in Document /\ Evidence(doc, given) \subseteq Diagnostics
        BY DocumentsAssumption DEF Evidence, Document
    <2>3. [op |-> "update", run |-> r, base |-> runs[r], expected |-> expected,
           doc |-> doc, evidence |-> Evidence(doc, given)] \in Updates
        BY <2>1, <2>2 DEF Updates
    <2> QED
        BY <1>0, <1>5, <2>3 DEF TablesOK, UpdateRun
  <1>6. ASSUME NEW c \in Callers, NEW r \in Runs, NEW expected \in 1..MaxVersion,
               NEW doc \in Documents, CompleteAssembly(c, r, expected, doc)
        PROVE  TablesOK' /\ call' \in [Callers -> {Idle} \union Updates \union Retries]
    <2>1. runs[r] \in Row /\ doc \in Document
        BY <1>6, ExistingRow, DocumentsAssumption DEF CompleteAssembly
    <2>2. [op |-> "complete", run |-> r, base |-> runs[r], expected |-> expected,
           doc |-> doc, evidence |-> {}] \in Updates
        BY <2>1 DEF Updates
    <2> QED
        BY <1>0, <1>6, <2>2 DEF TablesOK, CompleteAssembly
  <1>7. ASSUME NEW c \in Callers, UpdateRunCommit(c)
        PROVE  TablesOK' /\ call' = [call EXCEPT ![c] = Idle]
    <2>1. call[c] \in Updates
        BY <1>7, PendingKind DEF UpdateRunCommit
    <2> DEFINE r == call[c].run
               completes == call[c].op = "complete"
               row == UpdatedRow(runs[r], call[c].doc, runs[r].manifest \/ completes)
    <2>2. r \in Runs /\ call[c].doc \in Document /\ call[c].evidence \subseteq Diagnostics
        BY <2>1 DEF Updates
    <2>3. runs' = [runs EXCEPT ![r] = row] /\ Exists(r)
        BY <1>7 DEF UpdateRunCommit
    <2>4. row \in Row
      <3>1. runs[r] \in Row
          BY <2>2, <2>3, ExistingRow
      <3>2. (runs[r].manifest \/ completes) \in BOOLEAN
          BY ZenonT(20)
      <3> QED
          BY <2>2, <3>1, <3>2, UpdatedRowType
    <2>5. /\ diagnostics' = [diagnostics EXCEPT ![r] = @ \union call[c].evidence]
          /\ manifests' \subseteq manifests \union {r}
          /\ outbox' = [outbox EXCEPT ![r] = @ + 1]
          /\ call' = [call EXCEPT ![c] = Idle]
          /\ UNCHANGED <<planProducts, idem, answers>>
        BY <1>7 DEF UpdateRunCommit, insertOutbox
    <2> HIDE DEF r, row
    <2> QED
        BY <1>0, <2>2, <2>3, <2>4, <2>5 DEF TablesOK
  <1>8. ASSUME NEW c \in Callers, CallFails(c)
        PROVE  TablesOK' /\ call' = [call EXCEPT ![c] = Idle]
      BY <1>0, <1>8 DEF TablesOK, CallFails
  <1>9. CASE UNCHANGED vars
      BY <1>0, <1>9 DEF TablesOK, vars
  <1> QED
      BY <1>0, <1>1, <1>2, <1>3, <1>4, <1>5, <1>6, <1>7, <1>8, <1>9 DEF Next

\* The types hold at first.
LEMMA TypeInit == Init => TypeOK
  BY DEF Init, TypeOK

\* Every variable keeps its type: in particular no transaction leaves a run
\* that is half a row.
THEOREM TypeCorrect == Spec => []TypeOK
  BY TypeInit, TypeStep, PTL DEF Spec

-----------------------------------------------------------------------------
(* What one step does to one row: nothing, its insertion, or a change that *)
(* the trigger accepts and that leaves its place in the retry chain alone. *)

SameIdentity(old, new) ==
    /\ new.root = old.root
    /\ new.retryOf = old.retryOf
    /\ new.attemptNumber = old.attemptNumber

\* An existing row changes only as the triggers let it: by the commit of a
\* document or the binding of a product.
LEMMA RowChange ==
    ASSUME TypeOK, [Next]_vars, NEW r \in Runs
    PROVE  \/ runs'[r] = runs[r]
           \/ ~Exists(r) /\ runs'[r].status = "planned"
           \/ /\ Exists(r) /\ runs'[r] \in Row
              /\ runRowMayChange(runs[r], runs'[r])
              /\ SameIdentity(runs[r], runs'[r])
  <1> DEFINE Goal == \/ runs'[r] = runs[r]
                     \/ ~Exists(r) /\ runs'[r].status = "planned"
                     \/ /\ Exists(r) /\ runs'[r] \in Row
                        /\ runRowMayChange(runs[r], runs'[r])
                        /\ SameIdentity(runs[r], runs'[r])
  <1>0. \A root, retryOf, n, product : NewRow(root, retryOf, n, product).status = "planned"
      BY DEF NewRow
  <1>1. ASSUME NEW q \in Runs, NEW row, NEW scope, NEW key, NEW digest,
               InsertRun(q, row, scope, key, digest), row.status = "planned"
        PROVE  Goal
      BY <1>1 DEF InsertRun, TypeOK, Exists
  <1>2. ASSUME NEW key \in Keys, NEW target \in Targets, StartAssembly(key, target)
        PROVE  Goal
      BY <1>0, <1>1, <1>2 DEF StartAssembly, ReplaysIdempotency
  <1>3. ASSUME NEW c \in Callers, RetryRunCommit(c)
        PROVE  Goal
      BY <1>0, <1>1, <1>3 DEF RetryRunCommit, ReplaysIdempotency
  <1>4. ASSUME NEW q \in Runs, NEW product \in Products, NEW expected \in 1..MaxVersion,
               BindProduct(q, product, expected)
        PROVE  Goal
    <2>1. CASE q # r
        BY <1>4, <2>1 DEF BindProduct, TypeOK
    <2>2. CASE q = r
      <3>1. runs[r] \in Row /\ Exists(r)
          BY <1>4, <2>2, ExistingRow DEF BindProduct
      <3> DEFINE row == [runs[r] EXCEPT !.product = product, !.version = @ + 1]
      <3>2. runs'[r] = row /\ runRowMayChange(runs[r], row)
          BY <1>4, <2>2 DEF BindProduct, TypeOK
      <3>3. SameIdentity(runs[r], row) /\ row \in Row
          BY <3>1, BoundRowType DEF SameIdentity, Row
      <3> HIDE DEF row
      <3> QED
          BY <3>1, <3>2, <3>3
    <2> QED
        BY <2>1, <2>2
  <1>5. ASSUME NEW c \in Callers, UpdateRunCommit(c)
        PROVE  Goal
    <2>1. call[c].run \in Runs /\ call[c].doc \in Document
        BY <1>5, PendingKind DEF UpdateRunCommit, Updates
    <2>2. CASE call[c].run # r
        BY <1>5, <2>1, <2>2 DEF UpdateRunCommit, TypeOK
    <2>3. CASE call[c].run = r
      <3> DEFINE row == UpdatedRow(runs[r], call[c].doc,
                                   runs[r].manifest \/ call[c].op = "complete")
      <3>1. Exists(r) /\ runs'[r] = row /\ runRowMayChange(runs[r], row)
          BY <1>5, <2>3 DEF UpdateRunCommit, TypeOK
      <3>2. SameIdentity(runs[r], row)
          BY DEF SameIdentity, UpdatedRow
      <3>3. (runs[r].manifest \/ call[c].op = "complete") \in BOOLEAN
          BY ZenonT(20)
      <3>4. row \in Row
          BY <2>1, <3>1, <3>3, ExistingRow, UpdatedRowType
      <3> HIDE DEF row
      <3> QED
          BY <3>1, <3>2, <3>4
    <2> QED
        BY <2>2, <2>3
  <1>6. ASSUME runs' = runs
        PROVE  Goal
      BY <1>6
  <1> HIDE DEF Goal
  <1>7. Goal
      BY <1>2, <1>3, <1>4, <1>5, <1>6
         DEF Next, RetryRun, UpdateRun, CompleteAssembly, CallFails, vars
  <1> QED
      BY <1>7 DEF Goal

\* Rows are not deleted.
LEMMA ExistsKept ==
    ASSUME TypeOK, [Next]_vars, NEW r \in Runs, Exists(r)
    PROVE  Exists(r)'
  BY RowChange, NoRecordAssumption DEF Exists

\* No writer changes a failed, completed or rolled-back run.
THEOREM TerminalRunsStay == Spec => TerminalRunsImmutable
  <1>1. TypeOK /\ [Next]_vars =>
            [\A r \in Runs :
               (Exists(r) /\ runs[r].status \in TerminalStatuses) => runs'[r] = runs[r]]_vars
      BY RowChange DEF runRowMayChange, runStatusMayChange
  <1> QED
      BY <1>1, TypeCorrect, PTL DEF Spec, TerminalRunsImmutable

\* No writer takes a step of a run back, reopens it or moves its start time.
THEOREM StepsOnlyAdvance == Spec => StepsAdvance
  <1> DEFINE Forward(r) ==
          (Exists(r) /\ runs'[r] # runs[r]) =>
             \A s \in Steps : StepAdvances(runs[r].steps[s], runs'[r].steps[s])
  <1>1. ASSUME TypeOK, [Next]_vars, NEW r \in Runs
        PROVE  Forward(r)
    <2> SUFFICES ASSUME Exists(r), runs'[r] # runs[r], NEW s \in Steps
                 PROVE  StepAdvances(runs[r].steps[s], runs'[r].steps[s])
        OBVIOUS
    <2>1. runRowMayChange(runs[r], runs'[r])
        BY <1>1, RowChange
    <2>2. DOMAIN runs[r].steps = Steps
        BY <1>1, ExistingRow DEF Row
    <2>3. stepRowMayChange(runs[r].steps[s], runs'[r].steps[s])
        BY <2>1, <2>2 DEF runRowMayChange
    <2> QED
        BY <2>3 DEF stepRowMayChange, stepStatusMayChange, stableTime, StepAdvances
  <1> HIDE DEF Forward
  <1>2. TypeOK /\ [Next]_vars => [\A r \in Runs : Forward(r)]_vars
      BY <1>1
  <1>3. Spec => [][\A r \in Runs : Forward(r)]_vars
      BY <1>2, TypeCorrect, PTL DEF Spec
  <1> QED
      BY <1>3 DEF StepsAdvance, Forward

-----------------------------------------------------------------------------
(* Optimistic locking: a pending document was validated against a row that *)
(* is either still the current one or has a smaller version.  With the     *)
(* comparison of versions in the transaction this makes the replaced row   *)
(* the validated row.                                                      *)

ReadRow(c) ==
    LET r == call[c].run
        base == call[c].base
    IN  /\ Exists(r)
        /\ base.version <= runs[r].version
        /\ base.version = runs[r].version => base = runs[r]

PendingDocument(c) ==
    /\ ReadRow(c)
    /\ validateRunEvolution(call[c].base, call[c].doc)
    /\ call[c].expected <= call[c].base.version

PendingInv ==
    \A c \in Callers : call[c].op \in {"update", "complete"} => PendingDocument(c)

\* Nothing is pending at first.
LEMMA PendingInit == Init => PendingInv
  BY DEF Init, PendingInv, Idle

\* No step disturbs what is known of a row that was read.
LEMMA ReadKept ==
    ASSUME TypeOK, [Next]_vars, NEW c \in Callers, call[c] \in Updates \union Retries,
           ReadRow(c), call'[c] = call[c]
    PROVE  ReadRow(c)'
  <1> DEFINE r == call[c].run
             base == call[c].base
  <1>1. r \in Runs /\ base \in Row
      BY DEF Updates, Retries
  <1>2. Exists(r) /\ base.version <= runs[r].version
            /\ (base.version = runs[r].version => base = runs[r])
      BY DEF ReadRow
  <1>3. base.version \in Nat /\ runs[r].version \in Nat
      BY <1>1, <1>2, ExistingRow DEF Row
  <1>4. \/ runs'[r] = runs[r]
        \/ runs'[r].version = runs[r].version + 1
      BY <1>1, <1>2, RowChange DEF runRowMayChange
  <1>5. Exists(r)'
      BY <1>1, <1>2, ExistsKept
  <1> QED
      BY <1>1, <1>2, <1>3, <1>4, <1>5 DEF ReadRow

\* Reading a run makes its document pending in a good state.
LEMMA PendingRead ==
    ASSUME TypeOK, NEW c \in Callers, NEW r \in Runs, NEW expected \in 1..runs[r].version,
           NEW doc, NEW op, NEW evidence, Exists(r), validateRunEvolution(runs[r], doc), runs' = runs,
           call' = [call EXCEPT ![c] = [op |-> op, run |-> r, base |-> runs[r],
                                        expected |-> expected, doc |-> doc, evidence |-> evidence]]
    PROVE  PendingDocument(c)' /\ \A d \in Callers : d # c => call'[d] = call[d]
  <1>1. runs[r].version \in Nat
      BY ExistingRow DEF Row
  <1>2. call'[c] = [op |-> op, run |-> r, base |-> runs[r],
                    expected |-> expected, doc |-> doc, evidence |-> evidence]
      BY DEF TypeOK
  <1>3. Exists(r)'
      BY DEF Exists
  <1>4. validateRunEvolution(call'[c].base, call'[c].doc)
      BY <1>2
  <1>5. \A d \in Callers : d # c => call'[d] = call[d]
      BY DEF TypeOK
  <1> QED
      BY <1>1, <1>2, <1>3, <1>4, <1>5 DEF PendingDocument, ReadRow

\* Every step keeps what is known of pending calls.
LEMMA PendingStep == TypeOK /\ PendingInv /\ [Next]_vars => PendingInv'
  <1> SUFFICES ASSUME TypeOK, PendingInv, [Next]_vars,
                      NEW d \in Callers, call'[d].op \in {"update", "complete"}
               PROVE  PendingDocument(d)'
      BY DEF PendingInv
  <1>1. ASSUME call'[d] = call[d]
        PROVE  PendingDocument(d)'
      BY <1>1, PendingKind, ReadKept DEF PendingInv, PendingDocument
  <1>2. ASSUME NEW c \in Callers, call' = [call EXCEPT ![c] = Idle]
        PROVE  PendingDocument(d)'
      BY <1>1, <1>2 DEF TypeOK, Idle
  <1>3. ASSUME NEW c \in Callers, NEW r \in Runs, NEW expected \in 1..MaxVersion, NEW key \in Keys,
               RetryRun(c, r, expected, key)
        PROVE  PendingDocument(d)'
    <2>1. d # c
        BY <1>3 DEF RetryRun, TypeOK
    <2> QED
        BY <1>1, <1>3, <2>1 DEF RetryRun, TypeOK
  <1>4. ASSUME NEW c \in Callers, NEW r \in Runs, NEW expected \in 1..MaxVersion,
               NEW doc \in Documents, NEW given \in SUBSET Diagnostics,
               UpdateRun(c, r, expected, doc, given)
        PROVE  PendingDocument(d)'
    <2>1. PendingDocument(c)' /\ (d # c => call'[d] = call[d])
        BY <1>4, PendingRead DEF UpdateRun
    <2> QED
        BY <1>1, <2>1
  <1>5. ASSUME NEW c \in Callers, NEW r \in Runs, NEW expected \in 1..MaxVersion,
               NEW doc \in Documents, CompleteAssembly(c, r, expected, doc)
        PROVE  PendingDocument(d)'
    <2>1. PendingDocument(c)' /\ (d # c => call'[d] = call[d])
        BY <1>5, PendingRead DEF CompleteAssembly
    <2> QED
        BY <1>1, <2>1
  <1>6. ASSUME call' = call
        PROVE  PendingDocument(d)'
      BY <1>1, <1>6
  <1> QED
      BY <1>2, <1>3, <1>4, <1>5, <1>6
         DEF Next, StartAssembly, RetryRunCommit, BindProduct, UpdateRunCommit, CallFails, vars

\* What a pending call was computed from is what the row was, or the row has a
\* later version now.
THEOREM PendingCorrect == Spec => []PendingInv
  BY TypeCorrect, PendingInit, PendingStep, PTL DEF Spec

\* The transaction replaces the row that was validated.
LEMMA CommitReplacesBase ==
    ASSUME TypeOK, PendingInv, NEW c \in Callers, UpdateRunCommit(c)
    PROVE  runs[call[c].run] = call[c].base
  <1>1. call[c] \in Updates /\ PendingDocument(c)
      BY PendingKind DEF PendingInv, UpdateRunCommit
  <1>2. call[c].run \in Runs /\ call[c].base \in Row /\ call[c].expected \in Nat
      BY <1>1 DEF Updates
  <1>3. runs[call[c].run].version = call[c].expected
      BY DEF UpdateRunCommit, MatchesVersion
  <1>4. call[c].base.version \in Nat
      BY <1>2 DEF Row
  <1> QED
      BY <1>1, <1>2, <1>3, <1>4 DEF PendingDocument, ReadRow

\* Only the transactions of validated operations change runs and calls.
LEMMA TwoTables ==
    ASSUME [Next]_vars
    PROVE  \/ runs' = runs
           \/ call' = call
           \/ \E c \in Callers : RetryRunCommit(c) \/ UpdateRunCommit(c)
  <1>1. \A key \in Keys, target \in Targets : StartAssembly(key, target) => call' = call
      BY DEF StartAssembly
  <1>2. \A c \in Callers, r \in Runs, expected \in 1..MaxVersion, key \in Keys :
            RetryRun(c, r, expected, key) => runs' = runs
      BY DEF RetryRun
  <1>3. \A r \in Runs, product \in Products, expected \in 1..MaxVersion :
            BindProduct(r, product, expected) => call' = call
      BY DEF BindProduct
  <1>4. \A c \in Callers, r \in Runs, expected \in 1..MaxVersion,
           doc \in Documents, given \in SUBSET Diagnostics :
            UpdateRun(c, r, expected, doc, given) => runs' = runs
      BY DEF UpdateRun
  <1>5. \A c \in Callers, r \in Runs, expected \in 1..MaxVersion, doc \in Documents :
            CompleteAssembly(c, r, expected, doc) => runs' = runs
      BY DEF CompleteAssembly
  <1>6. \A c \in Callers : CallFails(c) => runs' = runs
      BY DEF CallFails
  <1>7. vars' = vars => runs' = runs
      BY DEF vars
  <1> QED
      BY <1>1, <1>2, <1>3, <1>4, <1>5, <1>6, <1>7 DEF Next

\* No writer changes a run between a document's validation and its commit.
THEOREM ValidatedRowIsReplaced == Spec => ValidatedRowReplaced
  <1> DEFINE Fresh(c, r) ==
          (call[c].op \in {"update", "complete"} /\ call'[c] = Idle
             /\ call[c].run = r /\ runs'[r] # runs[r])
          => runs[r] = call[c].base
  <1>1. ASSUME TypeOK, PendingInv, [Next]_vars, NEW c \in Callers, NEW r \in Runs
        PROVE  Fresh(c, r)
    <2> SUFFICES ASSUME call[c].op \in {"update", "complete"}, call'[c] = Idle,
                        call[c].run = r, runs'[r] # runs[r]
                 PROVE  runs[r] = call[c].base
        OBVIOUS
    <2>1. call'[c] # call[c]
        BY DEF Idle
    <2>2. ASSUME NEW d \in Callers, UpdateRunCommit(d)
          PROVE  d = c
        BY <1>1, <2>1, <2>2 DEF UpdateRunCommit, TypeOK
    <2>3. \A d \in Callers : ~RetryRunCommit(d)
      <3> SUFFICES ASSUME NEW d \in Callers, RetryRunCommit(d)
                   PROVE  FALSE
          OBVIOUS
      <3>1. d # c
          BY DEF RetryRunCommit
      <3> QED
          BY <1>1, <2>1, <3>1 DEF RetryRunCommit, TypeOK
    <2>4. call' # call /\ runs' # runs
        BY <2>1
    <2>5. \E d \in Callers : UpdateRunCommit(d)
        BY <1>1, <2>3, <2>4, TwoTables
    <2>6. UpdateRunCommit(c)
        BY <2>2, <2>5
    <2> QED
        BY <1>1, <2>6, CommitReplacesBase
  <1> HIDE DEF Fresh
  <1>2. TypeOK /\ PendingInv /\ [Next]_vars => [\A c \in Callers, r \in Runs : Fresh(c, r)]_vars
      BY <1>1
  <1>3. Spec => [][\A c \in Callers, r \in Runs : Fresh(c, r)]_vars
      BY <1>2, TypeCorrect, PendingCorrect, PTL DEF Spec
  <1> QED
      BY <1>3 DEF ValidatedRowReplaced, Fresh

-----------------------------------------------------------------------------
(* Refinement: the statuses follow RunLifecycle.  A document's change of   *)
(* status is one that the core accepts from the replaced row, because that *)
(* is the validated row, and one that the trigger accepts; what both       *)
(* accept stays on the track of RunLifecycle.                              *)

\* No run is rolling back or rolled back.
OnTrack == \A r \in ExistingRuns : runs[r].status \notin {"rolling_back", "rolled_back"}

\* A step changes one row.
LEMMA OneRowChanges ==
    ASSUME TypeOK, [Next]_vars
    PROVE  runs' = runs \/ \E q \in Runs : \A r \in Runs : r # q => runs'[r] = runs[r]
  <1> DEFINE Goal == runs' = runs \/ \E q \in Runs : \A r \in Runs : r # q => runs'[r] = runs[r]
  <1>1. ASSUME NEW q \in Runs, NEW row, runs' = [runs EXCEPT ![q] = row]
        PROVE  Goal
      BY <1>1 DEF TypeOK
  <1>2. ASSUME NEW q \in Runs, NEW row, NEW scope, NEW key, NEW digest,
               InsertRun(q, row, scope, key, digest)
        PROVE  Goal
      BY <1>1, <1>2 DEF InsertRun
  <1>3. ASSUME NEW key \in Keys, NEW target \in Targets, StartAssembly(key, target)
        PROVE  Goal
      BY <1>2, <1>3 DEF StartAssembly, ReplaysIdempotency
  <1>4. ASSUME NEW c \in Callers, RetryRunCommit(c)
        PROVE  Goal
      BY <1>2, <1>4 DEF RetryRunCommit, ReplaysIdempotency
  <1>5. ASSUME NEW q \in Runs, NEW product \in Products, NEW expected \in 1..MaxVersion,
               BindProduct(q, product, expected)
        PROVE  Goal
      BY <1>1, <1>5 DEF BindProduct
  <1>6. ASSUME NEW c \in Callers, UpdateRunCommit(c)
        PROVE  Goal
    <2>1. call[c].run \in Runs
        BY <1>6, PendingKind DEF UpdateRunCommit, Updates
    <2> QED
        BY <1>1, <1>6, <2>1 DEF UpdateRunCommit
  <1>7. ASSUME runs' = runs
        PROVE  Goal
      BY <1>7
  <1> HIDE DEF Goal
  <1>8. Goal
      BY <1>3, <1>4, <1>5, <1>6, <1>7
         DEF Next, RetryRun, UpdateRun, CompleteAssembly, CallFails, vars
  <1> QED
      BY <1>8 DEF Goal

\* An existing row changes its status as the core and the trigger allow.
LEMMA StatusChange ==
    ASSUME TypeOK, PendingInv, [Next]_vars, NEW r \in Runs, Exists(r), runs'[r] # runs[r]
    PROVE  /\ \/ runs'[r].status = runs[r].status
              \/ validTransition(runs[r].status, runs'[r].status)
           /\ runStatusMayChange(runs[r], runs'[r])
  <1> DEFINE Goal == \/ runs'[r].status = runs[r].status
                     \/ validTransition(runs[r].status, runs'[r].status)
  <1>1. runRowMayChange(runs[r], runs'[r])
      BY RowChange
  <1>2. ASSUME NEW q \in Runs, NEW row, NEW scope, NEW key, NEW digest,
               InsertRun(q, row, scope, key, digest)
        PROVE  Goal
      BY <1>2 DEF InsertRun, TypeOK, Exists
  <1>3. ASSUME NEW key \in Keys, NEW target \in Targets, StartAssembly(key, target)
        PROVE  Goal
      BY <1>2, <1>3 DEF StartAssembly, ReplaysIdempotency
  <1>4. ASSUME NEW c \in Callers, RetryRunCommit(c)
        PROVE  Goal
      BY <1>2, <1>4 DEF RetryRunCommit, ReplaysIdempotency
  <1>5. ASSUME NEW q \in Runs, NEW product \in Products, NEW expected \in 1..MaxVersion,
               BindProduct(q, product, expected)
        PROVE  Goal
    <2>1. q = r
        BY <1>5 DEF BindProduct, TypeOK
    <2>2. runs[r] \in Row
        BY ExistingRow
    <2>3. runs'[r] = [runs[r] EXCEPT !.product = product, !.version = @ + 1]
        BY <1>5, <2>1 DEF BindProduct, TypeOK
    <2> QED
        BY <2>2, <2>3 DEF Row
  <1>6. ASSUME NEW c \in Callers, UpdateRunCommit(c)
        PROVE  Goal
    <2>1. call[c].run = r
        BY <1>6 DEF UpdateRunCommit, TypeOK
    <2>2. runs[r] = call[c].base
        BY <1>6, <2>1, CommitReplacesBase
    <2>3. PendingDocument(c)
        BY <1>6 DEF PendingInv, UpdateRunCommit
    <2>4. validTransition(runs[r].status, call[c].doc.status)
        BY <2>2, <2>3 DEF PendingDocument, validateRunEvolution
    <2>5. runs'[r].status = call[c].doc.status
        BY <1>6, <2>1 DEF UpdateRunCommit, UpdatedRow, TypeOK
    <2> QED
        BY <2>4, <2>5
  <1>7. runs' # runs
      OBVIOUS
  <1> HIDE DEF Goal
  <1>8. Goal
      BY <1>3, <1>4, <1>5, <1>6, <1>7
         DEF Next, RetryRun, UpdateRun, CompleteAssembly, CallFails, vars
  <1> QED
      BY <1>1, <1>8 DEF Goal, runRowMayChange

\* The new status of a run is a successor of the old one in RunLifecycle.
LEMMA StatusFollows ==
    ASSUME TypeOK, PendingInv, OnTrack, [Next]_vars, NEW r \in Runs
    PROVE  \/ StatusOf(r)' = StatusOf(r)
           \/ StatusOf(r)' \in Lifecycle!Successors(StatusOf(r))
  <1>1. CASE runs'[r] = runs[r]
      BY <1>1 DEF StatusOf, Exists
  <1>2. CASE runs'[r] # runs[r] /\ ~Exists(r)
    <2>1. runs'[r].status = "planned"
        BY <1>2, RowChange
    <2>2. Exists(r)'
        BY <1>2 DEF Exists
    <2> QED
        BY <1>2, <2>1, <2>2 DEF StatusOf, Lifecycle!Successors
  <1>3. CASE runs'[r] # runs[r] /\ Exists(r)
    <2>1. /\ \/ runs'[r].status = runs[r].status
             \/ validTransition(runs[r].status, runs'[r].status)
          /\ runStatusMayChange(runs[r], runs'[r])
        BY <1>3, StatusChange
    <2>2. StatusOf(r) = runs[r].status /\ StatusOf(r)' = runs'[r].status
        BY <1>3, ExistsKept DEF StatusOf
    <2>3. runs[r].status \notin {"rolling_back", "rolled_back"}
        BY <1>3 DEF OnTrack, ExistingRuns
    <2>4. runs[r].status \in RunStatuses
        BY <1>3, ExistingRow DEF Row
    <2> QED
        BY <2>1, <2>2, <2>3, <2>4
           DEF runStatusMayChange, validTransition, Lifecycle!Successors, RunStatuses, TerminalStatuses
  <1> QED
      BY <1>1, <1>2, <1>3

\* No step starts a rollback.
LEMMA OnTrackStep == TypeOK /\ PendingInv /\ OnTrack /\ [Next]_vars => OnTrack'
  <1> SUFFICES ASSUME TypeOK, PendingInv, OnTrack, [Next]_vars, NEW r \in Runs, Exists(r)'
               PROVE  runs'[r].status \notin {"rolling_back", "rolled_back"}
      BY DEF OnTrack, ExistingRuns
  <1>1. StatusOf(r)' = runs'[r].status
      BY DEF StatusOf
  <1>2. StatusOf(r) \notin {"rolling_back", "rolled_back"}
      BY DEF StatusOf, OnTrack, ExistingRuns
  <1>3. \A s : Lifecycle!Successors(s) \intersect {"rolling_back", "rolled_back"} = {}
      BY DEF Lifecycle!Successors
  <1> QED
      BY <1>1, <1>2, <1>3, StatusFollows

\* The run records implement RunLifecycle: each step of theirs is a step of one
\* run's lifecycle or leaves every status as it is.
THEOREM LifecycleImplemented == Spec => ImplementsLifecycle
  <1> DEFINE status == [r \in Runs |-> StatusOf(r)]
  <1>1. Init => Lifecycle!Init /\ OnTrack
      BY DEF Init, Lifecycle!Init, StatusOf, Exists, OnTrack, ExistingRuns
  <1>2. ASSUME TypeOK, PendingInv, OnTrack, [Next]_vars
        PROVE  [Lifecycle!Next]_status
    <2>1. CASE runs' = runs
        BY <2>1 DEF StatusOf, Exists
    <2>2. ASSUME NEW q \in Runs, \A r \in Runs : r # q => runs'[r] = runs[r]
          PROVE  [Lifecycle!Next]_status
      <3>1. \A r \in Runs : r # q => StatusOf(r)' = StatusOf(r)
          BY <2>2 DEF StatusOf, Exists
      <3>2. CASE StatusOf(q)' = StatusOf(q)
        <4>1. \A r \in Runs : StatusOf(r)' = StatusOf(r)
            BY <3>1, <3>2
        <4> QED
            BY <4>1
      <3>3. CASE StatusOf(q)' \in Lifecycle!Successors(StatusOf(q))
        <4>1. status' = [status EXCEPT ![q] = StatusOf(q)']
            BY <3>1
        <4>2. StatusOf(q)' \in Lifecycle!Successors(status[q])
            BY <3>3
        <4> QED
            BY <4>1, <4>2 DEF Lifecycle!Next, Lifecycle!Advance
      <3> QED
          BY <1>2, <3>2, <3>3, StatusFollows
    <2> QED
        BY <1>2, <2>1, <2>2, OneRowChanges
  <1>3. Spec => []OnTrack
      BY <1>1, OnTrackStep, TypeCorrect, PendingCorrect, PTL DEF Spec
  <1> QED
      BY <1>1, <1>2, <1>3, TypeCorrect, PendingCorrect, PTL DEF Spec, ImplementsLifecycle, Lifecycle!Spec

-----------------------------------------------------------------------------
(* The retry chain.  A retry that is committed was computed from the row   *)
(* that its transaction locks, for its version is the expected one; that   *)
(* row is failed and hence never changes again.                            *)

PendingRetry(c) == ReadRow(c) /\ call[c].expected = call[c].base.version

RetryInv == \A c \in Callers : call[c].op = "retry" => PendingRetry(c)

\* Every step keeps RetryInv.
LEMMA RetryStep == TypeOK /\ RetryInv /\ [Next]_vars => RetryInv'
  <1> SUFFICES ASSUME TypeOK, RetryInv, [Next]_vars,
                      NEW d \in Callers, call'[d].op = "retry"
               PROVE  PendingRetry(d)'
      BY DEF RetryInv
  <1>1. ASSUME call'[d] = call[d]
        PROVE  PendingRetry(d)'
      BY <1>1, PendingKind, ReadKept DEF RetryInv, PendingRetry
  <1>2. ASSUME NEW c \in Callers, call' = [call EXCEPT ![c] = Idle]
        PROVE  PendingRetry(d)'
      BY <1>1, <1>2 DEF TypeOK, Idle
  <1>3. ASSUME NEW c \in Callers, NEW r \in Runs, NEW expected \in 1..MaxVersion, NEW key \in Keys,
               RetryRun(c, r, expected, key)
        PROVE  PendingRetry(d)'
    <2>1. CASE d # c
        BY <1>1, <1>3, <2>1 DEF RetryRun, TypeOK
    <2>2. CASE d = c
      <3>1. call'[d] = [op |-> "retry", run |-> r, base |-> runs[r],
                        expected |-> expected, key |-> key]
          BY <1>3, <2>2 DEF RetryRun, TypeOK
      <3>2. runs' = runs /\ Exists(r) /\ runs[r].version = expected
          BY <1>3 DEF RetryRun
      <3>3. runs[r].version \in Nat
          BY <3>2, ExistingRow DEF Row
      <3>4. Exists(r)'
          BY <3>2 DEF Exists
      <3> QED
          BY <3>1, <3>2, <3>3, <3>4 DEF PendingRetry, ReadRow
    <2> QED
        BY <2>1, <2>2
  <1>4. ASSUME NEW c \in Callers, NEW r \in Runs, NEW expected \in 1..MaxVersion,
               NEW doc \in Documents, NEW given \in SUBSET Diagnostics,
               UpdateRun(c, r, expected, doc, given)
        PROVE  PendingRetry(d)'
    <2>1. d # c
        BY <1>4 DEF UpdateRun, TypeOK
    <2> QED
        BY <1>1, <1>4, <2>1 DEF UpdateRun, TypeOK
  <1>5. ASSUME NEW c \in Callers, NEW r \in Runs, NEW expected \in 1..MaxVersion,
               NEW doc \in Documents, CompleteAssembly(c, r, expected, doc)
        PROVE  PendingRetry(d)'
    <2>1. d # c
        BY <1>5 DEF CompleteAssembly, TypeOK
    <2> QED
        BY <1>1, <1>5, <2>1 DEF CompleteAssembly, TypeOK
  <1>6. ASSUME call' = call
        PROVE  PendingRetry(d)'
      BY <1>1, <1>6
  <1> QED
      BY <1>2, <1>3, <1>4, <1>5, <1>6
         DEF Next, StartAssembly, RetryRunCommit, BindProduct, UpdateRunCommit, CallFails, vars

\* What a new row says of its place in the chain.
Starts(r, row) == row.retryOf = NoRun /\ row.root = r /\ row.attemptNumber = 1

Succeeds(row) ==
    /\ row.retryOf \in Runs
    /\ Exists(row.retryOf)
    /\ Retryable(runs[row.retryOf])
    /\ row.root = runs[row.retryOf].root
    /\ row.attemptNumber = runs[row.retryOf].attemptNumber + 1
    /\ row.product = runs[row.retryOf].product
    /\ UniqueSuccessor(row)

\* A new row starts a chain or succeeds the last row of one.
LEMMA NewRowPlaced ==
    ASSUME TypeOK, RetryInv, [Next]_vars, NEW r \in Runs, ~Exists(r), runs'[r] # runs[r]
    PROVE  Starts(r, runs'[r]) \/ Succeeds(runs'[r])
  <1> DEFINE Goal == Starts(r, runs'[r]) \/ Succeeds(runs'[r])
  <1>1. ASSUME NEW q \in Runs, NEW row, NEW scope, NEW key, NEW digest,
               InsertRun(q, row, scope, key, digest)
        PROVE  q = r /\ runs'[r] = row
      BY <1>1 DEF InsertRun, TypeOK
  <1>2. ASSUME NEW key \in Keys, NEW target \in Targets, StartAssembly(key, target)
        PROVE  Goal
    <2>1. PICK q \in Runs, product \in planProducts :
              InsertRun(q, NewRow(q, NoRun, 1, product), NoRun, key, target)
        BY <1>2 DEF StartAssembly, ReplaysIdempotency
    <2>2. runs'[r] = NewRow(r, NoRun, 1, product)
        BY <1>1, <2>1
    <2> QED
        BY <2>2 DEF Starts, NewRow
  <1>3. ASSUME NEW c \in Callers, RetryRunCommit(c)
        PROVE  Goal
    <2> DEFINE parent == runs[call[c].run]
               row == NewRow(call[c].base.root, call[c].run,
                             call[c].base.attemptNumber + 1, RetryProduct(call[c].base))
    <2>1. PICK q \in Runs : InsertRun(q, row, call[c].run, call[c].key, call[c].expected)
        BY <1>3 DEF RetryRunCommit, ReplaysIdempotency
    <2>2. runs'[r] = row
        BY <1>1, <2>1
    <2>3. /\ Exists(call[c].run)
          /\ parent.version = call[c].expected
          /\ Retryable(parent)
          /\ row.root = parent.root
          /\ row.attemptNumber = parent.attemptNumber + 1
          /\ UniqueSuccessor(row)
        BY <1>3, <2>2 DEF RetryRunCommit, ReplaysIdempotency, MatchesVersion
    <2>4. call[c].run \in Runs
        BY <1>3, PendingKind DEF RetryRunCommit, Retries
    <2>5. call[c].base = parent
        BY <1>3, <2>3 DEF RetryRunCommit, RetryInv, PendingRetry, ReadRow
    <2>6. row.retryOf = call[c].run /\ row.product = parent.product
        BY <2>5 DEF NewRow, RetryProduct
    <2> HIDE DEF row
    <2> QED
        BY <2>2, <2>3, <2>4, <2>6 DEF Succeeds
  <1>4. ASSUME NEW q \in Runs, NEW product \in Products, NEW expected \in 1..MaxVersion,
               BindProduct(q, product, expected)
        PROVE  FALSE
      BY <1>4 DEF BindProduct, TypeOK
  <1>5. ASSUME NEW c \in Callers, UpdateRunCommit(c)
        PROVE  FALSE
      BY <1>5 DEF UpdateRunCommit, TypeOK
  <1>6. runs' # runs
      OBVIOUS
  <1> HIDE DEF Goal
  <1>7. Goal
      BY <1>2, <1>3, <1>4, <1>5, <1>6
         DEF Next, RetryRun, UpdateRun, CompleteAssembly, CallFails, vars
  <1> QED
      BY <1>7 DEF Goal

\* The place of one row, as RetryChain and RetryKeepsProduct state it.
Placed(r) ==
    LET p == runs[r].retryOf
    IN  IF p = NoRun
        THEN runs[r].root = r /\ runs[r].attemptNumber = 1
        ELSE /\ p \in Runs
             /\ Exists(p)
             /\ Retryable(runs[p])
             /\ runs[r].root = runs[p].root
             /\ runs[r].attemptNumber = runs[p].attemptNumber + 1
             /\ runs[r].product = runs[p].product \/ runs[p].product = NoProduct

OneSuccessor ==
    \A r, other \in ExistingRuns :
        (runs[r].retryOf # NoRun /\ runs[r].retryOf = runs[other].retryOf) => r = other

\* A failed parent is still what its successor saw.
LEMMA PlacedStep ==
    ASSUME TypeOK, RetryInv, [Next]_vars, NEW r \in Runs, Exists(r)', Exists(r) => Placed(r)
    PROVE  Placed(r)'
  <1>0. \A p \in Runs : Exists(p) /\ Retryable(runs[p]) => runs'[p] = runs[p]
      BY RowChange
         DEF Retryable, runRowMayChange, runStatusMayChange, TerminalStatuses
  <1>1. CASE Exists(r)
    <2>1. SameIdentity(runs[r], runs'[r])
        BY <1>1, RowChange DEF SameIdentity
    <2>2. CASE runs[r].retryOf = NoRun
        BY <1>1, <2>1, <2>2 DEF Placed, SameIdentity
    <2>3. CASE runs[r].retryOf # NoRun
      <3> DEFINE p == runs[r].retryOf
      <3>1. /\ p \in Runs
            /\ Exists(p)
            /\ Retryable(runs[p])
            /\ runs[r].root = runs[p].root
            /\ runs[r].attemptNumber = runs[p].attemptNumber + 1
            /\ runs[r].product = runs[p].product \/ runs[p].product = NoProduct
          BY <1>1, <2>3 DEF Placed
      <3>2. runs'[p] = runs[p]
          BY <1>0, <3>1
      <3>3. runs[p].product # NoProduct => runs'[r].product = runs[r].product
          BY <1>1, <3>1, RowChange DEF runRowMayChange
      <3> QED
          BY <2>1, <2>3, <3>1, <3>2, <3>3 DEF Placed, SameIdentity, Retryable, Exists
    <2> QED
        BY <2>2, <2>3
  <1>2. CASE ~Exists(r)
    <2>1. runs'[r] # runs[r]
        BY <1>2 DEF Exists
    <2>2. Starts(r, runs'[r]) \/ Succeeds(runs'[r])
        BY <1>2, <2>1, NewRowPlaced
    <2>3. CASE Starts(r, runs'[r])
        BY <2>3 DEF Starts, Placed
    <2>4. CASE Succeeds(runs'[r])
      <3> DEFINE p == runs'[r].retryOf
      <3>1. /\ p \in Runs
            /\ Exists(p)
            /\ Retryable(runs[p])
            /\ runs'[r].root = runs[p].root
            /\ runs'[r].attemptNumber = runs[p].attemptNumber + 1
            /\ runs'[r].product = runs[p].product
          BY <2>4 DEF Succeeds
      <3>2. runs'[p] = runs[p]
          BY <1>0, <3>1
      <3>3. p # NoRun
          BY <3>1, ConstantsAssumption
      <3> QED
          BY <3>1, <3>2, <3>3 DEF Placed, Retryable, Exists
    <2> QED
        BY <2>2, <2>3, <2>4
  <1> QED
      BY <1>1, <1>2

\* No second successor of a run is inserted.
LEMMA OneSuccessorStep ==
    ASSUME TypeOK, RetryInv, OneSuccessor, [Next]_vars
    PROVE  OneSuccessor'
  <1> SUFFICES ASSUME NEW r \in Runs, NEW other \in Runs, Exists(r)', Exists(other)', r # other,
                      runs'[r].retryOf # NoRun, runs'[r].retryOf = runs'[other].retryOf
               PROVE  FALSE
      BY DEF OneSuccessor, ExistingRuns
  <1>1. ASSUME NEW q \in Runs, Exists(q)
        PROVE  runs'[q].retryOf = runs[q].retryOf
      BY <1>1, RowChange DEF SameIdentity
  <1>2. ASSUME NEW q \in Runs, ~Exists(q), Exists(q)', runs'[q].retryOf # NoRun
        PROVE  \A s \in Runs : Exists(s) => runs[s].retryOf # runs'[q].retryOf
    <2>1. runs'[q] # runs[q]
        BY <1>2 DEF Exists
    <2>2. Succeeds(runs'[q])
        BY <1>2, <2>1, NewRowPlaced DEF Starts
    <2> QED
        BY <2>2 DEF Succeeds, UniqueSuccessor, ExistingRuns
  <1>3. CASE Exists(r) /\ Exists(other)
      BY <1>1, <1>3 DEF OneSuccessor, ExistingRuns
  <1>4. CASE ~Exists(r) /\ Exists(other)
      BY <1>1, <1>2, <1>4
  <1>5. CASE Exists(r) /\ ~Exists(other)
      BY <1>1, <1>2, <1>5
  <1>6. CASE ~Exists(r) /\ ~Exists(other)
      BY <1>6, OneRowChanges DEF Exists
  <1> QED
      BY <1>3, <1>4, <1>5, <1>6

ChainInv == RetryInv /\ OneSuccessor /\ \A r \in ExistingRuns : Placed(r)

\* The chain is well formed in every reachable state.
THEOREM ChainCorrect == Spec => []ChainInv
  <1>1. Init => ChainInv
      BY DEF Init, ChainInv, RetryInv, Idle, OneSuccessor, ExistingRuns, Exists
  <1>2. TypeOK /\ ChainInv /\ [Next]_vars => ChainInv'
    <2> SUFFICES ASSUME TypeOK, ChainInv, [Next]_vars
                 PROVE  RetryInv' /\ OneSuccessor' /\ \A r \in Runs : Exists(r)' => Placed(r)'
        BY DEF ChainInv, ExistingRuns
    <2> QED
        BY RetryStep, OneSuccessorStep, PlacedStep DEF ChainInv, ExistingRuns
  <1> QED
      BY <1>1, <1>2, TypeCorrect, PTL DEF Spec

\* A run is retried at most once, only when it failed retryably, and the retry
\* stays in its chain, whatever concurrent retries and updates do.
THEOREM RetryChainHolds == Spec => []RetryChain
  <1>1. ChainInv => RetryChain
      BY DEF ChainInv, RetryChain, Placed, OneSuccessor, ExistingRuns
  <1> QED
      BY <1>1, ChainCorrect, PTL

\* No retry of a bound run is left without its product or given another.
THEOREM RetryKeepsTheProduct == Spec => []RetryKeepsProduct
  <1>1. ChainInv => RetryKeepsProduct
      BY DEF ChainInv, RetryKeepsProduct, Placed, ExistingRuns
  <1> QED
      BY <1>1, ChainCorrect, PTL

-----------------------------------------------------------------------------
(* What a run leaves behind agrees with its row.                           *)

\* What a pending call has made sure of, apart from the row it read.
PendingEvidence(c) ==
    /\ (call[c].op = "update" /\ call[c].doc.status = "failed")
            => call[c].evidence = call[c].doc.diagnosticIDs
    /\ call[c].op = "complete"
            => /\ call[c].doc.status = "completed"
               /\ call[c].base.product \in planProducts \ {NoProduct}

EvidenceInv == \A c \in Callers : PendingEvidence(c)

\* What a row, and the absence of one, says of the other tables.
RowExplained(r) ==
    /\ runs[r].status = "completed" <=> r \in manifests
    /\ runs[r].manifest <=> r \in manifests
    /\ r \in manifests => runs[r].product \in planProducts \ {NoProduct}
    /\ runs[r].status = "failed" => runs[r].diagnosticIDs \subseteq diagnostics[r]
    /\ outbox[r] = runs[r].version

RowAbsent(r) == r \notin manifests /\ outbox[r] = 0

TablesAgree == \A r \in Runs : IF Exists(r) THEN RowExplained(r) ELSE RowAbsent(r)

\* The plan has had one product at most.
PlanInv == \A p, q \in planProducts \ {NoProduct} : p = q

\* Only the run of a record is answered for its key.
KeyInv ==
    \A e \in Scopes \X Keys :
        answers[e] \subseteq IF idem[e] = NoRecord THEN {} ELSE {idem[e].run}

-----------------------------------------------------------------------------
\* The products of the plan are kept, and only a first one is added.
LEMMA PlanStep ==
    ASSUME [Next]_vars, PlanInv
    PROVE  PlanInv' /\ planProducts \subseteq planProducts'
  <1>1. ASSUME NEW r \in Runs, NEW product \in Products, NEW expected \in 1..MaxVersion,
               BindProduct(r, product, expected)
        PROVE  \/ planProducts' = planProducts
               \/ planProducts = {NoProduct} /\ planProducts' = {NoProduct, product}
      BY <1>1 DEF BindProduct
  <1>2. \/ planProducts' = planProducts
        \/ \E product : planProducts = {NoProduct} /\ planProducts' = {NoProduct, product}
      BY <1>1 DEF Next, StartAssembly, RetryRun, RetryRunCommit, UpdateRun, CompleteAssembly,
                  UpdateRunCommit, CallFails, vars
  <1>3. CASE planProducts' = planProducts
      BY <1>3 DEF PlanInv
  <1>4. ASSUME NEW product, planProducts = {NoProduct}, planProducts' = {NoProduct, product}
        PROVE  PlanInv' /\ planProducts \subseteq planProducts'
      BY <1>4 DEF PlanInv
  <1> QED
      BY <1>2, <1>3, <1>4

\* A call that stays keeps what it made sure of.
LEMMA EvidenceStep == TypeOK /\ PlanInv /\ EvidenceInv /\ [Next]_vars => EvidenceInv'
  <1> SUFFICES ASSUME TypeOK, PlanInv, EvidenceInv, [Next]_vars, NEW d \in Callers
               PROVE  PendingEvidence(d)'
      BY DEF EvidenceInv
  <1>0. planProducts \subseteq planProducts'
      BY PlanStep
  <1>1. ASSUME call'[d] = call[d]
        PROVE  PendingEvidence(d)'
      BY <1>0, <1>1 DEF EvidenceInv, PendingEvidence
  <1>2. ASSUME NEW c \in Callers, call' = [call EXCEPT ![c] = Idle]
        PROVE  PendingEvidence(d)'
    <2>1. CASE d = c
        BY <1>2, <2>1 DEF TypeOK, Idle, PendingEvidence
    <2>2. CASE d # c
        BY <1>1, <1>2, <2>2 DEF TypeOK
    <2> QED
        BY <2>1, <2>2
  <1>3. ASSUME NEW c \in Callers, NEW r \in Runs, NEW expected \in 1..MaxVersion, NEW key \in Keys,
               RetryRun(c, r, expected, key)
        PROVE  PendingEvidence(d)'
    <2>1. CASE d = c
        BY <1>3, <2>1 DEF RetryRun, TypeOK, PendingEvidence
    <2>2. CASE d # c
        BY <1>1, <1>3, <2>2 DEF RetryRun, TypeOK
    <2> QED
        BY <2>1, <2>2
  <1>4. ASSUME NEW c \in Callers, NEW r \in Runs, NEW expected \in 1..MaxVersion,
               NEW doc \in Documents, NEW given \in SUBSET Diagnostics,
               UpdateRun(c, r, expected, doc, given)
        PROVE  PendingEvidence(d)'
    <2>1. CASE d = c
      <3>1. call'[d] = [op |-> "update", run |-> r, base |-> runs[r], expected |-> expected,
                        doc |-> doc, evidence |-> Evidence(doc, given)]
          BY <1>4, <2>1 DEF UpdateRun, TypeOK
      <3>2. doc.status = "failed" => Evidence(doc, given) = doc.diagnosticIDs
          BY <1>4 DEF UpdateRun, validateRunEvidence
      <3> QED
          BY <3>1, <3>2 DEF PendingEvidence
    <2>2. CASE d # c
        BY <1>1, <1>4, <2>2 DEF UpdateRun, TypeOK
    <2> QED
        BY <2>1, <2>2
  <1>5. ASSUME NEW c \in Callers, NEW r \in Runs, NEW expected \in 1..MaxVersion,
               NEW doc \in Documents, CompleteAssembly(c, r, expected, doc)
        PROVE  PendingEvidence(d)'
    <2>1. CASE d = c
      <3>1. call'[d] = [op |-> "complete", run |-> r, base |-> runs[r], expected |-> expected,
                        doc |-> doc, evidence |-> {}]
          BY <1>5, <2>1 DEF CompleteAssembly, TypeOK
      <3>2. /\ doc.status = "completed"
            /\ runs[r].product \in planProducts' \ {NoProduct}
          BY <1>5 DEF CompleteAssembly, PlanHasProduct
      <3> QED
          BY <3>1, <3>2 DEF PendingEvidence
    <2>2. CASE d # c
        BY <1>1, <1>5, <2>2 DEF CompleteAssembly, TypeOK
    <2> QED
        BY <2>1, <2>2
  <1>6. ASSUME call' = call
        PROVE  PendingEvidence(d)'
      BY <1>1, <1>6
  <1> QED
      BY <1>2, <1>3, <1>4, <1>5, <1>6
         DEF Next, StartAssembly, RetryRunCommit, BindProduct, UpdateRunCommit, CallFails, vars

-----------------------------------------------------------------------------
(* The tables.                                                             *)

\* What the tables say of a run that a step does not touch is kept.
Untouched(r) ==
    /\ runs'[r] = runs[r]
    /\ r \in manifests' <=> r \in manifests
    /\ diagnostics'[r] = diagnostics[r]
    /\ outbox'[r] = outbox[r]

TableInv(r) == IF Exists(r) THEN RowExplained(r) ELSE RowAbsent(r)

LEMMA UntouchedStays ==
    ASSUME NEW r \in Runs, Untouched(r), TableInv(r), planProducts \subseteq planProducts'
    PROVE  TableInv(r)'
  <1>1. Exists(r)' <=> Exists(r)
      BY DEF Exists, Untouched
  <1>2. CASE Exists(r)
      BY <1>1, <1>2 DEF TableInv, RowExplained, Untouched
  <1>3. CASE ~Exists(r)
      BY <1>1, <1>3 DEF TableInv, RowAbsent, Untouched
  <1> QED
      BY <1>2, <1>3

\* A run is inserted with its first event and nothing else.
LEMMA InsertExplained ==
    ASSUME TypeOK, NEW q \in Runs, NEW root, NEW retryOf, NEW n, NEW product,
           NEW scope, NEW key, NEW digest,
           NewRow(root, retryOf, n, product) # NoRecord,
           InsertRun(q, NewRow(root, retryOf, n, product), scope, key, digest),
           NEW r \in Runs, TableInv(r), planProducts \subseteq planProducts'
    PROVE  TableInv(r)'
  <1>1. CASE r # q
    <2>1. Untouched(r)
        BY <1>1 DEF InsertRun, insertOutbox, Untouched, TypeOK
    <2> QED
        BY <2>1, UntouchedStays
  <1>2. CASE r = q
    <2>1. RowAbsent(r)
        BY <1>2 DEF TableInv, InsertRun, Exists
    <2>2. /\ runs'[r] = NewRow(root, retryOf, n, product)
          /\ outbox'[r] = outbox[r] + 1
          /\ manifests' = manifests
        BY <1>2 DEF InsertRun, insertOutbox, TypeOK
    <2>3. Exists(r)'
        BY <2>2 DEF Exists
    <2>4. RowExplained(r)'
        BY <2>1, <2>2 DEF RowAbsent, RowExplained, NewRow, FirstVersion
    <2> QED
        BY <2>3, <2>4 DEF TableInv
  <1> QED
      BY <1>1, <1>2

\* The commit of a document leaves manifest, diagnostics and event with its row.
LEMMA CommitExplained ==
    ASSUME TypeOK, PendingInv, EvidenceInv, NEW c \in Callers, UpdateRunCommit(c),
           NEW r \in Runs, TableInv(r), planProducts \subseteq planProducts'
    PROVE  TableInv(r)'
  <1>1. call[c] \in Updates
      BY PendingKind DEF UpdateRunCommit
  <1>2. CASE call[c].run # r
    <2>1. Untouched(r)
        BY <1>1, <1>2 DEF UpdateRunCommit, insertOutbox, Untouched, TypeOK, Updates
    <2> QED
        BY <2>1, UntouchedStays
  <1>3. CASE call[c].run = r
    <2> DEFINE completes == call[c].op = "complete"
               row == UpdatedRow(runs[r], call[c].doc, runs[r].manifest \/ completes)
    <2>1. /\ Exists(r)
          /\ runRowMayChange(runs[r], row)
          /\ runs'[r] = row
          /\ diagnostics'[r] = diagnostics[r] \union call[c].evidence
          /\ manifests' = IF completes THEN manifests \union {r} ELSE manifests
          /\ outbox'[r] = outbox[r] + 1
        BY <1>3 DEF UpdateRunCommit, insertOutbox, TypeOK
    <2>2. RowExplained(r)
        BY <2>1 DEF TableInv
    <2>3. /\ row.status = call[c].doc.status
          /\ row.manifest = (runs[r].manifest \/ completes)
          /\ row.product = runs[r].product
          /\ row.diagnosticIDs = call[c].doc.diagnosticIDs
          /\ row.version = runs[r].version + 1
        BY DEF UpdatedRow
    <2>4. runs[r].status # "completed" /\ r \notin manifests
        BY <2>1, <2>2 DEF runRowMayChange, runStatusMayChange, TerminalStatuses, RowExplained
    <2>5. row.status = "completed" => row.manifest
        BY <2>1 DEF runRowMayChange, manifestMayChange
    <2>6. call[c].op \in {"update", "complete"}
        BY <1>1 DEF Updates
    <2>7. Exists(r)'
        BY <2>1, ExistsKept, NoRecordAssumption DEF Exists, Next
    <2> HIDE DEF row
    <2>8. CASE completes
      <3>1. runs[r].product \in planProducts \ {NoProduct} /\ call[c].doc.status = "completed"
          BY <1>3, <2>8, CommitReplacesBase DEF EvidenceInv, PendingEvidence
      <3> QED
          BY <2>1, <2>2, <2>3, <2>7, <2>8, <3>1 DEF TableInv, RowExplained
    <2>9. CASE ~completes
      <3>1. ~runs[r].manifest
          BY <2>2, <2>4 DEF RowExplained
      <3>2. row.status # "completed" /\ ~row.manifest /\ manifests' = manifests
          BY <2>1, <2>3, <2>5, <2>9, <3>1
      <3>3. row.status = "failed" => row.diagnosticIDs \subseteq diagnostics'[r]
          BY <2>1, <2>3, <2>6, <2>9 DEF EvidenceInv, PendingEvidence
      <3> QED
          BY <2>1, <2>2, <2>3, <2>4, <2>7, <3>2, <3>3 DEF TableInv, RowExplained
    <2> QED
        BY <2>8, <2>9
  <1> QED
      BY <1>2, <1>3

\* A binding counts as a version and leaves the rest of the row.
LEMMA BindExplained ==
    ASSUME TypeOK, NEW q \in Runs, NEW product \in Products, NEW expected \in 1..MaxVersion,
           BindProduct(q, product, expected),
           NEW r \in Runs, TableInv(r), planProducts \subseteq planProducts'
    PROVE  TableInv(r)'
  <1>1. CASE r # q
    <2>1. Untouched(r)
        BY <1>1 DEF BindProduct, insertOutbox, Untouched, TypeOK
    <2> QED
        BY <2>1, UntouchedStays
  <1>2. CASE r = q
    <2>1. Exists(r) /\ runs[r] \in Row
        BY <1>2, ExistingRow DEF BindProduct
    <2> DEFINE row == [runs[r] EXCEPT !.product = product, !.version = @ + 1]
    <2>2. /\ runs[r].product = NoProduct
          /\ runs'[r] = row
          /\ outbox'[r] = outbox[r] + 1
          /\ UNCHANGED <<manifests, diagnostics>>
        BY <1>2 DEF BindProduct, insertOutbox, TypeOK
    <2>3. /\ row.status = runs[r].status
          /\ row.manifest = runs[r].manifest
          /\ row.diagnosticIDs = runs[r].diagnosticIDs
          /\ row.version = runs[r].version + 1
        BY <2>1 DEF Row
    <2>4. RowExplained(r)
        BY <2>1 DEF TableInv
    <2>5. row \in Row
        BY <2>1, BoundRowType
    <2>6. Exists(r)'
        BY <2>2, <2>5, NoRecordAssumption DEF Exists
    <2> HIDE DEF row
    <2> QED
        BY <2>2, <2>3, <2>4, <2>6 DEF TableInv, RowExplained
  <1> QED
      BY <1>1, <1>2

\* Every step keeps the tables in agreement.
LEMMA TablesStep ==
    ASSUME TypeOK, PendingInv, PlanInv, EvidenceInv, TablesAgree, [Next]_vars
    PROVE  TablesAgree'
  <1> SUFFICES ASSUME NEW r \in Runs
               PROVE  TableInv(r)'
      BY DEF TablesAgree, TableInv
  <1>0. TableInv(r) /\ planProducts \subseteq planProducts'
      BY PlanStep DEF TablesAgree, TableInv
  <1>1. ASSUME UNCHANGED <<runs, diagnostics, manifests, outbox>>
        PROVE  TableInv(r)'
      BY <1>0, <1>1, UntouchedStays DEF Untouched
  <1>2. ASSUME NEW key \in Keys, NEW target \in Targets, StartAssembly(key, target)
        PROVE  TableInv(r)'
    <2>1. CASE ReplaysIdempotency(NoRun, key, target)
        BY <1>1, <2>1 DEF ReplaysIdempotency
    <2>2. ASSUME NEW q \in Runs, NEW product \in planProducts,
                 InsertRun(q, NewRow(q, NoRun, 1, product), NoRun, key, target)
          PROVE  TableInv(r)'
      <3>0. product \in Products \union {NoProduct} /\ 1 \in Nat \ {0}
          BY DEF TypeOK
      <3>1. NewRow(q, NoRun, 1, product) # NoRecord
          BY <3>0, NewRowType, NoRecordAssumption
      <3> QED
          BY <1>0, <2>2, <3>1, InsertExplained
    <2> QED
        BY <1>2, <2>1, <2>2 DEF StartAssembly
  <1>3. ASSUME NEW c \in Callers, RetryRunCommit(c)
        PROVE  TableInv(r)'
    <2> DEFINE root == call[c].base.root
               n == call[c].base.attemptNumber + 1
               product == RetryProduct(call[c].base)
    <2>1. CASE ReplaysIdempotency(call[c].run, call[c].key, call[c].expected)
        BY <1>1, <2>1 DEF ReplaysIdempotency
    <2>2. ASSUME NEW q \in Runs,
                 InsertRun(q, NewRow(root, call[c].run, n, product),
                           call[c].run, call[c].key, call[c].expected)
          PROVE  TableInv(r)'
      <3>1. /\ root \in Runs
            /\ n \in Nat \ {0}
            /\ product \in Products \union {NoProduct}
            /\ call[c].run \in Runs
          BY <1>3, PendingKind DEF RetryRunCommit, Retries, Row, RetryProduct
      <3> HIDE DEF root, n, product
      <3>2. NewRow(root, call[c].run, n, product) # NoRecord
          BY <3>1, NewRowType, NoRecordAssumption
      <3> QED
          BY <1>0, <2>2, <3>2, InsertExplained
    <2> QED
        BY <1>3, <2>1, <2>2 DEF RetryRunCommit
  <1> QED
      BY <1>0, <1>1, <1>2, <1>3, BindExplained, CommitExplained
         DEF Next, RetryRun, UpdateRun, CompleteAssembly, CallFails, vars

-----------------------------------------------------------------------------
(* The theorems.                                                           *)

ExplainedInv == PlanInv /\ EvidenceInv /\ TablesAgree

\* Rows, manifests, diagnostics, events and pending calls agree in every state.
THEOREM ExplainedCorrect == Spec => []ExplainedInv
  <1>1. Init => ExplainedInv
      BY DEF Init, ExplainedInv, PlanInv, EvidenceInv, PendingEvidence, Idle, TablesAgree,
             RowAbsent, Exists
  <1>2. TypeOK /\ PendingInv /\ ExplainedInv /\ [Next]_vars => ExplainedInv'
      BY PlanStep, EvidenceStep, TablesStep DEF ExplainedInv
  <1> QED
      BY <1>1, <1>2, TypeCorrect, PendingCorrect, PTL DEF Spec

\* A run is completed exactly if its manifest and lock exist, and then it has a
\* product, whichever of the two ways it was written.
THEOREM CompletedRunsHaveManifests == Spec => []CompletedHasManifest
  <1>1. ExplainedInv => CompletedHasManifest
      BY DEF ExplainedInv, TablesAgree, RowExplained, CompletedHasManifest, ExistingRuns
  <1> QED
      BY <1>1, ExplainedCorrect, PTL

\* Every diagnostic that a failed run names has a row.
THEOREM FailuresAreExplained == Spec => []FailureExplained
  <1>1. ExplainedInv => FailureExplained
      BY DEF ExplainedInv, TablesAgree, RowExplained, FailureExplained, ExistingRuns
  <1> QED
      BY <1>1, ExplainedCorrect, PTL

\* All completed runs of a plan are of one product, also those that started
\* before it had any.
THEOREM PlansCompleteOneProduct == Spec => []PlanCompletesOneProduct
  <1>1. TypeOK /\ ExplainedInv => PlanCompletesOneProduct
    <2> SUFFICES ASSUME TypeOK, ExplainedInv, NEW r \in manifests, NEW s \in manifests
                 PROVE  runs[r].product = runs[s].product
        BY DEF PlanCompletesOneProduct
    <2>1. \A q \in manifests : q \in Runs /\ runs[q].product \in planProducts \ {NoProduct}
        BY DEF TypeOK, ExplainedInv, TablesAgree, RowExplained, RowAbsent
    <2> QED
        BY <2>1 DEF ExplainedInv, PlanInv
  <1> QED
      BY <1>1, TypeCorrect, ExplainedCorrect, PTL

\* A key of one scope is answered with one run, whatever its requests did.
THEOREM KeysHaveOneRun == Spec => []OneRunPerKey
  <1>1. Init => KeyInv
      BY DEF Init, KeyInv
  <1>2. TypeOK /\ KeyInv /\ [Next]_vars => KeyInv'
    <2> SUFFICES ASSUME TypeOK, KeyInv, [Next]_vars
                 PROVE  KeyInv'
        OBVIOUS
    <2>1. ASSUME NEW scope \in Scopes, NEW key \in Keys, NEW digest,
                 ReplaysIdempotency(scope, key, digest)
          PROVE  KeyInv'
        BY <2>1 DEF ReplaysIdempotency, KeyInv, TypeOK
    <2>2. ASSUME NEW r \in Runs, NEW row, NEW scope \in Scopes, NEW key \in Keys,
                 NEW digest \in Targets \union Nat, InsertRun(r, row, scope, key, digest)
          PROVE  KeyInv'
      <3> DEFINE record == [digest |-> digest, run |-> r]
      <3>1. record # NoRecord /\ record.run = r
          BY NoRecordAssumption DEF IdemRecord
      <3>2. idem' = [idem EXCEPT ![<<scope, key>>] = record]
          BY <2>2 DEF InsertRun
      <3>3. /\ idem[<<scope, key>>] = NoRecord
            /\ answers' = [answers EXCEPT ![<<scope, key>>] = @ \union {r}]
          BY <2>2 DEF InsertRun, KeyUnused
      <3> HIDE DEF record
      <3> QED
          BY <3>1, <3>2, <3>3 DEF KeyInv, TypeOK
    <2>3. ASSUME NEW key \in Keys, NEW target \in Targets, StartAssembly(key, target)
          PROVE  KeyInv'
      <3>1. NoRun \in Scopes
          BY DEF Scopes
      <3> QED
          BY <2>1, <2>2, <2>3, <3>1 DEF StartAssembly
    <2>4. ASSUME NEW c \in Callers, RetryRunCommit(c)
          PROVE  KeyInv'
      <3>1. call[c].run \in Scopes /\ call[c].key \in Keys /\ call[c].expected \in Nat
          BY <2>4, PendingKind DEF RetryRunCommit, Retries, Scopes
      <3> QED
          BY <2>1, <2>2, <2>4, <3>1 DEF RetryRunCommit
    <2>5. ASSUME UNCHANGED <<idem, answers>>
          PROVE  KeyInv'
        BY <2>5 DEF KeyInv
    <2> QED
        BY <2>3, <2>4, <2>5
           DEF Next, RetryRun, UpdateRun, CompleteAssembly, BindProduct, UpdateRunCommit, CallFails, vars
  <1>3. KeyInv => OneRunPerKey
    <2> SUFFICES ASSUME KeyInv, NEW e \in Scopes \X Keys, NEW a \in answers[e], NEW b \in answers[e]
                 PROVE  a = b
        BY DEF OneRunPerKey
    <2> QED
        BY DEF KeyInv
  <1> QED
      BY <1>1, <1>2, <1>3, TypeCorrect, PTL DEF Spec

\* Each version of a run has its audit event, and no other event is queued.
THEOREM VersionsHaveEvents == Spec => []EventPerVersion
  <1>1. ExplainedInv => EventPerVersion
      BY DEF ExplainedInv, TablesAgree, RowExplained, RowAbsent, EventPerVersion
  <1> QED
      BY <1>1, ExplainedCorrect, PTL
=============================================================================
