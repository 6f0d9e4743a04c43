---------------------------- MODULE RunEvolution ----------------------------
(***************************************************************************)
(* The rules by which a persisted Assembly Run may change.  They exist     *)
(* twice in the program: in the assembly core (validateRunEvolution and    *)
(* the tables it uses) and in the triggers of migration 000012, which the  *)
(* database applies to every UPDATE whoever issues it.  The two differ,    *)
(* and a change is persisted only if both accept it.                       *)
(*                                                                         *)
(* A timestamp is a natural number of clock readings, NoTime when absent.  *)
(* SubTicks readings fall into one microsecond: Go's clock reads           *)
(* nanoseconds and the timestamptz column keeps microseconds.              *)
(***************************************************************************)
EXTENDS Integers

CONSTANT SubTicks

ASSUME SubTicksAssumption == SubTicks \in Nat \ {0}

NoTime == 0

\* The empty product_id of a run that is not yet bound to a product.
NoProduct == "none"

RunStatuses == {"planned", "provisioning", "generating", "validating",
                "completed", "failed", "rolling_back", "rolled_back"}

TerminalStatuses == {"completed", "failed", "rolled_back"}

StepStatuses == {"pending", "running", "completed", "failed", "compensated", "skipped"}

CompensationStatuses == {"not_required", "pending", "completed", "failed"}

\* core.RunStep without its identity (step_id and kind index the function).
Step == [status: StepStatuses, attempt: Nat, compensation: CompensationStatuses,
         startedAt: Nat, finishedAt: Nat]

-----------------------------------------------------------------------------
(* The assembly core.                                                      *)

validTransition(current, next) ==
    \/ current = next /\ current \notin {"completed", "rolled_back"}
    \/ next \in CASE current = "planned"      -> {"provisioning", "failed"}
                  [] current = "provisioning" -> {"generating", "failed"}
                  [] current = "generating"   -> {"validating", "failed"}
                  [] current = "validating"   -> {"completed", "failed"}
                  [] current = "failed"       -> {"provisioning", "rolling_back"}
                  [] current = "rolling_back" -> {"rolled_back", "failed"}
                  [] OTHER                    -> {}

validStepTransition(current, next) ==
    IF current = next
    THEN current \notin {"completed", "compensated", "skipped"}
    ELSE next \in CASE current = "pending"   -> {"running", "completed", "failed", "skipped"}
                    [] current = "running"   -> {"completed", "failed"}
                    [] current = "failed"    -> {"running", "compensated"}
                    [] current = "completed" -> {"compensated"}
                    [] OTHER                 -> {}

validCompensationTransition(current, next) ==
    \/ current = next
    \/ current = "pending" /\ next \in {"completed", "failed"}
    \/ current = "failed"  /\ next \in {"pending", "completed"}

stableTime(current, next) == current = NoTime \/ next = current

\* The body of validateRunEvolution's loop over the steps.
validStepEvolution(before, after) ==
    /\ after.attempt >= before.attempt
    /\ validStepTransition(before.status, after.status)
    /\ stableTime(before.startedAt, after.startedAt)
    /\ stableTime(before.finishedAt, after.finishedAt)
    /\ validCompensationTransition(before.compensation, after.compensation)
    /\ after.status \notin {"pending", "skipped"} => after.attempt >= 1
    /\ (after.startedAt # NoTime /\ after.finishedAt # NoTime)
            => after.finishedAt >= after.startedAt

\* current is a stored run, next a run document.  The identity fields of the
\* document are those of the run: a document that changes them is rejected,
\* and no state keeps it.
validateRunEvolution(current, next) ==
    /\ validTransition(current.status, next.status)
    /\ (next.status \in TerminalStatuses) <=> next.completedAt
    /\ \A s \in DOMAIN current.steps :
            validStepEvolution(current.steps[s], next.steps[s])

-----------------------------------------------------------------------------
(* The database.                                                           *)

\* The value a timestamptz column keeps of a time.
Stored(t) == SubTicks * (t \div SubTicks)

StoredStep(step) == [step EXCEPT !.startedAt = Stored(@), !.finishedAt = Stored(@)]

\* assembly.reject_run_step_update lets the row change from old to new.
stepStatusMayChange(old, new) ==
    \/ new.status = old.status
    \/ old.status = "pending" /\ new.status # "pending"
    \/ old.status = "running"
         /\ new.status \in {"completed", "failed", "compensated", "skipped"}
    \/ old.status \in {"completed", "failed"} /\ new.status = "compensated"

stepRowMayChange(old, new) ==
    /\ new.attempt >= old.attempt
    /\ stableTime(old.startedAt, new.startedAt)
    /\ stableTime(old.finishedAt, new.finishedAt)
    /\ stepStatusMayChange(old, new)
    /\ \/ new.compensation = old.compensation
       \/ old.compensation = "not_required"
       \/ old.compensation = "pending" /\ new.compensation \in {"completed", "failed"}

\* Instead: a failed run may go on, as in the core.  (Here and in other modules, a
\* definition marked `instead' is a variant that the properties must tell from the
\* code; nothing uses it.)
runStatusFollowsCore(old, new) == validTransition(old.status, new.status)

runStatusMayChange(old, new) ==
    /\ old.status \notin TerminalStatuses
    /\ \/ new.status = old.status
       \/ old.status = "planned"      /\ new.status \in {"provisioning", "failed"}
       \/ old.status = "provisioning" /\ new.status \in {"generating", "failed", "rolling_back"}
       \/ old.status = "generating"   /\ new.status \in {"validating", "failed", "rolling_back"}
       \/ old.status = "validating"   /\ new.status \in {"completed", "failed", "rolling_back"}
       \/ old.status = "rolling_back" /\ new.status \in {"rolled_back", "failed"}

\* Instead: a completed run may lack its manifest.
manifestMayLack(old, new) == old.manifest => new.manifest

manifestMayChange(old, new) ==
    /\ old.manifest => new.manifest
    /\ new.status = "completed" => new.manifest

\* assembly.reject_run_contract_update lets the row change from old to new.
\* The strict growth of updated_at is left to the writer's clock: a write that
\* fails for it is one of the failures a writer must expect of any statement.
runRowMayChange(old, new) ==
    /\ new.version = old.version + 1
    /\ old.product # new.product => old.product = NoProduct
    /\ manifestMayChange(old, new)
    /\ new.completedAt <=> new.status \in TerminalStatuses
    /\ runStatusMayChange(old, new)
    /\ \A s \in DOMAIN old.steps : stepRowMayChange(old.steps[s], new.steps[s])
=============================================================================
