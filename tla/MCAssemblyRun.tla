--------------------------- MODULE MCAssemblyRun ---------------------------
(***************************************************************************)
(* A small instance of AssemblyRun: two steps, the documents built from a  *)
(* few step records, among them a failed step that is run again and keeps  *)
(* its times.  The times 2 and 3 fall into one stored microsecond.         *)
(***************************************************************************)
EXTENDS AssemblyRun, FiniteSets, TLC

MCSteps == {"generate", "validate"}

StepAs(status, attempt, compensation, started, finished) ==
    [status |-> status, attempt |-> attempt, compensation |-> compensation,
     startedAt |-> started, finishedAt |-> finished]

MCStepRecords(s) ==
    IF s = "generate"
    THEN {StepAs("pending", 0, "pending", 0, 0), StepAs("running", 1, "pending", 2, 0),
          StepAs("running", 1, "pending", 3, 0), StepAs("completed", 1, "pending", 2, 4),
          StepAs("running", 2, "pending", 2, 4),
          StepAs("failed", 1, "pending", 2, 4), StepAs("compensated", 1, "completed", 2, 4)}
    ELSE {StepAs("pending", 0, "not_required", 0, 0), StepAs("completed", 1, "not_required", 4, 4),
          StepAs("failed", 1, "not_required", 4, 4)}

\* Documents with a consistent completion time.
Doc(status, generate, validate, retryable, rollbackRequired, ids) ==
    [status |-> status, steps |-> [s \in MCSteps |-> IF s = "generate" THEN generate ELSE validate],
     completedAt |-> status \in TerminalStatuses, retryable |-> retryable,
     rollbackRequired |-> rollbackRequired, diagnosticIDs |-> ids]

\* The statuses of a run, its generate step and its validate step in the
\* documents; a failure leaves open what can be recovered.
MCStages == {<<"generating", "failed", "pending">>,
             <<"provisioning", "running", "pending">>, <<"generating", "running", "pending">>,
             <<"validating", "running", "pending">>, <<"validating", "completed", "pending">>,
             <<"completed", "completed", "completed">>, <<"completed", "compensated", "completed">>,
             <<"rolling_back", "compensated", "pending">>}

MCProgressDocuments ==
    UNION {{Doc(stage[1], g, v, TRUE, FALSE, {}) :
              g \in {step \in MCStepRecords("generate") :
                        /\ step.status = stage[2]
                        /\ step.attempt = 2 \/ step.startedAt = 3 => stage[1] = "generating"},
              v \in {step \in MCStepRecords("validate") : step.status = stage[3]}} :
           stage \in MCStages}

\* Failures that a retry may follow, and failures with files left behind.
MCFailureDocuments ==
    {Doc("failed", g, StepAs("pending", 0, "not_required", 0, 0), r, ~r, Diagnostics) :
        g \in {step \in MCStepRecords("generate") : step.status = "failed"}, r \in BOOLEAN}

MCDocuments == MCProgressDocuments \union MCFailureDocuments

\* One way to completion: the generate step runs until the run is completed.
StraightDocuments ==
    {d \in MCProgressDocuments :
        /\ d.status \in {"provisioning", "generating", "validating", "completed"}
        /\ d.steps["generate"].startedAt = 2
        /\ d.steps["generate"].attempt = 1
        /\ d.steps["generate"].status = IF d.completedAt THEN "completed" ELSE "running"
        /\ d.steps["validate"].status = IF d.completedAt THEN "completed" ELSE "pending"}

-----------------------------------------------------------------------------
(* One run goes through all its documents, with two callers at a time in   *)
(* its first versions; or one is tried again and again by two callers; or  *)
(* two are bound to products in any order and go straight to completion    *)
(* one after the other.                                                    *)

Bound == (planProducts \union {runs[r].product : r \in ExistingRuns}) \ {NoProduct}
Submitted == {call[c].doc : c \in {c \in Callers : call[c].op \in {"update", "complete"}}}
Expected == \A c \in Callers : call[c] # Idle => call[c].expected = call[c].base.version

\* At most one caller is between its read and its transaction.
OneCalls == \E c \in Callers : \A other \in Callers \ {c} : call[other] = Idle

Alone ==
    /\ ExistingRuns \subseteq {1}
    /\ \A r \in ExistingRuns : runs[r].version <= 4 \/ (runs[r].version <= 5 /\ OneCalls)
    /\ \A c \in Callers : call[c].op # "retry"
    /\ Bound \subseteq {"p1"}

Retried ==
    /\ Expected
    /\ Cardinality({r \in ExistingRuns : runs[r].retryOf = NoRun}) <= 1
    /\ Bound \subseteq {"p1"}
    /\ Submitted \subseteq MCFailureDocuments
    /\ \A r \in ExistingRuns : runs[r].status \in {"planned", "failed"} /\ runs[r].version <= 2

Straight ==
    /\ Expected
    /\ Cardinality(ExistingRuns) <= 2
    /\ \A r \in ExistingRuns : runs[r].status # "failed"
    /\ Cardinality({r \in ExistingRuns : runs[r].status \notin {"planned", "completed"}}) <= 1
    /\ Submitted \subseteq StraightDocuments
    /\ OneCalls

\* The runs are numbered in their order.
InOrder == ExistingRuns = 1..Cardinality(ExistingRuns)

AloneRetriedOrStraight == InOrder /\ (Alone \/ Retried \/ Straight)

MCSymmetry == Permutations(Callers) \union Permutations(Keys)
=============================================================================
