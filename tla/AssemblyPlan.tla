---------------------------- MODULE AssemblyPlan ----------------------------
(***************************************************************************)
(* Starting the assembly of one plan: the route adapter confirms the plan  *)
(* and then starts a run, each in a transaction of its own, and a client   *)
(* that gets no answer repeats its request under the same idempotency key. *)
(*                                                                         *)
(* The plan is executable and every request carries its checksums: a       *)
(* request that does not is refused before anything is written.            *)
(* MaxFaults bounds the requests that end without an answer.               *)
(***************************************************************************)
EXTENDS Integers

CONSTANTS Clients,  \* requests, each repeated until it is answered or refused
          Keys,     \* idempotency keys, each of one administrator
          Targets,  \* output target references
          Runs,     \* run identifiers
          KeyOf, TargetOf, ExpectedOf,  \* what each client's request carries
          None, MaxFaults

ASSUME PlanAssumption ==
    /\ KeyOf \in [Clients -> Keys]
    /\ TargetOf \in [Clients -> Targets]
    /\ ExpectedOf \in [Clients -> Nat \ {0}]
    /\ MaxFaults \in Nat
    /\ None \notin Nat \union Runs

ASSUME AbsentAssumption ==
    None \notin [target: Targets, version: Nat, run: Runs]
                   \union [key: Keys, target: Targets, version: Nat]

VARIABLES plan,          \* assembly_plans: version and whether confirmed_at is set
          confirmations, \* per key, the idempotency record of a confirmation
          starts,        \* per key, the idempotency record of a start
          runs,          \* assembly_runs of the plan, each with its dispatch row
          request,       \* what each client's request is about to do
          faults

vars == <<plan, confirmations, starts, runs, request, faults>>

At(pc, version, run) == [pc |-> pc, version |-> version, run |-> run]

TypeOK ==
    /\ plan \in [version: {1, 2}, confirmed: BOOLEAN]
    /\ confirmations \in [Keys -> [expected: Nat, version: Nat] \union {None}]
    /\ starts \in [Keys -> [target: Targets, version: Nat, run: Runs] \union {None}]
    /\ runs \in [Runs -> [key: Keys, target: Targets, version: Nat] \union {None}]
    /\ request \in [Clients -> [pc: {"idle", "confirm", "start", "insert", "answer", "done", "refused"},
                                version: Nat, run: Runs \union {None}]]
    /\ faults \in 0..MaxFaults

Init ==
    /\ plan = [version |-> 1, confirmed |-> FALSE]
    /\ confirmations = [k \in Keys |-> None]
    /\ starts = [k \in Keys |-> None]
    /\ runs = [r \in Runs |-> None]
    /\ request = [c \in Clients |-> At("idle", 0, None)]
    /\ faults = 0

Goes(c, to) == request' = [request EXCEPT ![c] = to]

Refused == At("refused", 0, None)

\* The plan is the one that the client's confirmation made.  Instead: the version
\* is still the one the client expects.
ConfirmedInPlace(c) == plan.version = ExpectedOf[c] /\ plan.confirmed
AlreadyConfirmed(c) == plan.version = ExpectedOf[c] + 1 /\ plan.confirmed

\* The adapter reads the plan and decides whether it is to be confirmed.
Submit(c) ==
    /\ request[c].pc = "idle"
    /\ Goes(c, IF plan.version = ExpectedOf[c] THEN At("confirm", 0, None)
               ELSE IF AlreadyConfirmed(c)
                    THEN At("start", plan.version, None)
                    ELSE Refused)
    /\ UNCHANGED <<plan, confirmations, starts, runs, faults>>

\* The row of a confirmed plan.  Instead: confirming again is a change too.
ReconfirmedPlan == [version |-> plan.version + 1, confirmed |-> TRUE]
ConfirmedPlan ==
    [version |-> IF plan.confirmed THEN plan.version ELSE plan.version + 1, confirmed |-> TRUE]

\* repository.ConfirmPlan: a used key is answered with the recorded plan or
\* refused; otherwise the version is compared under the row lock, and an
\* unconfirmed plan is confirmed.
ConfirmPlan(c) ==
    /\ request[c].pc = "confirm"
    /\ LET key == KeyOf[c]
       IN  IF confirmations[key] # None
           THEN /\ Goes(c, IF confirmations[key].expected = ExpectedOf[c]
                           THEN At("start", confirmations[key].version, None) ELSE Refused)
                /\ UNCHANGED <<plan, confirmations>>
           ELSE IF plan.version # ExpectedOf[c]
           THEN Goes(c, Refused) /\ UNCHANGED <<plan, confirmations>>
           ELSE /\ plan' = ConfirmedPlan
                /\ confirmations' = [confirmations EXCEPT ![key] =
                      [expected |-> ExpectedOf[c], version |-> ConfirmedPlan.version]]
                /\ Goes(c, At("start", ConfirmedPlan.version, None))
    /\ UNCHANGED <<starts, runs, faults>>

\* core.StartAssembly reads the plan and checks it.
StartAssembly(c) ==
    /\ request[c].pc = "start"
    /\ Goes(c, IF plan.version = request[c].version /\ plan.confirmed
               THEN [request[c] EXCEPT !.pc = "insert"] ELSE Refused)
    /\ UNCHANGED <<plan, confirmations, starts, runs, faults>>

\* The record of the key is that of the same request.  Instead: the target is
\* not part of the digest.
SameVersion(c, record) == record.version = request[c].version
SameStart(c, record) == record.version = request[c].version /\ record.target = TargetOf[c]

\* repository.StartRun.
StartRun(c) ==
    /\ request[c].pc = "insert"
    /\ LET key == KeyOf[c]
       IN  IF starts[key] # None
           THEN /\ Goes(c, IF SameStart(c, starts[key])
                           THEN At("answer", 0, starts[key].run) ELSE Refused)
                /\ UNCHANGED <<starts, runs>>
           ELSE \E r \in Runs :
                /\ runs[r] = None
                /\ runs' = [runs EXCEPT ![r] =
                      [key |-> key, target |-> TargetOf[c], version |-> request[c].version]]
                /\ starts' = [starts EXCEPT ![key] =
                      [target |-> TargetOf[c], version |-> request[c].version, run |-> r]]
                /\ Goes(c, At("answer", 0, r))
    /\ UNCHANGED <<plan, confirmations, faults>>

\* The answer arrives.
Answer(c) ==
    /\ request[c].pc = "answer"
    /\ Goes(c, [request[c] EXCEPT !.pc = "done"])
    /\ UNCHANGED <<plan, confirmations, starts, runs, faults>>

\* The request ends without an answer, at whatever point: a cancelled or
\* crashed server, a lost connection, ErrOperationInProgress.  The client
\* repeats it.
Lost(c) ==
    /\ request[c].pc \in {"confirm", "start", "insert", "answer"}
    /\ faults < MaxFaults
    /\ faults' = faults + 1
    /\ Goes(c, At("idle", 0, None))
    /\ UNCHANGED <<plan, confirmations, starts, runs>>

Proceed(c) == Submit(c) \/ ConfirmPlan(c) \/ StartAssembly(c) \/ StartRun(c) \/ Answer(c)

Next == \E c \in Clients : Proceed(c) \/ Lost(c)

Spec == Init /\ [][Next]_vars

\* A client repeats its request and a request proceeds.
FairSpec == Spec /\ \A c \in Clients : WF_vars(Proceed(c))

-----------------------------------------------------------------------------
\* A run starts only a confirmed plan, at the version that was confirmed, and
\* no request changes the plan after that.  (ConfirmPlan with a late key,
\* reject_plan_contract_update)
RunsOfConfirmedPlan ==
    \A r \in Runs : runs[r] # None => plan.confirmed /\ runs[r].version = plan.version

\* What a client is told is the one run of its key, and it is the run for the
\* output target the client named.  (reserveIdempotency, StartRun)
AnswersAgree ==
    \A c \in Clients : request[c].pc \in {"answer", "done"} =>
        LET r == request[c].run
        IN  /\ runs[r] # None
            /\ runs[r].target = TargetOf[c]
            /\ \A s \in Runs : (runs[s] # None /\ runs[s].key = KeyOf[c]) => s = r

\* A confirmation whose answer was lost is made good: the repeated request
\* starts from the confirmed plan, although its expected version is past.
\* (the adapter's second branch)
ConfirmedKeyGetsRun ==
    \A k \in Keys : confirmations[k] # None ~> starts[k] # None

\* A plan is confirmed together with its run and dispatch.  (contract.md on
\* durable dispatch; the adapter uses two transactions)
ConfirmedHasRun == plan.confirmed => \E r \in Runs : runs[r] # None
=============================================================================
