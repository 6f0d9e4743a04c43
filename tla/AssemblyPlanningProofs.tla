------------------------ MODULE AssemblyPlanningProofs ------------------------
(***************************************************************************)
(* Safety of starting a plan, for any number of clients, keys and runs;    *)
(* drafting adds nothing to what starting may do, and designers are told   *)
(* the truth, for any catalogs, designers and losses.                      *)
(***************************************************************************)
EXTENDS AssemblyPlanning, TLAPS

Confirmation == [expected: Nat, version: Nat]
Start == [target: Targets, version: Nat, run: Runs]
PlanRun == [key: Keys, target: Targets, version: Nat]

Request == [pc: {"idle", "confirm", "start", "insert", "answer", "done", "refused"},
            version: Nat, run: Runs \union {None}]

(* The inductive invariant: a plan is confirmed once, at version 2; what a *)
(* request is about to insert is for that version; starts and runs name    *)
(* each other; an answer is the run of the start of its key.               *)

ConfirmedOnce == plan.confirmed <=> plan.version = 2

Inserting(c) == request[c].pc = "insert" => plan.confirmed /\ request[c].version = plan.version

StartsHaveRuns ==
    \A k \in Keys : starts[k] # None =>
        /\ runs[starts[k].run] # None
        /\ runs[starts[k].run].key = k
        /\ runs[starts[k].run].target = starts[k].target

RunsHaveStarts ==
    \A r \in Runs : runs[r] # None =>
        starts[runs[r].key] # None /\ starts[runs[r].key].run = r

Answered(c) ==
    request[c].pc \in {"answer", "done"} =>
        /\ starts[KeyOf[c]] # None
        /\ starts[KeyOf[c]].run = request[c].run
        /\ starts[KeyOf[c]].target = TargetOf[c]

IInv ==
    /\ TypeOK
    /\ ConfirmedOnce
    /\ \A c \in Clients : Inserting(c) /\ Answered(c)
    /\ RunsOfConfirmedPlan
    /\ StartsHaveRuns
    /\ RunsHaveStarts

\* What a client's request carries has the types of the constants.
LEMMA Carried ==
    ASSUME NEW c \in Clients
    PROVE  KeyOf[c] \in Keys /\ TargetOf[c] \in Targets /\ ExpectedOf[c] \in Nat \ {0}
  BY PlanAssumption

\* Positions without a run are requests.
LEMMA Positions ==
    /\ Refused \in Request /\ Refused.pc = "refused"
    /\ \A pc \in {"idle", "confirm", "start"}, v \in Nat :
          At(pc, v, None) \in Request /\ At(pc, v, None).pc = pc
  BY DEF Refused, At, Request

\* A step that moves one client to a harmless position, and leaves the tables
\* as they are, keeps the invariant.
LEMMA MovedOn ==
    ASSUME IInv, NEW c \in Clients, NEW to \in Request, Goes(c, to),
           to.pc \notin {"insert", "answer", "done"},
           UNCHANGED <<plan, starts, runs>>,
           confirmations' \in [Keys -> Confirmation \union {None}], faults' \in 0..MaxFaults
    PROVE  IInv'
  <1>1. request' = [request EXCEPT ![c] = to] /\ request \in [Clients -> Request]
      BY DEF Goes, IInv, TypeOK, Request
  <1>2. TypeOK'
      BY <1>1 DEF IInv, TypeOK, Request, Confirmation
  <1>3. \A d \in Clients : (Inserting(d) /\ Answered(d))'
      BY <1>1 DEF IInv, Inserting, Answered
  <1>4. ConfirmedOnce' /\ RunsOfConfirmedPlan' /\ StartsHaveRuns' /\ RunsHaveStarts'
      BY DEF IInv, ConfirmedOnce, RunsOfConfirmedPlan, StartsHaveRuns, RunsHaveStarts
  <1> QED
      BY <1>2, <1>3, <1>4 DEF IInv

\* Reading the plan.
LEMMA SubmitStep == ASSUME IInv, NEW c \in Clients, Submit(c) PROVE IInv'
  <1>1. plan.version \in Nat
      BY DEF IInv, TypeOK
  <1>2. PICK to \in Request : Goes(c, to) /\ to.pc \in {"confirm", "start", "refused"}
      BY <1>1, Positions DEF Submit
  <1>3. UNCHANGED <<plan, confirmations, starts, runs, faults>>
      BY DEF Submit
  <1> QED
      BY <1>2, <1>3, MovedOn DEF IInv, TypeOK, Confirmation

\* Confirming the plan: the first confirmation makes it version 2, before any
\* run exists; a later one changes nothing.
LEMMA ConfirmStep == ASSUME IInv, NEW c \in Clients, ConfirmPlan(c) PROVE IInv'
  <1> DEFINE key == KeyOf[c]
  <1>0. key \in Keys /\ plan.version \in {1, 2} /\ plan.confirmed \in BOOLEAN
      BY Carried DEF IInv, TypeOK
  <1>1. CASE confirmations[key] # None
    <2>1. confirmations[key].version \in Nat
        BY <1>0, <1>1 DEF IInv, TypeOK
    <2>2. PICK to \in Request : Goes(c, to) /\ to.pc \in {"start", "refused"}
        BY <1>1, <2>1, Positions DEF ConfirmPlan
    <2>3. UNCHANGED <<plan, confirmations, starts, runs, faults>>
        BY <1>1 DEF ConfirmPlan
    <2> QED
        BY <2>2, <2>3, MovedOn DEF IInv, TypeOK, Confirmation
  <1>2. CASE confirmations[key] = None /\ plan.version # ExpectedOf[c]
    <2>1. Goes(c, Refused) /\ UNCHANGED <<plan, confirmations, starts, runs, faults>>
        BY <1>2 DEF ConfirmPlan
    <2> QED
        BY <2>1, Positions, MovedOn DEF IInv, TypeOK, Confirmation
  <1>3. CASE confirmations[key] = None /\ plan.version = ExpectedOf[c]
    <2>1. /\ plan' = ConfirmedPlan
          /\ confirmations' = [confirmations EXCEPT ![key] =
                [expected |-> ExpectedOf[c], version |-> ConfirmedPlan.version]]
          /\ Goes(c, At("start", ConfirmedPlan.version, None))
          /\ UNCHANGED <<starts, runs, faults>>
        BY <1>3 DEF ConfirmPlan
    <2>2. ConfirmedPlan = [version |-> 2, confirmed |-> TRUE]
      <3>1. (IF plan.confirmed THEN plan.version ELSE plan.version + 1) = 2
        <4>1. CASE plan.confirmed
            BY <4>1 DEF IInv, ConfirmedOnce
        <4>2. CASE ~plan.confirmed
          <5>1. plan.version = 1
              BY <1>0, <4>2 DEF IInv, ConfirmedOnce
          <5> QED
              BY <4>2, <5>1
        <4> QED
            BY <4>1, <4>2
      <3> QED
          BY <3>1 DEF ConfirmedPlan
    <2>3. confirmations' \in [Keys -> Confirmation \union {None}]
      <3>1. [expected |-> ExpectedOf[c], version |-> ConfirmedPlan.version] \in Confirmation
          BY <2>2, Carried DEF Confirmation
      <3> QED
          BY <1>0, <2>1, <3>1 DEF IInv, TypeOK, Confirmation
    <2>4. At("start", ConfirmedPlan.version, None) \in Request
            /\ At("start", ConfirmedPlan.version, None).pc = "start"
        BY <2>2, Positions
    <2>5. CASE plan.confirmed
      <3>1. plan' = plan
        <4>1. plan = [version |-> 2, confirmed |-> TRUE]
            BY <2>5 DEF IInv, TypeOK, ConfirmedOnce
        <4> QED
            BY <2>1, <2>2, <4>1
      <3> QED
          BY <2>1, <2>3, <2>4, <3>1, MovedOn DEF IInv, TypeOK
    <2>6. CASE ~plan.confirmed
      <3>1. \A r \in Runs : runs[r] = None
          BY <2>6 DEF IInv, RunsOfConfirmedPlan
      <3>2. \A k \in Keys : starts[k] = None
        <4>1. \A k \in Keys : starts[k] # None => starts[k].run \in Runs
            BY DEF IInv, TypeOK
        <4> QED
            BY <3>1, <4>1 DEF IInv, StartsHaveRuns
      <3>3. \A d \in Clients : request'[d].pc \notin {"insert", "answer", "done"}
        <4>1. \A d \in Clients : request[d].pc \notin {"insert", "answer", "done"}
            BY <2>6, <3>2, Carried DEF IInv, Inserting, Answered
        <4> QED
            BY <2>1, <2>4, <4>1 DEF Goes, IInv, TypeOK
      <3>4. TypeOK'
        <4>1. request' \in [Clients -> Request]
            BY <2>1, <2>4 DEF Goes, IInv, TypeOK, Request
        <4>2. plan' \in [version: {1, 2}, confirmed: BOOLEAN]
            BY <2>1, <2>2
        <4> QED
            BY <2>1, <2>3, <4>1, <4>2 DEF IInv, TypeOK, Request, Confirmation
      <3>5. ConfirmedOnce'
          BY <2>1, <2>2 DEF ConfirmedOnce
      <3>6. RunsOfConfirmedPlan' /\ StartsHaveRuns' /\ RunsHaveStarts'
          BY <2>1, <3>1, <3>2 DEF RunsOfConfirmedPlan, StartsHaveRuns, RunsHaveStarts
      <3> QED
          BY <3>3, <3>4, <3>5, <3>6 DEF IInv, Inserting, Answered
    <2> QED
        BY <2>5, <2>6
  <1> QED
      BY <1>1, <1>2, <1>3

\* Checking the plan before the insertion.
LEMMA StartStep == ASSUME IInv, NEW c \in Clients, StartAssembly(c) PROVE IInv'
  <1> DEFINE good == plan.version = request[c].version /\ plan.confirmed
             to == IF good THEN [request[c] EXCEPT !.pc = "insert"] ELSE Refused
  <1>1. Goes(c, to) /\ UNCHANGED <<plan, confirmations, starts, runs, faults>>
      BY DEF StartAssembly
  <1>2. CASE ~good
    <2>1. Goes(c, Refused)
        BY <1>1, <1>2
    <2> QED
        BY <1>1, <2>1, Positions, MovedOn DEF IInv, TypeOK, Confirmation
  <1>3. CASE good
    <2>1. /\ request' = [request EXCEPT ![c] = [request[c] EXCEPT !.pc = "insert"]]
          /\ request \in [Clients -> Request]
        BY <1>1, <1>3 DEF Goes, IInv, TypeOK, Request
    <2>2. TypeOK'
        BY <1>1, <2>1 DEF IInv, TypeOK, Request
    <2>3. \A d \in Clients : (Inserting(d) /\ Answered(d))'
        BY <1>1, <1>3, <2>1 DEF IInv, Inserting, Answered, Request
    <2>4. ConfirmedOnce' /\ RunsOfConfirmedPlan' /\ StartsHaveRuns' /\ RunsHaveStarts'
        BY <1>1 DEF IInv, ConfirmedOnce, RunsOfConfirmedPlan, StartsHaveRuns, RunsHaveStarts
    <2> QED
        BY <2>2, <2>3, <2>4 DEF IInv
  <1> QED
      BY <1>2, <1>3

\* Inserting the run, or answering with the run of the key.
LEMMA InsertStep == ASSUME IInv, NEW c \in Clients, StartRun(c) PROVE IInv'
  <1> DEFINE key == KeyOf[c]
  <1>0. key \in Keys /\ TargetOf[c] \in Targets /\ request[c] \in Request
          /\ request[c].version \in Nat /\ request[c].pc = "insert"
      BY Carried DEF IInv, TypeOK, Request, StartRun
  <1>1. CASE starts[key] # None /\ ~SameStart(c, starts[key])
    <2>1. Goes(c, Refused) /\ UNCHANGED <<plan, confirmations, starts, runs, faults>>
        BY <1>1 DEF StartRun
    <2> QED
        BY <2>1, Positions, MovedOn DEF IInv, TypeOK, Confirmation
  <1>2. CASE starts[key] # None /\ SameStart(c, starts[key])
    <2>1. Goes(c, At("answer", 0, starts[key].run))
            /\ UNCHANGED <<plan, confirmations, starts, runs, faults>>
        BY <1>2 DEF StartRun
    <2>2. /\ request' = [request EXCEPT ![c] = At("answer", 0, starts[key].run)]
          /\ request \in [Clients -> Request]
        BY <2>1 DEF Goes, IInv, TypeOK, Request
    <2>3. starts[key].run \in Runs
        BY <1>0, <1>2 DEF IInv, TypeOK
    <2>4. TypeOK'
        BY <2>1, <2>2, <2>3 DEF IInv, TypeOK, Request, At
    <2>5. \A d \in Clients : (Inserting(d) /\ Answered(d))'
        BY <1>2, <2>1, <2>2 DEF IInv, Inserting, Answered, At, SameStart
    <2>6. ConfirmedOnce' /\ RunsOfConfirmedPlan' /\ StartsHaveRuns' /\ RunsHaveStarts'
        BY <2>1 DEF IInv, ConfirmedOnce, RunsOfConfirmedPlan, StartsHaveRuns, RunsHaveStarts
    <2> QED
        BY <2>4, <2>5, <2>6 DEF IInv
  <1>3. CASE starts[key] = None
    <2> DEFINE run == [key |-> key, target |-> TargetOf[c], version |-> request[c].version]
               start(r) == [target |-> TargetOf[c], version |-> request[c].version, run |-> r]
    <2>1. PICK r \in Runs :
            /\ runs[r] = None
            /\ runs' = [runs EXCEPT ![r] = run]
            /\ starts' = [starts EXCEPT ![key] = start(r)]
            /\ Goes(c, At("answer", 0, r))
        BY <1>3 DEF StartRun
    <2>2. UNCHANGED <<plan, confirmations, faults>>
        BY DEF StartRun
    <2>3. run \in PlanRun /\ start(r) \in Start
        BY <1>0 DEF PlanRun, Start
    <2>4. run # None /\ start(r) # None
        BY <2>3, AbsentAssumption DEF PlanRun, Start
    <2>5. /\ request' = [request EXCEPT ![c] = At("answer", 0, r)]
          /\ request \in [Clients -> Request]
          /\ starts \in [Keys -> Start \union {None}]
          /\ runs \in [Runs -> PlanRun \union {None}]
        BY <2>1 DEF Goes, IInv, TypeOK, Request, Start, PlanRun
    <2>6. TypeOK'
      <3>1. request' \in [Clients -> Request]
          BY <2>5 DEF Request, At
      <3> HIDE DEF run, start
      <3>2. starts' \in [Keys -> Start \union {None}] /\ runs' \in [Runs -> PlanRun \union {None}]
          BY <2>1, <2>3, <2>5
      <3> QED
          BY <2>2, <3>1, <3>2 DEF IInv, TypeOK, Request, Start, PlanRun
    <2>7. \A d \in Clients : (Inserting(d) /\ Answered(d))'
        BY <1>0, <1>3, <2>1, <2>2, <2>4, <2>5, Carried DEF IInv, Inserting, Answered, At
    <2>8. ConfirmedOnce'
        BY <2>2 DEF IInv, ConfirmedOnce
    <2>9. RunsOfConfirmedPlan'
        BY <1>0, <2>1, <2>2, <2>5 DEF IInv, RunsOfConfirmedPlan, Inserting
    <2>10. StartsHaveRuns'
        BY <1>0, <2>1, <2>4, <2>5 DEF IInv, StartsHaveRuns, Start
    <2>11. RunsHaveStarts'
        BY <1>0, <1>3, <2>1, <2>4, <2>5 DEF IInv, RunsHaveStarts, PlanRun
    <2> QED
        BY <2>6, <2>7, <2>8, <2>9, <2>10, <2>11 DEF IInv
  <1> QED
      BY <1>1, <1>2, <1>3

\* The answer arrives, or the request is lost.
LEMMA EndStep == ASSUME IInv, NEW c \in Clients, Answer(c) \/ Lost(c) PROVE IInv'
  <1>1. CASE Answer(c)
    <2>1. /\ request' = [request EXCEPT ![c] = [request[c] EXCEPT !.pc = "done"]]
          /\ request \in [Clients -> Request]
          /\ request[c].pc = "answer"
          /\ UNCHANGED <<plan, confirmations, starts, runs, faults>>
        BY <1>1 DEF Answer, Goes, IInv, TypeOK, Request
    <2>2. TypeOK'
        BY <2>1 DEF IInv, TypeOK, Request
    <2>3. \A d \in Clients : (Inserting(d) /\ Answered(d))'
        BY <2>1 DEF IInv, Inserting, Answered, Request
    <2>4. ConfirmedOnce' /\ RunsOfConfirmedPlan' /\ StartsHaveRuns' /\ RunsHaveStarts'
        BY <2>1 DEF IInv, ConfirmedOnce, RunsOfConfirmedPlan, StartsHaveRuns, RunsHaveStarts
    <2> QED
        BY <2>2, <2>3, <2>4 DEF IInv
  <1>2. CASE Lost(c)
    <2>1. Goes(c, At("idle", 0, None)) /\ UNCHANGED <<plan, confirmations, starts, runs>>
        BY <1>2 DEF Lost
    <2>2. faults' \in 0..MaxFaults
        BY <1>2, PlanAssumption DEF Lost, IInv, TypeOK
    <2> QED
        BY <2>1, <2>2, Positions, MovedOn DEF IInv, TypeOK, Confirmation
  <1> QED
      BY <1>1, <1>2

\* The invariant is inductive.
LEMMA IInvStep == IInv /\ [Next]_vars => IInv'
  <1> SUFFICES ASSUME IInv, [Next]_vars PROVE IInv'
      OBVIOUS
  <1>1. CASE UNCHANGED vars
      BY <1>1 DEF vars, IInv, TypeOK, ConfirmedOnce, Inserting, Answered,
                  RunsOfConfirmedPlan, StartsHaveRuns, RunsHaveStarts
  <1>2. ASSUME NEW c \in Clients, Proceed(c) \/ Lost(c) PROVE IInv'
      BY <1>2, SubmitStep, ConfirmStep, StartStep, InsertStep, EndStep DEF Proceed
  <1> QED
      BY <1>1, <1>2 DEF Next

\* It holds at first.
LEMMA IInvInit == Init => IInv
  <1> SUFFICES ASSUME Init PROVE IInv
      OBVIOUS
  <1>1. TypeOK
      BY PlanAssumption DEF Init, TypeOK, At
  <1> QED
      BY <1>1 DEF Init, IInv, At, ConfirmedOnce, Inserting, Answered,
                  RunsOfConfirmedPlan, StartsHaveRuns, RunsHaveStarts

\* Starting a plan keeps the invariant whatever requests are repeated or lost.
THEOREM PlanCorrect == Spec => []IInv
  BY IInvInit, IInvStep, PTL DEF Spec

\* Every run is one of a plan that was confirmed at the run's version.
THEOREM RunsAreOfConfirmedPlan == Spec => []RunsOfConfirmedPlan
  <1>1. IInv => RunsOfConfirmedPlan
      BY DEF IInv
  <1> QED
      BY <1>1, PlanCorrect, PTL

\* Repeated requests of one client are answered with its one run.
THEOREM AnswersAlwaysAgree == Spec => []AnswersAgree
  <1>1. IInv => AnswersAgree
    <2> SUFFICES ASSUME IInv, NEW c \in Clients, request[c].pc \in {"answer", "done"}
                 PROVE  LET r == request[c].run
                        IN  /\ runs[r] # None
                            /\ runs[r].target = TargetOf[c]
                            /\ \A s \in Runs : (runs[s] # None /\ runs[s].key = KeyOf[c]) => s = r
        BY DEF AnswersAgree
    <2>1. /\ starts[KeyOf[c]] # None
          /\ starts[KeyOf[c]].run = request[c].run
          /\ starts[KeyOf[c]].target = TargetOf[c]
        BY DEF IInv, Answered
    <2>2. KeyOf[c] \in Keys
        BY Carried
    <2> QED
        BY <2>1, <2>2 DEF IInv, StartsHaveRuns, RunsHaveStarts
  <1> QED
      BY <1>1, PlanCorrect, PTL

-----------------------------------------------------------------------------
(* Drafting and starting: a refinement.                                    *)

\* A step of drafting leaves the plan, its records, runs and requests alone.
LEMMA StepStarts == [PlanningNext]_allVars => [Next]_vars
  BY DEF PlanningNext, CreateBlueprint, OpenBlueprint, CreatePlan, LoseDraft, Restart, PlanStep,
         allVars

\* Planning with starting implements starting alone: what AssemblyPlan promises
\* of one plan is true of a plan that designers made, whatever they do meanwhile.
THEOREM PlanningStarts == PlanningSpec => Spec
  <1>1. InitPlanning => Init
      BY DEF InitPlanning
  <1> QED
      BY <1>1, StepStarts, PTL DEF PlanningSpec, Spec

\* Runs exist only of the confirmed plan, also while designers make others.
THEOREM PlannedRunsAreConfirmed == PlanningSpec => []RunsOfConfirmedPlan
  BY PlanningStarts, RunsAreOfConfirmedPlan, PTL

\* Every answer to a start names the run of its key, also then.
THEOREM PlannedAnswersAgree == PlanningSpec => []AnswersAgree
  BY PlanningStarts, AnswersAlwaysAgree, PTL

-----------------------------------------------------------------------------
(* What designers are told.                                                *)

\* Every plan that some server may make for a designer.
AllPlans == UNION {PlansFor(digest, DraftOf[d].blueprint, DraftOf[e].environment)
                     : digest \in DOMAIN Contents, d \in Designers, e \in Designers}

\* Some designer's blueprint.
IsBlueprint(b) == \E d \in Designers : b = DraftOf[d].blueprint

Domains ==
    /\ catalog \in DOMAIN Contents
    /\ DOMAIN draft = Designers
    /\ DOMAIN blueprints = BlueprintIds
    /\ DOMAIN blueprintKeys = BlueprintKeys
    /\ DOMAIN planKeys = PlanKeys \X BlueprintIds
    /\ plans \in Seq(AllPlans)

StoredBlueprints ==
    \A id \in BlueprintIds : blueprints[id] # None => IsBlueprint(blueprints[id]) /\ blueprints[id].id = id

RecordedBlueprints ==
    \A k \in BlueprintKeys : blueprintKeys[k] # None =>
        /\ IsBlueprint(blueprintKeys[k])
        /\ blueprints[blueprintKeys[k].id] = blueprintKeys[k]

\* A recorded plan is a stored one of the blueprint with the identifier of its scope.
RecordedPlan(k, id) ==
    planKeys[<<k, id>>] # None =>
        /\ IsStored(planKeys[<<k, id>>])
        /\ planKeys[<<k, id>>].blueprint.id = id

RecordedPlans == \A k \in PlanKeys, id \in BlueprintIds : RecordedPlan(k, id)

\* A designer that is to plan has a blueprint, its own if it created one.
Chosen(d) ==
    draft[d].pc = "plan" =>
        /\ draft[d].told \in BlueprintIds
        /\ blueprints[draft[d].told] # None
        /\ draft[d].own => blueprints[draft[d].told] = DraftOf[d].blueprint

\* A designer that is ready was told of the plan in the record of its key.
Told(d) ==
    draft[d].pc = "ready" =>
        LET told == draft[d].told
        IN  /\ told # None
            /\ told.blueprint.id \in BlueprintIds
            /\ told = planKeys[<<DraftOf[d].planKey, told.blueprint.id>>]
            /\ draft[d].own => told.blueprint = DraftOf[d].blueprint
            /\ told.environment = DraftOf[d].environment

DraftInv ==
    /\ Domains
    /\ StoredBlueprints
    /\ RecordedBlueprints
    /\ RecordedPlans
    /\ \A d \in Designers : Chosen(d) /\ Told(d)

\* A designer's keys and identifier are among those of all.
LEMMA DesignersKeys ==
    ASSUME NEW d \in Designers
    PROVE  /\ DraftOf[d].blueprintKey \in BlueprintKeys
           /\ DraftOf[d].planKey \in PlanKeys
           /\ DraftOf[d].blueprint.id \in BlueprintIds
           /\ DraftOf[d].blueprint # None
           /\ IsBlueprint(DraftOf[d].blueprint)
  BY PlanningAssumption DEF BlueprintKeys, PlanKeys, BlueprintIds, IsBlueprint

\* A plan is of the blueprint and for the environment it was made for.
LEMMA PlansForBlueprint ==
    ASSUME NEW digest \in DOMAIN Contents, NEW b, IsBlueprint(b), NEW d \in Designers,
           NEW planned \in PlansFor(digest, b, DraftOf[d].environment)
    PROVE  /\ planned # None /\ planned \in AllPlans
           /\ planned.blueprint = b
           /\ planned.environment = DraftOf[d].environment
  <1>1. planned # None /\ planned \in AllPlans
      BY PlanningAssumption DEF IsBlueprint, AllPlans
  <1> QED
      BY <1>1 DEF PlansFor

\* What is known of other designers needs only what stays of the tables.
LEMMA OthersStay ==
    ASSUME DraftInv, NEW d \in Designers, NEW pc, NEW own, NEW told,
           draft' = [draft EXCEPT ![d] = Drafting(pc, own, told)],
           \A id \in BlueprintIds : blueprints[id] # None => blueprints'[id] = blueprints[id],
           \A slot \in PlanKeys \X BlueprintIds : planKeys[slot] # None => planKeys'[slot] = planKeys[slot],
           NEW e \in Designers, e # d
    PROVE  Chosen(e)' /\ Told(e)'
  <1>1. draft'[e] = draft[e]
      BY DEF DraftInv, Domains
  <1>2. Chosen(e) /\ Told(e)
      BY DEF DraftInv
  <1>3. Chosen(e)'
      BY <1>1, <1>2 DEF Chosen
  <1>4. Told(e)'
    <2> SUFFICES ASSUME draft[e].pc = "ready"
                 PROVE  LET told_1 == draft[e].told
                        IN  /\ told_1 # None
                            /\ told_1.blueprint.id \in BlueprintIds
                            /\ told_1 = planKeys'[<<DraftOf[e].planKey, told_1.blueprint.id>>]
                            /\ draft[e].own => told_1.blueprint = DraftOf[e].blueprint
                            /\ told_1.environment = DraftOf[e].environment
        BY <1>1 DEF Told
    <2> DEFINE slot == <<DraftOf[e].planKey, draft[e].told.blueprint.id>>
    <2>1. slot \in PlanKeys \X BlueprintIds /\ planKeys[slot] # None
        BY <1>2, DesignersKeys DEF Told
    <2>2. planKeys'[slot] = planKeys[slot]
        BY <2>1
    <2> QED
        BY <1>2, <2>2 DEF Told
  <1> QED
      BY <1>3, <1>4

\* A step that changes no table but one designer's place.
LEMMA OnlyTurns ==
    ASSUME DraftInv, NEW d \in Designers, NEW pc, NEW own, NEW told,
           draft' = [draft EXCEPT ![d] = Drafting(pc, own, told)],
           UNCHANGED <<catalog, blueprints, blueprintKeys, planKeys, plans>>,
           pc = "plan" => /\ told \in BlueprintIds
                          /\ blueprints[told] # None
                          /\ own => blueprints[told] = DraftOf[d].blueprint,
           pc = "ready" => /\ told # None
                           /\ told.blueprint.id \in BlueprintIds
                           /\ told = planKeys[<<DraftOf[d].planKey, told.blueprint.id>>]
                           /\ own => told.blueprint = DraftOf[d].blueprint
                           /\ told.environment = DraftOf[d].environment
    PROVE  DraftInv'
  <1>1. draft'[d] = Drafting(pc, own, told)
      BY DEF DraftInv, Domains
  <1>2. Chosen(d)' /\ Told(d)'
      BY <1>1 DEF Chosen, Told, Drafting
  <1>3. \A e \in Designers : Chosen(e)' /\ Told(e)'
      BY <1>2, OthersStay
  <1>4. Domains'
      BY DEF DraftInv, Domains
  <1>5. StoredBlueprints' /\ RecordedBlueprints'
      BY DEF DraftInv, StoredBlueprints, RecordedBlueprints, IsBlueprint
  <1>6. RecordedPlans'
      BY DEF DraftInv, RecordedPlans, RecordedPlan, IsStored
  <1> QED
      BY <1>3, <1>4, <1>5, <1>6 DEF DraftInv

\* Creating a blueprint, or being answered with one.
LEMMA BlueprintStep ==
    ASSUME DraftInv, NEW d \in Designers, CreateBlueprint(d)
    PROVE  DraftInv'
  <1> DEFINE key == DraftOf[d].blueprintKey
             blueprint == DraftOf[d].blueprint
             own == draft[d].own
  <1>0. key \in BlueprintKeys /\ blueprint.id \in BlueprintIds /\ blueprint # None /\ IsBlueprint(blueprint)
      BY DesignersKeys
  <1>1. CASE Turns(d, "refused", None) /\ UNCHANGED <<blueprints, blueprintKeys>>
      BY <1>1, OnlyTurns DEF Turns, CreateBlueprint
  <1>2. CASE /\ blueprintKeys[key] # None /\ SameBlueprint(d, blueprintKeys[key])
             /\ Turns(d, "plan", blueprintKeys[key].id)
             /\ UNCHANGED <<blueprints, blueprintKeys>>
    <2>1. blueprintKeys[key] = blueprint /\ blueprints[blueprint.id] = blueprint
        BY <1>0, <1>2 DEF SameBlueprint, DraftInv, RecordedBlueprints
    <2> QED
        BY <1>0, <1>2, <2>1, OnlyTurns DEF Turns, CreateBlueprint
  <1>3. CASE /\ blueprintKeys[key] = None /\ blueprints[blueprint.id] = None
             /\ blueprints' = [blueprints EXCEPT ![blueprint.id] = blueprint]
             /\ blueprintKeys' = [blueprintKeys EXCEPT ![key] = blueprint]
             /\ Turns(d, "plan", blueprint.id)
    <2>1. UNCHANGED <<catalog, planKeys, plans>>
        BY DEF CreateBlueprint
    <2>2. \A id \in BlueprintIds : blueprints[id] # None => blueprints'[id] = blueprints[id]
        BY <1>3 DEF DraftInv, Domains
    <2>3. blueprints'[blueprint.id] = blueprint
        BY <1>0, <1>3 DEF DraftInv, Domains
    <2>4. draft'[d] = Drafting("plan", own, blueprint.id)
        BY <1>3 DEF Turns, DraftInv, Domains
    <2> HIDE DEF blueprint, own
    <2>5. Chosen(d)' /\ Told(d)'
        BY <1>0, <2>3, <2>4 DEF Chosen, Told, Drafting, blueprint
    <2>6. \A e \in Designers : Chosen(e)' /\ Told(e)'
        BY <1>3, <2>1, <2>2, <2>5, OthersStay DEF Turns
    <2>7. Domains'
        BY <1>3, <2>1 DEF Turns, DraftInv, Domains
    <2>8. StoredBlueprints'
        BY <1>0, <1>3 DEF DraftInv, Domains, StoredBlueprints, IsBlueprint
    <2>9. RecordedBlueprints'
      <3> SUFFICES ASSUME NEW k \in BlueprintKeys, blueprintKeys'[k] # None
                   PROVE  /\ IsBlueprint(blueprintKeys'[k])
                          /\ blueprints'[blueprintKeys'[k].id] = blueprintKeys'[k]
          BY DEF RecordedBlueprints, IsBlueprint
      <3>1. CASE k = key
        <4>1. blueprintKeys'[k] = blueprint
            BY <1>3, <3>1 DEF DraftInv, Domains
        <4> QED
            BY <1>0, <2>3, <4>1
      <3>2. CASE k # key
        <4>1. blueprintKeys'[k] = blueprintKeys[k]
            BY <1>3, <3>2 DEF DraftInv, Domains
        <4>2. IsBlueprint(blueprintKeys[k]) /\ blueprints[blueprintKeys[k].id] = blueprintKeys[k]
            BY <4>1 DEF DraftInv, RecordedBlueprints
        <4>3. blueprintKeys[k].id \in BlueprintIds /\ blueprintKeys[k] # None
            BY <4>1, <4>2 DEF IsBlueprint, BlueprintIds
        <4> QED
            BY <2>2, <4>1, <4>2, <4>3
      <3> QED
          BY <3>1, <3>2
    <2>10. RecordedPlans'
        BY <2>1 DEF DraftInv, RecordedPlans, RecordedPlan, IsStored
    <2> QED
        BY <2>6, <2>7, <2>8, <2>9, <2>10 DEF DraftInv
  <1> QED
      BY <1>1, <1>2, <1>3 DEF CreateBlueprint

\* Planning, or being answered with a plan.
LEMMA PlannedStep ==
    ASSUME DraftInv, NEW d \in Designers, CreatePlan(d)
    PROVE  DraftInv'
  <1> DEFINE id == draft[d].told
             own == draft[d].own
             slot == <<DraftOf[d].planKey, id>>
             built == PlansFor(catalog, blueprints[id], DraftOf[d].environment)
             new == CHOOSE b \in built : TRUE
  <1>0. /\ id \in BlueprintIds
        /\ blueprints[id].id = id /\ IsBlueprint(blueprints[id])
        /\ own => blueprints[id] = DraftOf[d].blueprint
        /\ slot \in PlanKeys \X BlueprintIds
      BY DesignersKeys DEF CreatePlan, DraftInv, Chosen, StoredBlueprints
  <1>1. CASE /\ \/ Turns(d, "refused", None)
                \/ Turns(d, "unplanned", None)
             /\ UNCHANGED <<plans, planKeys>>
    <2>1. CASE Turns(d, "refused", None)
        BY <1>1, <2>1, OnlyTurns DEF Turns, CreatePlan
    <2>2. CASE Turns(d, "unplanned", None)
        BY <1>1, <2>2, OnlyTurns DEF Turns, CreatePlan
    <2> QED
        BY <1>1, <2>1, <2>2
  <1>2. CASE /\ planKeys[slot] # None /\ SamePlan(d, planKeys[slot])
             /\ Turns(d, "ready", planKeys[slot]) /\ UNCHANGED <<plans, planKeys>>
    <2>1. /\ planKeys[slot].blueprint = blueprints[id]
          /\ planKeys[slot].environment = DraftOf[d].environment
        BY <1>2 DEF SamePlan
    <2> QED
        BY <1>0, <1>2, <2>1, OnlyTurns DEF Turns, CreatePlan
  <1>3. CASE /\ built # {} /\ planKeys[slot] = None
             /\ plans' = Append(plans, new)
             /\ planKeys' = [planKeys EXCEPT ![slot] = new]
             /\ Turns(d, "ready", new)
    <2>1. UNCHANGED <<catalog, blueprints, blueprintKeys>>
        BY DEF CreatePlan
    <2>2. new \in built
        BY <1>3
    <2> HIDE DEF new
    <2>3. new # None /\ new \in AllPlans /\ new.blueprint = blueprints[id] /\ new.environment = DraftOf[d].environment
        BY <1>0, <2>2, PlansForBlueprint DEF DraftInv, Domains
    <2>4. /\ planKeys'[slot] = new
          /\ \A s \in PlanKeys \X BlueprintIds : s # slot => planKeys'[s] = planKeys[s]
        BY <1>0, <1>3 DEF DraftInv, Domains
    <2>5. draft'[d] = Drafting("ready", own, new)
        BY <1>3 DEF Turns, DraftInv, Domains
    <2> HIDE DEF slot, built, own
    <2>6. Chosen(d)' /\ Told(d)'
      <3>1. new.blueprint.id = id /\ slot = <<DraftOf[d].planKey, id>>
          BY <1>0, <2>3 DEF slot
      <3> QED
          BY <1>0, <2>1, <2>3, <2>4, <2>5, <3>1 DEF Chosen, Told, Drafting
    <2>7. \A e \in Designers : Chosen(e)' /\ Told(e)'
        BY <1>3, <2>1, <2>4, <2>6, OthersStay DEF Turns
    <2>8. Domains' /\ StoredBlueprints' /\ RecordedBlueprints'
        BY <1>3, <2>1, <2>3 DEF Turns, DraftInv, Domains, StoredBlueprints, RecordedBlueprints, IsBlueprint
    <2>9. \A p : p = new \/ IsStored(p) => \E i \in DOMAIN plans' : plans'[i] = p
      <3>1. plans \in Seq(AllPlans) /\ plans' = Append(plans, new)
          BY <1>3 DEF DraftInv, Domains
      <3>2. /\ DOMAIN plans = 1..Len(plans) /\ Len(plans) \in Nat
            /\ DOMAIN plans' = 1..(Len(plans) + 1)
            /\ plans'[Len(plans) + 1] = new
            /\ \A i \in 1..Len(plans) : plans'[i] = plans[i]
          BY <2>3, <3>1
      <3> QED
          BY <3>2 DEF IsStored
    <2>10. RecordedPlans'
      <3> SUFFICES ASSUME NEW k \in PlanKeys, NEW i \in BlueprintIds
                   PROVE  RecordedPlan(k, i)'
          BY DEF RecordedPlans
      <3>1. CASE <<k, i>> = slot
        <4>1. planKeys'[<<k, i>>] = new /\ new.blueprint.id = i
            BY <1>0, <2>3, <2>4, <3>1 DEF slot
        <4> QED
            BY <2>9, <4>1 DEF RecordedPlan, IsStored
      <3>2. CASE <<k, i>> # slot
        <4>1. planKeys'[<<k, i>>] = planKeys[<<k, i>>] /\ RecordedPlan(k, i)
            BY <2>4, <3>2 DEF DraftInv, RecordedPlans
        <4> QED
            BY <2>9, <4>1 DEF RecordedPlan, IsStored
      <3> QED
          BY <3>1, <3>2
    <2> QED
        BY <2>7, <2>8, <2>10 DEF DraftInv
  <1> QED
      BY <1>1, <1>2, <1>3 DEF CreatePlan

\* A step of planning keeps the invariant.
LEMMA DraftStep == DraftInv /\ [PlanningNext]_allVars => DraftInv'
  <1> SUFFICES ASSUME DraftInv, [PlanningNext]_allVars
               PROVE  DraftInv'
      OBVIOUS
  <1>1. ASSUME NEW d \in Designers, OpenBlueprint(d)
        PROVE  DraftInv'
    <2>1. DraftOf[d].blueprint.id \in BlueprintIds
        BY DesignersKeys
    <2> QED
        BY <1>1, <2>1, OnlyTurns DEF OpenBlueprint
  <1>2. ASSUME NEW d \in Designers, LoseDraft(d)
        PROVE  DraftInv'
      BY <1>2, OnlyTurns DEF LoseDraft
  <1>3. ASSUME UNCHANGED <<blueprints, blueprintKeys, planKeys, plans, draft>>,
               catalog' \in DOMAIN Contents
        PROVE  DraftInv'
    <2>1. \A d \in Designers : Chosen(d)' /\ Told(d)'
        BY <1>3 DEF DraftInv, Chosen, Told
    <2> QED
        BY <1>3, <2>1
           DEF DraftInv, Domains, StoredBlueprints, RecordedBlueprints, RecordedPlans, RecordedPlan, IsStored, IsBlueprint
  <1>4. ASSUME Restart
        PROVE  DraftInv'
      BY <1>3, <1>4, PlanningAssumption DEF Restart, DraftInv, Domains
  <1>5. ASSUME UNCHANGED drafting
        PROVE  DraftInv'
      BY <1>3, <1>5 DEF drafting, DraftInv, Domains
  <1> QED
      BY <1>1, <1>2, <1>4, <1>5, BlueprintStep, PlannedStep DEF PlanningNext, PlanStep, allVars

\* At first there are no tables to disagree.
LEMMA DraftInit == InitPlanning => DraftInv
  <1> SUFFICES ASSUME InitPlanning
               PROVE  DraftInv
      OBVIOUS
  <1>1. Domains
      BY PlanningAssumption DEF InitPlanning, Domains
  <1>2. StoredBlueprints /\ RecordedBlueprints /\ RecordedPlans
      BY DEF InitPlanning, StoredBlueprints, RecordedBlueprints, RecordedPlans, RecordedPlan
  <1>3. \A d \in Designers : Chosen(d) /\ Told(d)
      BY DEF InitPlanning, Chosen, Told, Drafting
  <1> QED
      BY <1>1, <1>2, <1>3 DEF DraftInv

\* What designers are told agrees with the tables in every state.
THEOREM DraftsCorrect == PlanningSpec => []DraftInv
  BY DraftInit, DraftStep, PTL DEF PlanningSpec

\* A designer is told of a stored plan of what it sent, and one key has one plan,
\* whatever was lost and whatever catalog came in between.
THEOREM DraftsAlwaysAgree == PlanningSpec => []DraftsAgree
  <1>1. DraftInv => DraftsAgree
    <2> SUFFICES ASSUME DraftInv, NEW d \in Designers, draft[d].pc = "ready"
                 PROVE  LET told == draft[d].told
                        IN  /\ IsStored(told)
                            /\ draft[d].own => told.blueprint = DraftOf[d].blueprint
                            /\ told.environment = DraftOf[d].environment
                            /\ \A e \in Designers :
                                  (/\ draft[e].pc = "ready" /\ DraftOf[e].planKey = DraftOf[d].planKey
                                   /\ draft[e].told.blueprint.id = told.blueprint.id) => draft[e].told = told
        BY DEF DraftsAgree
    <2>1. \A e \in Designers : Told(e)
        BY DEF DraftInv
    <2>2. IsStored(draft[d].told)
        BY <2>1, DesignersKeys DEF Told, DraftInv, RecordedPlans, RecordedPlan
    <2> QED
        BY <2>1, <2>2 DEF Told
  <1> QED
      BY <1>1, DraftsCorrect, PTL
=============================================================================
