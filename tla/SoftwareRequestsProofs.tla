------------------------ MODULE SoftwareRequestsProofs ------------------------
(***************************************************************************)
(* Proofs about the requests on the software of the platform, run beside   *)
(* those of its administrators: what the workflows promise of products,    *)
(* credentials, sessions, versions and events, for any requests, commands, *)
(* failures and repetitions.                                               *)
(***************************************************************************)
EXTENDS PlatformRequests, FiniteSetTheorems, TLAPS

-----------------------------------------------------------------------------
(* How a request moves.                                                    *)

\* The requests of a workload are counted, each at its step.
FlowType ==
    /\ workload \in Workloads
    /\ attempt \in [Asked -> Nat]
    /\ DOMAIN stage = Asked
    /\ DOMAIN context = Asked
    /\ DOMAIN outcome = Asked
    /\ DOMAIN result = Asked

\* The steps at which a request only waits for its answer or is no software step's
\* business any more.
Elsewhere ==
    {"done", "answer", "bind_client", "rotated_context", "bind_scope",
     "bootstrap_admin", "bootstrap_audit", "verify_login", "login_version", "login_bindings",
     "record_failure", "create_admin_session", "clear_failures", "session_version",
     "session_bindings", "session_ended", "authorize_version", "authorize_bindings", "decide",
     "lock_token", "lock_session", "locked", "inspect_refresh", "refresh_version",
     "refresh_bindings", "end_client"}

\* A step of q leaves the others where they are.
Alone(q) ==
    \A p \in Asked \ {q} : /\ attempt'[p] = attempt[p]
                           /\ stage'[p] = stage[p]
                           /\ context'[p] = context[p]

\* What a step takes q to.
MovesTo(q, next) ==
    /\ stage' = [stage EXCEPT ![q] = next]
    /\ attempt' = attempt
    /\ DOMAIN context' = Asked
    /\ DOMAIN outcome' = Asked
    /\ \A p \in Asked \ {q} : context'[p] = context[p] /\ outcome'[p] = outcome[p]

MovesOn(q, next) == MovesTo(q, next) \/ MovesTo(q, "done")

LEMMA ContinuesMoves ==
    ASSUME FlowType, NEW r \in Asked, NEW next, NEW kept, Continues(r, next, kept)
    PROVE  MovesOn(r, next)
BY DEF FlowType, Continues, Goes, Refused, MovesOn, MovesTo

\* A step about administrators leaves the software as it is, and takes its request to
\* a step of its own kind.
LEMMA AdminMoves ==
    ASSUME FlowType, NEW r, AdminStep(r)
    PROVE  /\ r \in Asked
           /\ UNCHANGED <<workload, softwareVars>>
           /\ \E next \in Elsewhere : MovesTo(r, next)
<1> USE DEF OnIdentity, OnAccess, At, Elsewhere, MovesOn
<1>1. CASE BootstrapIdentityStep(r) \/ BootstrapStep(r) \/ BootstrapAuditStep(r)
    BY <1>1, ContinuesMoves DEF BootstrapIdentityStep, BootstrapStep, BootstrapAuditStep, Continues
<1>2. CASE ThrottleStep(r) \/ RecordFailureStep(r) \/ CreateAdminSessionStep(r) \/ ClearFailuresStep(r)
    BY <1>2, ContinuesMoves DEF ThrottleStep, RecordFailureStep, CreateAdminSessionStep,
        ClearFailuresStep, Continues
<1>3. CASE VerifyStep(r)
    BY <1>3, ContinuesMoves DEF VerifyStep, Continues
<1>4. CASE LoginVersionStep(r) \/ SessionVersionStep(r) \/ RefreshVersionStep(r)
    BY <1>4 DEF LoginVersionStep, SessionVersionStep, RefreshVersionStep, ReadsVersion, Goes,
        MovesTo, FlowType
<1>5. CASE LoginBindingsStep(r) \/ SessionBindingsStep(r) \/ RefreshBindingsStep(r)
    BY <1>5 DEF LoginBindingsStep, SessionBindingsStep, RefreshBindingsStep, ReadsBindings, Goes,
        MovesTo, FlowType
<1>6. CASE FindSessionStep(r) \/ SessionEndedStep(r) \/ AuthorizeVersionStep(r)
             \/ AuthorizeBindingsStep(r) \/ DecideStep(r)
    BY <1>6, ContinuesMoves DEF FindSessionStep, SessionEndedStep, AuthorizeVersionStep,
        AuthorizeBindingsStep, DecideStep, Continues
<1>7. CASE LockTokenStep(r) \/ LockSessionStep(r)
    BY <1>7, ContinuesMoves DEF LockTokenStep, LockSessionStep, Continues
<1>8. CASE DeadlockStep(r)
    BY <1>8 DEF DeadlockStep, Under, Refused, MovesTo, FlowType
<1>9. CASE ResolveClientStep(r) \/ InspectStep(r)
    BY <1>9, ContinuesMoves DEF ResolveClientStep, InspectStep, Continues
<1>10. CASE RotateRefreshStep(r) \/ RevokeScopelessStep(r) \/ ReadProofsStep(r) \/ LogoutStep(r)
    BY <1>10, ContinuesMoves DEF RotateRefreshStep, RevokeScopelessStep, ReadProofsStep, LogoutStep,
        Continues
<1>11. CASE \/ RegisterAdminClientStep(r) \/ AddAdminCredentialStep(r) \/ DisableSessionsStep(r)
            \/ EndClientStep(r) \/ WithdrawStep(r)
    BY <1>11, ContinuesMoves DEF RegisterAdminClientStep, AddAdminCredentialStep,
        DisableSessionsStep, EndClientStep, WithdrawStep, Continues
<1> QED
    BY <1>1, <1>2, <1>3, <1>4, <1>5, <1>6, <1>7, <1>8, <1>9, <1>10, <1>11 DEF AdminStep

\* The steps between those of a workflow that the invariants below speak about.
Passes(q) ==
    \/ BeginStep(q) /\ stage'[q] = "ensure_official_tenant"
    \/ EnsureStep(q) /\ stage'[q] = "complete_provisioning"
    \/ ProductContextStep(q) /\ stage'[q] = "application_context"
    \/ ApplicationContextStep(q) /\ stage'[q] = "tenant_context"
    \/ TenantContextStep(q) /\ stage'[q] = "authenticate_client"
    \/ AuthenticateStep(q) /\ stage'[q] = "check_client"
    \/ CheckStep(q) /\ stage'[q] = "create_session"

\* A step on the software moves its request alone.
LEMMA SoftwareMoves ==
    ASSUME FlowType, NEW r, SoftwareStep(r)
    PROVE  /\ r \in Asked
           /\ UNCHANGED <<workload, accessVars, identityVars>> \/ BindScopeStep(r)
           /\ \E next : MovesTo(r, next) /\ (next \in Elsewhere \/ Passes(r))
<1> USE DEF OnProducts, OnApplications, OnTenants, OnAccess, At, Elsewhere, MovesOn, Passes
<1>0. \A next : MovesTo(r, next) /\ r \in Asked => stage'[r] = next
    BY DEF MovesTo, FlowType
<1>1. CASE BeginStep(r) \/ EnsureStep(r)
    BY <1>0, <1>1, ContinuesMoves DEF BeginStep, EnsureStep, Continues
<1>2. CASE CompleteStep(r) \/ RegisterStep(r) \/ BindClientStep(r) \/ RotateStep(r)
    BY <1>2, ContinuesMoves DEF CompleteStep, RegisterStep, BindClientStep, RotateStep, Continues
<1>3. CASE RotatedContextStep(r) \/ RevokeStep(r) \/ CreateSessionStep(r)
    BY <1>3, ContinuesMoves DEF RotatedContextStep, RevokeStep, CreateSessionStep, Continues
<1>4. CASE ProductContextStep(r) \/ ApplicationContextStep(r)
    BY <1>0, <1>4, ContinuesMoves DEF ProductContextStep, ApplicationContextStep, Continues
<1>5. CASE TenantContextStep(r)
    BY <1>0, <1>5, ContinuesMoves DEF TenantContextStep, Continues
<1>6. CASE AuthenticateStep(r) \/ CheckStep(r)
    BY <1>0, <1>6, ContinuesMoves DEF AuthenticateStep, CheckStep, Continues
<1>7. CASE CreateApplicationStep(r) \/ ReplaceRedirectsStep(r) \/ SuspendApplicationStep(r)
    BY <1>7, ContinuesMoves DEF CreateApplicationStep, ReplaceRedirectsStep, SuspendApplicationStep,
        Continues
<1>8. CASE ReplaceCapabilitiesStep(r) \/ CreateTenantStep(r) \/ ListTenantsStep(r)
    BY <1>8, ContinuesMoves DEF ReplaceCapabilitiesStep, CreateTenantStep, ListTenantsStep, Continues
<1>9. CASE BindScopeStep(r)
    BY <1>9, ContinuesMoves DEF BindScopeStep, Continues
<1> QED
    BY <1>1, <1>2, <1>3, <1>4, <1>5, <1>6, <1>7, <1>8, <1>9 DEF SoftwareStep

\* Every call of a service is answered to its request.
LEMMA AdminAnswers ==
    ASSUME NEW r, AdminStep(r) PROVE DOMAIN result' = DOMAIN result
<1> USE DEF Returns, Refuses, GivesUp
<1>1. CASE BootstrapIdentityStep(r) \/ BootstrapStep(r) \/ BootstrapAuditStep(r)
    BY <1>1 DEF BootstrapIdentityStep, BootstrapStep, BootstrapAuditStep, BootstrapIdentity,
        BootstrapPlatformAdmin
<1>2. CASE ThrottleStep(r) \/ VerifyStep(r) \/ RecordFailureStep(r)
    BY <1>2 DEF ThrottleStep, VerifyStep, RecordFailureStep, RecordLoginFailure
<1>3. CASE CreateAdminSessionStep(r) \/ ClearFailuresStep(r) \/ FindSessionStep(r)
    BY <1>3 DEF CreateAdminSessionStep, ClearFailuresStep, CreateAdminSession, ClearLoginFailures,
        FindSessionStep, FindByAccessDigest
<1>4. CASE LoginVersionStep(r) \/ SessionVersionStep(r) \/ RefreshVersionStep(r) \/ AuthorizeVersionStep(r)
    BY <1>4 DEF LoginVersionStep, SessionVersionStep, RefreshVersionStep, AuthorizeVersionStep,
        ReadsVersion, ReadAuthorizationVersion
<1>5. CASE LoginBindingsStep(r) \/ SessionBindingsStep(r) \/ RefreshBindingsStep(r)
             \/ AuthorizeBindingsStep(r)
    BY <1>5 DEF LoginBindingsStep, SessionBindingsStep, RefreshBindingsStep, AuthorizeBindingsStep,
        ReadsBindings, ResolveSnapshot
<1>6. CASE SessionEndedStep(r) \/ DecideStep(r) \/ DeadlockStep(r)
    BY <1>6 DEF SessionEndedStep, DecideStep, DeadlockStep
<1>7. CASE LockTokenStep(r) \/ LockSessionStep(r) \/ DisableSessionsStep(r)
    BY <1>7 DEF LockTokenStep, LockSessionStep, LocksRows, DisableSessionsStep, UpdateSessions
<1>8. CASE ResolveClientStep(r) \/ InspectStep(r) \/ ReadProofsStep(r)
    BY <1>8 DEF ResolveClientStep, InspectStep, InspectRefresh, ReadProofsStep
<1>9. CASE RotateRefreshStep(r)
    BY <1>9 DEF RotateRefreshStep, RotateRefresh, RotatesTokens
<1>10. CASE RevokeScopelessStep(r) \/ LogoutStep(r)
    BY <1>10 DEF RevokeScopelessStep, LogoutStep, RevokeByToken, RevokeCookieSession
<1>11. CASE RegisterAdminClientStep(r) \/ AddAdminCredentialStep(r)
    BY <1>11 DEF RegisterAdminClientStep, AddAdminCredentialStep, RegisterControlledClient,
        AddControlledClientCredential
<1>12. CASE EndClientStep(r) \/ WithdrawStep(r)
    BY <1>12 DEF EndClientStep, WithdrawStep, DisableControlledClient, RevokeControlledClientCredential,
        WithdrawScopes
<1> QED
    BY <1>1, <1>2, <1>3, <1>4, <1>5, <1>6, <1>7, <1>8, <1>9, <1>10, <1>11, <1>12 DEF AdminStep

LEMMA SoftwareAnswers ==
    ASSUME NEW r, SoftwareStep(r) PROVE DOMAIN result' = DOMAIN result
<1> USE DEF Returns, Refuses, Settled
<1>1. CASE BeginStep(r) \/ CompleteStep(r)
    BY <1>1 DEF BeginStep, CompleteStep, BeginProvisioning, CompleteProvisioning, ClaimIdempotency,
        CompleteIdempotency
<1>2. CASE RegisterStep(r) \/ RotateStep(r) \/ RevokeStep(r)
    BY <1>2 DEF RegisterStep, RotateStep, RevokeStep, RegisterClient, RotateClientCredential,
        RevokeClientCredential, ClaimIdempotency, CompleteIdempotency
<1>3. CASE RotatedContextStep(r) \/ ProductContextStep(r) \/ CheckStep(r)
    BY <1>3 DEF RotatedContextStep, ProductContextStep, CheckStep, ResolveProductContext,
        CheckClientSession
<1>4. CASE AuthenticateStep(r) \/ CreateSessionStep(r)
    BY <1>4 DEF AuthenticateStep, CreateSessionStep, AuthenticateClient, CreateClientSession,
        DeniesSession
<1>5. CASE ReplaceCapabilitiesStep(r)
    BY <1>5 DEF ReplaceCapabilitiesStep, ReplaceCapabilitySet, ClaimIdempotency, CompleteIdempotency
<1>6. CASE BindClientStep(r) \/ CreateApplicationStep(r)
    BY <1>6 DEF BindClientStep, CreateApplicationStep, BindClient, CreateApplication,
        ReserveIdempotency, StoresResponse
<1>7. CASE ReplaceRedirectsStep(r) \/ SuspendApplicationStep(r)
    BY <1>7 DEF ReplaceRedirectsStep, ReplaceRedirects, SuspendApplicationStep, SuspendApplication,
        ReserveIdempotency, StoresResponse
<1>8. CASE ApplicationContextStep(r) \/ TenantContextStep(r) \/ ListTenantsStep(r)
    BY <1>8 DEF ApplicationContextStep, ResolveApplicationContext, TenantContextStep, ListTenantsStep,
        ResolveTenantContext, ListTenants
<1>9. CASE EnsureStep(r) \/ CreateTenantStep(r)
    BY <1>9 DEF EnsureStep, CreateTenantStep, EnsureOfficialTenant, CreateAgentTenant, LoadReceipt,
        SaveReceipt
<1>10. CASE BindScopeStep(r)
    BY <1>10 DEF BindScopeStep, BindAdminScope
<1> QED
    BY <1>1, <1>2, <1>3, <1>4, <1>5, <1>6, <1>7, <1>8, <1>9, <1>10 DEF SoftwareStep

\* What a step does to the place of a request.
Moves(q) ==
    \/ attempt'[q] = attempt[q] /\ stage'[q] = stage[q] /\ context'[q] = context[q]
    \/ attempt'[q] = attempt[q] + 1 /\ Send(q)
    \/ attempt'[q] = attempt[q] /\ stage'[q] \in Elsewhere
    \/ attempt'[q] = attempt[q] /\ Passes(q)

\* Every step is one of a request on the software, which moves alone, or leaves the
\* software as it is.
LEMMA StepMoves ==
    ASSUME FlowType, [Next]_vars
    PROVE  /\ FlowType'
           /\ workload' = workload
           /\ \A q \in Asked : Moves(q)
           /\ \/ UNCHANGED softwareVars
              \/ \E r \in Asked : SoftwareStep(r)
<1>1. CASE UNCHANGED vars
    BY <1>1 DEF vars, flowVars, FlowType, Moves, Asked
<1>2. CASE Tick
    BY <1>2 DEF Tick, flowVars, FlowType, Moves, Asked
<1>3. ASSUME NEW r \in Asked, Send(r)
      PROVE  /\ r \in Asked /\ UNCHANGED <<workload, softwareVars>>
             /\ FlowType' /\ \A q \in Asked : Moves(q)
  <2>1. r \in Asked /\ UNCHANGED <<workload, softwareVars>> /\ UNCHANGED Asked
    BY <1>3 DEF Send, Asked
  <2>2. /\ attempt' = [attempt EXCEPT ![r] = @ + 1]
        /\ \A q \in Asked \ {r} : stage'[q] = stage[q] /\ context'[q] = context[q]
        /\ DOMAIN stage' = Asked /\ DOMAIN context' = Asked /\ DOMAIN outcome' = Asked
        /\ UNCHANGED result
    BY <1>3, <2>1 DEF Send, FlowType
  <2> QED BY <1>3, <2>1, <2>2 DEF FlowType, Moves
<1>4. ASSUME NEW r \in Asked, NEW next, MovesTo(r, next), UNCHANGED workload,
             DOMAIN result' = DOMAIN result,
             next \in Elsewhere \/ Passes(r)
      PROVE  FlowType' /\ \A q \in Asked : Moves(q)
  <2>1. UNCHANGED Asked
    BY <1>4 DEF Asked
  <2> QED BY <1>4, <2>1 DEF FlowType, Moves, MovesTo
<1>5. ASSUME NEW r \in Asked, Deliver(r) \/ Fail(r)
      PROVE  /\ r \in Asked /\ UNCHANGED <<workload, result, softwareVars>>
             /\ MovesTo(r, "done")
    BY <1>5 DEF Deliver, Fail, At, Under, MovesTo, FlowType
<1>6. ASSUME NEW r \in Asked, SoftwareStep(r)
      PROVE  UNCHANGED workload
  <2>1. CASE BindScopeStep(r)
    BY <2>1 DEF BindScopeStep, Continues
  <2> QED BY <1>6, <2>1, SoftwareMoves
<1>7. "done" \in Elsewhere
    BY DEF Elsewhere
<1> QED
    BY <1>1, <1>2, <1>3, <1>4, <1>5, <1>6, <1>7, AdminMoves, SoftwareMoves, AdminAnswers, SoftwareAnswers
    DEF Next, GoesOn

\* Which steps write what.
LEMMA Writers ==
    ASSUME NEW r, SoftwareStep(r)
    PROVE  /\ UNCHANGED products \/ BeginStep(r) \/ CompleteStep(r)
           /\ UNCHANGED clients \/ RegisterStep(r)
           /\ UNCHANGED credentials \/ RegisterStep(r) \/ RotateStep(r) \/ RevokeStep(r)
           /\ UNCHANGED <<nonces, clientSessions>> \/ CreateSessionStep(r)
           /\ UNCHANGED capabilitySets \/ ReplaceCapabilitiesStep(r)
           /\ \/ UNCHANGED productReceipts
              \/ BeginStep(r) \/ CompleteStep(r) \/ RegisterStep(r) \/ RotateStep(r)
              \/ RevokeStep(r) \/ ReplaceCapabilitiesStep(r)
           /\ \/ UNCHANGED productEvents
              \/ BeginStep(r) \/ CompleteStep(r) \/ RegisterStep(r) \/ RotateStep(r)
              \/ RevokeStep(r) \/ ReplaceCapabilitiesStep(r) \/ AuthenticateStep(r)
              \/ CreateSessionStep(r)
           /\ UNCHANGED bindings \/ BindClientStep(r)
           /\ UNCHANGED redirects \/ ReplaceRedirectsStep(r)
           /\ \/ UNCHANGED applications
              \/ CreateApplicationStep(r) \/ ReplaceRedirectsStep(r) \/ SuspendApplicationStep(r)
           /\ \/ UNCHANGED applicationReceipts
              \/ CreateApplicationStep(r) \/ BindClientStep(r) \/ SuspendApplicationStep(r)
           /\ \/ UNCHANGED applicationEvents
              \/ CreateApplicationStep(r) \/ ReplaceRedirectsStep(r) \/ SuspendApplicationStep(r)
              \/ BindClientStep(r)
           /\ UNCHANGED tenantVars \/ EnsureStep(r) \/ CreateTenantStep(r)
<1> USE DEF OnProducts, OnApplications, OnTenants, OnAccess, productVars, applicationVars, tenantVars,
        softwareVars
<1>1. CASE BeginStep(r) \/ CompleteStep(r)
    BY <1>1 DEF BeginStep, CompleteStep, BeginProvisioning, CompleteProvisioning, ClaimIdempotency
<1>2. CASE RegisterStep(r) \/ RotateStep(r) \/ RevokeStep(r)
    BY <1>2 DEF RegisterStep, RotateStep, RevokeStep, RegisterClient, RotateClientCredential,
        RevokeClientCredential, ClaimIdempotency
<1>3. CASE RotatedContextStep(r) \/ ProductContextStep(r) \/ CheckStep(r)
    BY <1>3 DEF RotatedContextStep, ProductContextStep, CheckStep, ResolveProductContext,
        CheckClientSession
<1>4. CASE AuthenticateStep(r) \/ CreateSessionStep(r)
    BY <1>4 DEF AuthenticateStep, CreateSessionStep, AuthenticateClient, CreateClientSession,
        DeniesSession
<1>5. CASE ReplaceCapabilitiesStep(r)
    BY <1>5 DEF ReplaceCapabilitiesStep, ReplaceCapabilitySet, ClaimIdempotency
<1>6. CASE BindClientStep(r) \/ CreateApplicationStep(r)
    BY <1>6 DEF BindClientStep, CreateApplicationStep, BindClient, CreateApplication,
        ReserveIdempotency
<1>7. CASE ReplaceRedirectsStep(r)
    BY <1>7 DEF ReplaceRedirectsStep, ReplaceRedirects
<1>8. CASE SuspendApplicationStep(r)
    BY <1>8 DEF SuspendApplicationStep, SuspendApplication, ReserveIdempotency
<1>9. CASE ApplicationContextStep(r)
    BY <1>9 DEF ApplicationContextStep, ResolveApplicationContext
<1>10. CASE EnsureStep(r) \/ CreateTenantStep(r)
    BY <1>10 DEF EnsureStep, CreateTenantStep
<1>11. CASE TenantContextStep(r) \/ ListTenantsStep(r)
    BY <1>11 DEF TenantContextStep, ListTenantsStep, ResolveTenantContext, ListTenants
<1>12. CASE BindScopeStep(r)
    BY <1>12 DEF BindScopeStep
<1> QED
    BY <1>1, <1>2, <1>3, <1>4, <1>5, <1>6, <1>7, <1>8, <1>9, <1>10, <1>11, <1>12 DEF SoftwareStep

-----------------------------------------------------------------------------
(* Identifiers are drawn anew.                                             *)

\* The identifiers are of attempts made, and one of an attempt under way is of a
\* request past the steps that draw it.
Fresh(ids, steps) ==
    \A id \in ids : /\ id \in Asked \X Nat
                    /\ id[2] <= attempt[id[1]]
                    /\ id[2] = attempt[id[1]] => stage[id[1]] \notin steps

\* The same of the identifiers ids after a step.
StaysFresh(ids, steps) ==
    \A id \in ids : /\ id \in Asked' \X Nat
                    /\ id[2] <= attempt'[id[1]]
                    /\ id[2] = attempt'[id[1]] => stage'[id[1]] \notin steps

\* The steps at which a row of a table is made, and those before them in a workflow.
MakesTenant == {"create_tenant", "begin_provisioning", "ensure_official_tenant"}
MakesSession == {"product_context", "application_context", "tenant_context",
                 "authenticate_client", "check_client", "create_session"}
MakesCredential == {"register_client", "rotate_credential"}
Making == {{"begin_provisioning"}, {"register_client"}, MakesCredential, MakesSession,
           {"replace_capabilities"}, {"create_application"}, {"replace_redirects"}, MakesTenant}

\* A request comes to these steps only anew or from one of them.
LEMMA MakingIsEntered ==
    ASSUME FlowType, NEW steps \in Making, NEW q \in Asked, Moves(q),
           attempt'[q] = attempt[q], stage'[q] \in steps
    PROVE  stage[q] \in steps
<1>1. attempt[q] + 1 # attempt[q]
    BY DEF FlowType
<1>2. ASSUME Passes(q) PROVE stage[q] \in steps
    BY <1>2 DEF Passes, Making, MakesTenant, MakesSession, MakesCredential, BeginStep, EnsureStep,
        ProductContextStep, ApplicationContextStep, TenantContextStep, AuthenticateStep, CheckStep,
        OnProducts, OnTenants, OnApplications, At
<1>3. ASSUME stage'[q] \in Elsewhere PROVE FALSE
    BY <1>3 DEF Making, Elsewhere, MakesTenant, MakesSession, MakesCredential
<1> QED BY <1>1, <1>2, <1>3 DEF Moves

LEMMA FreshKept ==
    ASSUME FlowType, [Next]_vars, NEW steps \in Making, NEW ids, Fresh(ids, steps)
    PROVE  StaysFresh(ids, steps)
<1> SUFFICES ASSUME NEW id \in ids
             PROVE  /\ id \in Asked' \X Nat
                    /\ id[2] <= attempt'[id[1]]
                    /\ id[2] = attempt'[id[1]] => stage'[id[1]] \notin steps
    BY DEF StaysFresh
<1> DEFINE q == id[1]
<1>1. id \in Asked \X Nat /\ id[2] <= attempt[q] /\ (id[2] = attempt[q] => stage[q] \notin steps)
    BY DEF Fresh
<1>2. Moves(q) /\ Asked' = Asked
    BY <1>1, StepMoves DEF Asked
<1>3. attempt[q] \in Nat
    BY <1>1 DEF FlowType
<1>4. attempt'[q] = attempt[q] \/ attempt'[q] = attempt[q] + 1
    BY <1>2 DEF Moves
<1> QED BY <1>1, <1>2, <1>3, <1>4, MakingIsEntered

\* A new identifier is not there yet, and the request moves on when it is.
LEMMA FreshAdded ==
    ASSUME FlowType, [Next]_vars, NEW steps \in Making, NEW ids, Fresh(ids, steps),
           NEW r \in Asked, stage[r] \in steps, SoftwareStep(r), stage'[r] \notin steps
    PROVE  /\ NewId(r) \notin ids
           /\ StaysFresh(ids \cup {NewId(r)}, steps)
<1>1. NewId(r) \notin ids
    BY DEF Fresh, NewId
<1>2. Asked' = Asked /\ attempt[r] \in Nat
    BY StepMoves DEF Asked, FlowType
<1>3. attempt' = attempt
    BY SoftwareMoves DEF MovesTo
<1> QED BY <1>1, <1>2, <1>3, FreshKept DEF NewId, StaysFresh

LEMMA AddedIs ==
    ASSUME NEW table, NEW id, NEW row, id \notin DOMAIN table
    PROVE  /\ DOMAIN Added(table, id, row) = DOMAIN table \cup {id}
           /\ Added(table, id, row)[id] = row
           /\ \A x \in DOMAIN table : Added(table, id, row)[x] = table[x]
BY DEF Added

\* Initially every request is idle.
LEMMA InitFlow == Init => FlowType
BY DEF Init, FlowType, Asked

\* Requests keep their counts and their places.
THEOREM FlowCorrect == Spec => []FlowType
<1>1. FlowType /\ [Next]_vars => FlowType'
    BY StepMoves
<1> QED BY <1>1, InitFlow, PTL DEF Spec

-----------------------------------------------------------------------------
(* One active credential.                                                  *)

CredentialTyped(k) ==
    /\ {"client", "generation", "status"} \subseteq DOMAIN credentials[k]
    /\ credentials[k].client \in DOMAIN clients
    /\ credentials[k].generation \in Nat

\* A client that has credentials has a newest one.
NewestOf(client) ==
    {k \in CredentialsOf(client) : \A j \in CredentialsOf(client) :
        credentials[j].generation <= credentials[k].generation}

\* The generations of a client's credentials differ, and the active one is the newest.
CredentialInv ==
    /\ Fresh(DOMAIN clients, {"register_client"})
    /\ Fresh(DOMAIN credentials, MakesCredential)
    /\ \A k \in DOMAIN credentials :
          /\ CredentialTyped(k)
          /\ NewestOf(credentials[k].client) # {}
          /\ credentials[k].status = "active" => k \in NewestOf(credentials[k].client)
    /\ \A client \in DOMAIN clients : \A k, j \in CredentialsOf(client) :
          credentials[k].generation = credentials[j].generation => k = j

LEMMA MaxIs ==
    ASSUME NEW S \in SUBSET Nat, NEW m \in S, \A y \in S : y <= m
    PROVE  Max(S) = m
<1>1. \A x \in S : (\A y \in S : x >= y) => x = m
    OBVIOUS
<1>2. \A y \in S : m >= y
    OBVIOUS
<1> QED BY <1>1, <1>2 DEF Max

\* The newest credential of a client has its current generation.
LEMMA NewestIsCurrent ==
    ASSUME CredentialInv, NEW client, NEW n \in NewestOf(client)
    PROVE  /\ CurrentGeneration(client) = credentials[n].generation
           /\ credentials[n].generation \in Nat
           /\ \A k \in CredentialsOf(client) : credentials[k].generation <= CurrentGeneration(client)
<1>1. /\ n \in CredentialsOf(client)
      /\ \A k \in CredentialsOf(client) : /\ credentials[k].generation <= credentials[n].generation
                                          /\ credentials[k].generation \in Nat
    BY DEF NewestOf, CredentialInv, CredentialTyped, CredentialsOf
<1>2. Max(Generations(client)) = credentials[n].generation
    BY <1>1, MaxIs DEF Generations
<1> QED BY <1>1, <1>2 DEF CurrentGeneration

\* A new row is of a generation that its client has not had, and the active one.
LEMMA RegistrationKeeps ==
    ASSUME FlowType, CredentialInv, [Next]_vars, NEW r, RegisterStep(r),
           ~UNCHANGED <<clients, credentials>>
    PROVE  CredentialInv'
<1> DEFINE c == Keyed(r, "product-register")
<1>0. PICK id, row : id = NewId(r) /\ row = NewCredential(c, id, 1)
    OBVIOUS
<1>1. r \in Asked /\ stage[r] = "register_client" /\ SoftwareStep(r)
    BY DEF RegisterStep, OnProducts, At, SoftwareStep
<1>2. \E account : /\ clients' = Added(clients, id, account)
                   /\ credentials' = Added(credentials, id, row)
    BY <1>0 DEF RegisterStep, RegisterClient, ClaimIdempotency, productVars
<1>3. stage'[r] \in {"bind_client", "done"}
    BY <1>1, ContinuesMoves DEF RegisterStep, MovesOn, MovesTo, FlowType
<1>4. id \notin DOMAIN clients /\ StaysFresh(DOMAIN clients \cup {id}, {"register_client"})
    BY <1>1, <1>3, <1>0, FreshAdded DEF CredentialInv, Making
<1>5. id \notin DOMAIN credentials /\ StaysFresh(DOMAIN credentials \cup {id}, MakesCredential)
    BY <1>1, <1>3, <1>0, FreshAdded DEF CredentialInv, Making, MakesCredential
<1>6. /\ DOMAIN clients' = DOMAIN clients \cup {id}
      /\ DOMAIN credentials' = DOMAIN credentials \cup {id}
      /\ \A k \in DOMAIN credentials : credentials'[k] = credentials[k]
      /\ credentials'[id] = row
    BY <1>2, <1>4, <1>5 DEF Added
<1>7. Fresh(DOMAIN clients, {"register_client"})' /\ Fresh(DOMAIN credentials, MakesCredential)'
    BY <1>4, <1>5, <1>6 DEF Fresh, StaysFresh
<1>8. /\ {"client", "generation", "status"} \subseteq DOMAIN row
      /\ row.client = id /\ row.generation = 1 /\ row.status = "active"
    BY <1>0 DEF NewCredential
<1>9. /\ CredentialsOf(id)' = {id}
      /\ \A client \in DOMAIN clients : CredentialsOf(client)' = CredentialsOf(client)
    BY <1>4, <1>5, <1>6, <1>8 DEF CredentialsOf, CredentialInv, CredentialTyped
<1>10. /\ NewestOf(id)' = {id}
       /\ \A client \in DOMAIN clients : NewestOf(client)' = NewestOf(client)
  <2>1. NewestOf(id)' = {id}
    BY <1>6, <1>8, <1>9 DEF NewestOf
  <2>2. ASSUME NEW client \in DOMAIN clients PROVE NewestOf(client)' = NewestOf(client)
    BY <1>6, <1>9 DEF NewestOf, CredentialsOf
  <2> QED BY <2>1, <2>2
<1>11. ASSUME NEW k \in DOMAIN credentials'
       PROVE  /\ CredentialTyped(k)'
              /\ (NewestOf(credentials[k].client) # {})'
              /\ (credentials[k].status = "active" => k \in NewestOf(credentials[k].client))'
  <2>1. CASE k = id
    BY <2>1, <1>6, <1>8, <1>10 DEF CredentialTyped
  <2>2. CASE k \in DOMAIN credentials
    BY <2>2, <1>6, <1>10 DEF CredentialTyped, CredentialInv
  <2> QED BY <1>6, <2>1, <2>2
<1>12. ASSUME NEW client \in DOMAIN clients', NEW k \in CredentialsOf(client)',
              NEW j \in CredentialsOf(client)', credentials'[k].generation = credentials'[j].generation
       PROVE  k = j
  <2>1. CASE client = id
    BY <2>1, <1>9
  <2>2. CASE client \in DOMAIN clients
    BY <2>2, <1>6, <1>9, <1>12 DEF CredentialInv, CredentialsOf
  <2> QED BY <1>6, <2>1, <2>2
<1> QED BY <1>7, <1>11, <1>12 DEF CredentialInv

LEMMA RotationKeeps ==
    ASSUME FlowType, CredentialInv, [Next]_vars, NEW r, RotateStep(r),
           ~UNCHANGED <<clients, credentials>>
    PROVE  CredentialInv'
<1>0. PICK c, id, row, old : /\ c = Keyed(r, "credential-rotate") /\ id = NewId(r)
                              /\ row = NewCredential(c, c.client, c.generation + 1)
                              /\ old = RevokedCredentials(CredentialsOf(c.client))
    OBVIOUS
<1>1. r \in Asked /\ stage[r] = "rotate_credential" /\ SoftwareStep(r)
    BY DEF RotateStep, OnProducts, At, SoftwareStep
<1>2. /\ credentials' = Added(old, id, row) /\ clients' = clients
      /\ RotationRefusal(c) = Accepted
    BY <1>0 DEF RotateStep, RotateClientCredential, ClaimIdempotency, productVars, Proceeds
<1>3. stage'[r] \in {"rotated_context", "done"}
    BY <1>1, ContinuesMoves DEF RotateStep, MovesOn, MovesTo, FlowType
<1>4. id \notin DOMAIN credentials /\ StaysFresh(DOMAIN credentials \cup {id}, MakesCredential)
    BY <1>1, <1>3, <1>0, FreshAdded DEF CredentialInv, Making, MakesCredential
<1>5. /\ DOMAIN old = DOMAIN credentials
      /\ \A k \in DOMAIN credentials : /\ old[k].client = credentials[k].client
                                       /\ old[k].generation = credentials[k].generation
                                       /\ DOMAIN old[k] = DOMAIN credentials[k]
                                       /\ old[k].status = "active" =>
                                             credentials[k].status = "active" /\ k \notin CredentialsOf(c.client)
    BY <1>0 DEF RevokedCredentials, CredentialInv, CredentialTyped
<1>6. /\ DOMAIN credentials' = DOMAIN credentials \cup {id}
      /\ \A k \in DOMAIN credentials : credentials'[k] = old[k]
      /\ credentials'[id] = row
    BY <1>2, <1>4, <1>5 DEF Added
<1>7. Fresh(DOMAIN clients, {"register_client"})' /\ Fresh(DOMAIN credentials, MakesCredential)'
  <2>1. Fresh(DOMAIN clients, {"register_client"})'
    BY <1>2, FreshKept DEF CredentialInv, Making, Fresh, StaysFresh
  <2> QED BY <1>4, <1>6, <2>1 DEF Fresh, StaysFresh
<1>8. /\ CredentialsOf(c.client) # {} /\ CurrentGeneration(c.client) = c.generation
    BY <1>2 DEF RotationRefusal, Accepted
<1>9. PICK n \in NewestOf(c.client) : TRUE
    BY <1>8 DEF CredentialInv, CredentialsOf
<1>10. /\ c.generation \in Nat /\ c.client \in DOMAIN clients
       /\ \A k \in CredentialsOf(c.client) : credentials[k].generation <= c.generation
    BY <1>8, <1>9, NewestIsCurrent DEF CredentialInv, CredentialTyped, CredentialsOf
<1>11. /\ {"client", "generation", "status"} \subseteq DOMAIN row
       /\ row.client = c.client /\ row.generation = c.generation + 1 /\ row.status = "active"
    BY <1>0 DEF NewCredential
<1>12. /\ CredentialsOf(c.client)' = CredentialsOf(c.client) \cup {id}
       /\ \A client : client # c.client => CredentialsOf(client)' = CredentialsOf(client)
    BY <1>4, <1>5, <1>6, <1>11 DEF CredentialsOf
<1>13. /\ NewestOf(c.client)' = {id}
       /\ \A client : client # c.client => NewestOf(client)' = NewestOf(client)
  <2>1. \A k \in CredentialsOf(c.client) : /\ credentials'[k].generation = credentials[k].generation
                                           /\ credentials[k].generation \in Nat
    BY <1>5, <1>6 DEF CredentialsOf, CredentialInv, CredentialTyped
  <2>2. NewestOf(c.client)' = {id}
    BY <2>1, <1>6, <1>10, <1>11, <1>12 DEF NewestOf
  <2>3. ASSUME NEW client, client # c.client PROVE NewestOf(client)' = NewestOf(client)
    BY <2>3, <1>5, <1>6, <1>12 DEF NewestOf, CredentialsOf
  <2> QED BY <2>2, <2>3
<1>14. ASSUME NEW k \in DOMAIN credentials'
       PROVE  /\ CredentialTyped(k)'
              /\ (NewestOf(credentials[k].client) # {})'
              /\ (credentials[k].status = "active" => k \in NewestOf(credentials[k].client))'
  <2>1. CASE k = id
    BY <2>1, <1>2, <1>6, <1>10, <1>11, <1>13 DEF CredentialTyped
  <2>2. CASE k \in DOMAIN credentials
    <3>1. CredentialTyped(k)'
      BY <2>2, <1>2, <1>5, <1>6 DEF CredentialTyped, CredentialInv
    <3>2. (NewestOf(credentials[k].client) # {})'
      BY <2>2, <1>5, <1>6, <1>13 DEF CredentialInv
    <3>3. (credentials[k].status = "active" => k \in NewestOf(credentials[k].client))'
      BY <2>2, <1>5, <1>6, <1>13 DEF CredentialInv, CredentialsOf
    <3> QED BY <3>1, <3>2, <3>3
  <2> QED BY <1>6, <2>1, <2>2
<1>15. ASSUME NEW client \in DOMAIN clients', NEW k \in CredentialsOf(client)',
              NEW j \in CredentialsOf(client)', credentials'[k].generation = credentials'[j].generation
       PROVE  k = j
  <2>1. CASE client = c.client
    <3>1. \A i \in CredentialsOf(c.client) : /\ credentials'[i].generation = credentials[i].generation
                                             /\ credentials[i].generation \in Nat
                                             /\ credentials[i].generation # c.generation + 1
      BY <1>5, <1>6, <1>10 DEF CredentialsOf, CredentialInv, CredentialTyped
    <3> QED BY <2>1, <3>1, <1>6, <1>10, <1>11, <1>12, <1>15 DEF CredentialInv
  <2>2. CASE client # c.client
    BY <2>2, <1>2, <1>5, <1>6, <1>12, <1>15 DEF CredentialInv, CredentialsOf
  <2> QED BY <2>1, <2>2
<1> QED BY <1>7, <1>14, <1>15 DEF CredentialInv

LEMMA RevocationKeeps ==
    ASSUME FlowType, CredentialInv, [Next]_vars, NEW r, RevokeStep(r),
           ~UNCHANGED <<clients, credentials>>
    PROVE  CredentialInv'
<1> DEFINE c == Keyed(r, "credential-revoke")
<1>1. credentials' = [credentials EXCEPT ![c.credential].status = "revoked"] /\ clients' = clients
    BY DEF RevokeStep, RevokeClientCredential, ClaimIdempotency, productVars
<1>2. /\ DOMAIN credentials' = DOMAIN credentials
      /\ \A k \in DOMAIN credentials : /\ credentials'[k].client = credentials[k].client
                                       /\ credentials'[k].generation = credentials[k].generation
                                       /\ DOMAIN credentials'[k] = DOMAIN credentials[k]
                                       /\ credentials'[k].status = "active" => credentials[k].status = "active"
    BY <1>1 DEF CredentialInv, CredentialTyped
<1>3. Fresh(DOMAIN clients, {"register_client"})' /\ Fresh(DOMAIN credentials, MakesCredential)'
    BY <1>1, <1>2, FreshKept DEF CredentialInv, Making, Fresh, StaysFresh
<1>4. \A client : CredentialsOf(client)' = CredentialsOf(client)
    BY <1>2 DEF CredentialsOf
<1>5. \A client : NewestOf(client)' = NewestOf(client)
    BY <1>2, <1>4 DEF NewestOf, CredentialsOf
<1>6. \A k \in DOMAIN credentials' :
          /\ CredentialTyped(k)'
          /\ (NewestOf(credentials[k].client) # {})'
          /\ (credentials[k].status = "active" => k \in NewestOf(credentials[k].client))'
    BY <1>1, <1>2, <1>5 DEF CredentialTyped, CredentialInv
<1>7. \A client \in DOMAIN clients' : \A k, j \in CredentialsOf(client)' :
          credentials'[k].generation = credentials'[j].generation => k = j
    BY <1>1, <1>2, <1>4 DEF CredentialInv, CredentialsOf
<1> QED BY <1>3, <1>6, <1>7 DEF CredentialInv

LEMMA CredentialStep == FlowType /\ CredentialInv /\ [Next]_vars => CredentialInv'
<1> SUFFICES ASSUME FlowType, CredentialInv, [Next]_vars PROVE CredentialInv'
    OBVIOUS
<1>1. CASE UNCHANGED <<clients, credentials>>
  <2>1. Fresh(DOMAIN clients, {"register_client"})' /\ Fresh(DOMAIN credentials, MakesCredential)'
    BY <1>1, FreshKept DEF CredentialInv, Making, Fresh, StaysFresh
  <2> QED BY <1>1, <2>1 DEF CredentialInv, CredentialTyped, NewestOf, CredentialsOf
<1>2. ASSUME NEW r \in Asked, SoftwareStep(r), ~UNCHANGED <<clients, credentials>>
      PROVE  CredentialInv'
    BY <1>2, Writers, RegistrationKeeps, RotationKeeps, RevocationKeeps
<1> QED BY <1>1, <1>2, StepMoves DEF softwareVars, productVars

\* The inductive invariant of the credentials.
THEOREM CredentialsCorrect == Spec => []CredentialInv
<1>1. Init => CredentialInv
    BY DEF Init, ProductInit, CredentialInv, Fresh
<1> QED BY <1>1, InitFlow, FlowCorrect, CredentialStep, PTL DEF Spec

\* A client never has two credentials that may be used, nor two of a generation, however
\* rotations and revocations race (RotateClientCredential, RevokeClientCredential).
THEOREM CredentialsAreSingle == Spec => []OneActiveCredential
<1>1. CredentialInv => OneActiveCredential
  <2> SUFFICES ASSUME CredentialInv, NEW client \in DOMAIN clients,
                      NEW k \in CredentialsOf(client), credentials[k].status = "active"
               PROVE  credentials[k].generation = CurrentGeneration(client)
    BY DEF OneActiveCredential, CredentialInv
  <2>1. k \in NewestOf(client)
    BY DEF CredentialInv, CredentialsOf
  <2> QED BY <2>1, NewestIsCurrent
<1> QED BY <1>1, CredentialsCorrect, PTL

-----------------------------------------------------------------------------
(* Applications: their versions, their redirect policies and their events.  *)

ApplicationTyped(app) ==
    /\ {"product", "status", "version", "redirects"} \subseteq DOMAIN applications[app]
    /\ applications[app].version \in Nat
    /\ applications[app].redirects \in Nat

EventsOf(type, app) == {e \in applicationEvents : e.type = type /\ e.subject = app}

\* The policies of an application are numbered up to its count, and each was told.
Numbered(app) ==
    /\ IsFiniteSet(RedirectsOf(app)) /\ IsFiniteSet(EventsOf("redirects_changed", app))
    /\ {redirects[k].version : k \in RedirectsOf(app)} = 1 .. applications[app].redirects
    /\ Cardinality(RedirectsOf(app)) = applications[app].redirects
    /\ Cardinality(EventsOf("redirects_changed", app)) = applications[app].redirects
    /\ \A e \in EventsOf("redirects_changed", app) :
          e.version \in Nat /\ e.version <= applications[app].redirects

\* A suspension was told once, of an application that is not active any more.
SuspensionsTold ==
    \A e \in applicationEvents : e.type = "suspended" =>
        /\ applications[e.subject].status # "active"
        /\ \A f \in applicationEvents : (f.type = "suspended" /\ f.subject = e.subject) => f = e

ApplicationInv ==
    /\ Fresh(DOMAIN applications, {"create_application"})
    /\ Fresh(DOMAIN redirects, {"replace_redirects"})
    /\ \A app \in DOMAIN applications : ApplicationTyped(app) /\ Numbered(app)
    /\ \A k \in DOMAIN redirects : redirects[k].application \in DOMAIN applications
    /\ \A client \in DOMAIN bindings : bindings[client].application \in DOMAIN applications
    /\ \A e \in applicationEvents : e.subject \in DOMAIN applications
    /\ SuspensionsTold

\* What a suspended application and its sessions are to each other: the version c has
\* seen is no later, and earlier once the application is suspended.
NotAhead(table, c) ==
    LET app == table[c.application] IN
    /\ c.application \in DOMAIN table
    /\ c.applicationVersion \in Nat
    /\ c.applicationVersion <= app.version
    /\ app.status = "suspended" => c.applicationVersion < app.version

Resolved == {"tenant_context", "authenticate_client", "check_client", "create_session"}

\* Of sessions, and of requests that have read their application, all of that holds.
SessionInv ==
    /\ Fresh(DOMAIN clientSessions, MakesSession)
    /\ \A s \in DOMAIN clientSessions :
          /\ NotAhead(applications, clientSessions[s])
          /\ <<clientSessions[s].client, Command(s[1]).with.nonce>> \in nonces
    /\ \A r \in Asked :
          /\ stage[r] \in MakesSession =>
                "nonce" \in DOMAIN context[r] /\ context[r].nonce = Command(r).with.nonce
          /\ stage[r] \in Resolved =>
                /\ {"application", "applicationVersion"} \subseteq DOMAIN context[r]
                /\ NotAhead(applications, context[r])
    /\ OneSessionPerProof

\* What a step does to the applications there are: none goes, and the version of one
\* grows when anything of it changes.
ApplicationsGrow ==
    \A app \in DOMAIN applications :
        /\ app \in DOMAIN applications'
        /\ applications'[app].version \in Nat
        /\ applications'[app].version >= applications[app].version
        /\ \/ applications'[app].status = applications[app].status
           \/ applications'[app].version > applications[app].version

\* The rows of an application created have no policies and no events yet.
LEMMA CreationKeeps ==
    ASSUME FlowType, ApplicationInv, [Next]_vars, NEW r, CreateApplicationStep(r),
           ~UNCHANGED applicationVars
    PROVE  ApplicationInv' /\ ApplicationsGrow
<1>0. PICK c, id, row, event :
          /\ c = context[r] /\ id = NewId(r)
          /\ row = [product |-> c.product, code |-> c.code, channel |-> c.channel,
                    status |-> c.status, version |-> 1, redirects |-> 0]
          /\ event = [id |-> id, type |-> "created", subject |-> id, version |-> 0]
    OBVIOUS
<1>1. r \in Asked /\ stage[r] = "create_application" /\ SoftwareStep(r)
    BY DEF CreateApplicationStep, OnApplications, At, SoftwareStep
<1>2. /\ applications' = Added(applications, id, row)
      /\ applicationEvents' = applicationEvents \cup {event}
      /\ bindings' = bindings /\ redirects' = redirects
    BY <1>0 DEF CreateApplicationStep, CreateApplication, ReserveIdempotency, Tells
<1>3. stage'[r] \in {"answer", "done"}
    BY <1>1, ContinuesMoves DEF CreateApplicationStep, MovesOn, MovesTo, FlowType
<1>4. /\ id \notin DOMAIN applications
      /\ StaysFresh(DOMAIN applications \cup {id}, {"create_application"})
    BY <1>0, <1>1, <1>3, FreshAdded DEF ApplicationInv, Making
<1>5. /\ DOMAIN applications' = DOMAIN applications \cup {id}
      /\ \A app \in DOMAIN applications : applications'[app] = applications[app]
      /\ applications'[id] = row
    BY <1>2, <1>4 DEF Added
<1>6. Fresh(DOMAIN applications, {"create_application"})' /\ Fresh(DOMAIN redirects, {"replace_redirects"})'
  <2>1. StaysFresh(DOMAIN redirects, {"replace_redirects"})
    BY FreshKept DEF ApplicationInv, Making
  <2> QED BY <1>2, <1>4, <1>5, <2>1 DEF Fresh, StaysFresh
<1>7. ApplicationTyped(id)' /\ row.redirects = 0
    BY <1>0, <1>5 DEF ApplicationTyped
<1>8. Numbered(id)'
  <2>1. RedirectsOf(id)' = {} /\ EventsOf("redirects_changed", id)' = {}
    BY <1>0, <1>2, <1>4 DEF RedirectsOf, EventsOf, ApplicationInv
  <2>2. 1 .. row.redirects = {}
    BY <1>7
  <2> QED BY <2>1, <2>2, <1>5, <1>7, FS_EmptySet DEF Numbered
<1>9. \A app \in DOMAIN applications : ApplicationTyped(app)' /\ Numbered(app)'
  <2> SUFFICES ASSUME NEW app \in DOMAIN applications PROVE ApplicationTyped(app)' /\ Numbered(app)'
    OBVIOUS
  <2>1. /\ RedirectsOf(app)' = RedirectsOf(app)
        /\ EventsOf("redirects_changed", app)' = EventsOf("redirects_changed", app)
    BY <1>0, <1>2 DEF RedirectsOf, EventsOf
  <2> QED BY <2>1, <1>2, <1>5 DEF Numbered, ApplicationTyped, ApplicationInv
<1>10. SuspensionsTold'
    BY <1>0, <1>2, <1>4, <1>5 DEF SuspensionsTold, ApplicationInv
<1>11. ApplicationsGrow
    BY <1>5 DEF ApplicationsGrow, ApplicationInv, ApplicationTyped
<1> QED BY <1>0, <1>2, <1>5, <1>6, <1>7, <1>8, <1>9, <1>10, <1>11 DEF ApplicationInv

LEMMA BindingKeeps ==
    ASSUME FlowType, ApplicationInv, [Next]_vars, NEW r, BindClientStep(r),
           ~UNCHANGED applicationVars
    PROVE  ApplicationInv' /\ ApplicationsGrow
<1>0. PICK c, event, row :
          /\ c = Keyed(r, "application-bind")
          /\ event = [id |-> NewId(r), type |-> "client_bound", subject |-> c.application, version |-> 0]
          /\ row = [product |-> c.product, application |-> c.application,
                    environment |-> c.environment]
    OBVIOUS
<1>1. /\ bindings' = Added(bindings, c.client, row)
      /\ applicationEvents' = applicationEvents \cup {event}
      /\ applications' = applications /\ redirects' = redirects
      /\ c.application \in DOMAIN applications
    BY <1>0 DEF BindClientStep, BindClient, ReserveIdempotency, Tells, Proceeds, Accepted, ApplicationOf
<1>2. Fresh(DOMAIN applications, {"create_application"})' /\ Fresh(DOMAIN redirects, {"replace_redirects"})'
    BY <1>1, FreshKept DEF ApplicationInv, Making, Fresh, StaysFresh
<1>3. \A app \in DOMAIN applications : ApplicationTyped(app)' /\ Numbered(app)'
  <2> SUFFICES ASSUME NEW app \in DOMAIN applications PROVE ApplicationTyped(app)' /\ Numbered(app)'
    OBVIOUS
  <2>1. /\ RedirectsOf(app)' = RedirectsOf(app)
        /\ EventsOf("redirects_changed", app)' = EventsOf("redirects_changed", app)
    BY <1>0, <1>1 DEF RedirectsOf, EventsOf
  <2> QED BY <2>1, <1>1 DEF Numbered, ApplicationTyped, ApplicationInv
<1>4. \A client \in DOMAIN bindings' : bindings'[client].application \in DOMAIN applications
    BY <1>0, <1>1 DEF Added, ApplicationInv
<1>5. SuspensionsTold'
    BY <1>0, <1>1 DEF SuspensionsTold, ApplicationInv
<1>6. ApplicationsGrow
    BY <1>1 DEF ApplicationsGrow, ApplicationInv, ApplicationTyped
<1> QED BY <1>0, <1>1, <1>2, <1>3, <1>4, <1>5, <1>6 DEF ApplicationInv

\* One more number, and one more event.
LEMMA CountedOn ==
    ASSUME NEW S, NEW x, x \notin S, IsFiniteSet(S), NEW n \in Nat, Cardinality(S) = n
    PROVE  IsFiniteSet(S \cup {x}) /\ Cardinality(S \cup {x}) = n + 1
BY FS_AddElement

LEMMA ReplacementKeeps ==
    ASSUME FlowType, ApplicationInv, [Next]_vars, NEW r, ReplaceRedirectsStep(r),
           ~UNCHANGED applicationVars
    PROVE  ApplicationInv' /\ ApplicationsGrow
<1>0. PICK c, app, n, id, event, row :
          /\ c = context[r] /\ id = NewId(r) /\ app = c.application
          /\ n = applications[app].redirects
          /\ event = [id |-> id, type |-> "redirects_changed", subject |-> app, version |-> n + 1]
          /\ row = [application |-> app, version |-> n + 1,
                    content |-> NormalizeRedirectPolicy(c.entries)]
    OBVIOUS
<1>1. r \in Asked /\ stage[r] = "replace_redirects" /\ SoftwareStep(r)
    BY DEF ReplaceRedirectsStep, OnApplications, At, SoftwareStep
<1>2. /\ app \in DOMAIN applications
      /\ redirects' = Added(redirects, id, row)
      /\ applications' = [applications EXCEPT ![app].redirects = n + 1, ![app].version = @ + 1]
      /\ applicationEvents' = applicationEvents \cup {event}
      /\ bindings' = bindings
    BY <1>0 DEF ReplaceRedirectsStep, ReplaceRedirects, Tells, ApplicationOf
<1>3. stage'[r] \in {"answer", "done"}
    BY <1>1, ContinuesMoves DEF ReplaceRedirectsStep, MovesOn, MovesTo, FlowType
<1>4. /\ id \notin DOMAIN redirects
      /\ StaysFresh(DOMAIN redirects \cup {id}, {"replace_redirects"})
    BY <1>0, <1>1, <1>3, FreshAdded DEF ApplicationInv, Making
<1>5. ApplicationTyped(app) /\ n \in Nat /\ Numbered(app)
    BY <1>0, <1>2 DEF ApplicationInv, ApplicationTyped
<1>6. /\ DOMAIN redirects' = DOMAIN redirects \cup {id}
      /\ \A k \in DOMAIN redirects : redirects'[k] = redirects[k]
      /\ redirects'[id] = row
    BY <1>2, <1>4 DEF Added
<1>7. /\ DOMAIN applications' = DOMAIN applications
      /\ \A a \in DOMAIN applications \ {app} : applications'[a] = applications[a]
      /\ DOMAIN applications'[app] = DOMAIN applications[app]
      /\ applications'[app].redirects = n + 1
      /\ applications'[app].version = applications[app].version + 1
      /\ applications'[app].status = applications[app].status
    BY <1>2, <1>5 DEF ApplicationTyped
<1>8. Fresh(DOMAIN applications, {"create_application"})' /\ Fresh(DOMAIN redirects, {"replace_redirects"})'
  <2>1. StaysFresh(DOMAIN applications, {"create_application"})
    BY FreshKept DEF ApplicationInv, Making
  <2> QED BY <1>4, <1>6, <1>7, <2>1 DEF Fresh, StaysFresh
<1>9. ApplicationTyped(app)'
    BY <1>5, <1>7 DEF ApplicationTyped
<1>10. Numbered(app)'
  <2>1. RedirectsOf(app)' = RedirectsOf(app) \cup {id} /\ id \notin RedirectsOf(app)
    BY <1>0, <1>4, <1>6 DEF RedirectsOf
  <2>2. /\ EventsOf("redirects_changed", app)' = EventsOf("redirects_changed", app) \cup {event}
        /\ event \notin EventsOf("redirects_changed", app)
    BY <1>0, <1>2, <1>5 DEF EventsOf, Numbered
  <2>3. {redirects'[k].version : k \in RedirectsOf(app)'} = 1 .. n + 1
    <3>1. \A k \in RedirectsOf(app) : redirects'[k].version = redirects[k].version
      BY <1>6 DEF RedirectsOf
    <3>2. {redirects'[k].version : k \in RedirectsOf(app)'} = (1 .. n) \cup {n + 1}
      BY <1>0, <1>5, <1>6, <2>1, <3>1 DEF Numbered
    <3> QED BY <1>5, <3>2
  <2>4. /\ IsFiniteSet(RedirectsOf(app)')
        /\ Cardinality(RedirectsOf(app)') = n + 1
    <3>1. IsFiniteSet(RedirectsOf(app)) /\ Cardinality(RedirectsOf(app)) = n
      BY <1>0, <1>5 DEF Numbered
    <3> QED BY <1>5, <2>1, <3>1, CountedOn
  <2>5. /\ IsFiniteSet(EventsOf("redirects_changed", app)')
        /\ Cardinality(EventsOf("redirects_changed", app)') = n + 1
    <3>1. /\ IsFiniteSet(EventsOf("redirects_changed", app))
          /\ Cardinality(EventsOf("redirects_changed", app)) = n
      BY <1>0, <1>5 DEF Numbered
    <3> QED BY <1>5, <2>2, <3>1, CountedOn
  <2>6. \A e \in EventsOf("redirects_changed", app)' : e.version \in Nat /\ e.version <= n + 1
    BY <1>0, <1>5, <2>2 DEF Numbered
  <2> QED BY <1>7, <2>3, <2>4, <2>5, <2>6 DEF Numbered
<1>11. \A a \in DOMAIN applications \ {app} : ApplicationTyped(a)' /\ Numbered(a)'
  <2> SUFFICES ASSUME NEW a \in DOMAIN applications, a # app PROVE ApplicationTyped(a)' /\ Numbered(a)'
    OBVIOUS
  <2>1. RedirectsOf(a)' = RedirectsOf(a)
    BY <1>0, <1>4, <1>6 DEF RedirectsOf
  <2>2. EventsOf("redirects_changed", a)' = EventsOf("redirects_changed", a)
    BY <1>0, <1>2 DEF EventsOf
  <2>3. \A k \in RedirectsOf(a) : redirects'[k] = redirects[k]
    BY <1>6 DEF RedirectsOf
  <2> QED BY <2>1, <2>2, <2>3, <1>7 DEF Numbered, ApplicationTyped, ApplicationInv
<1>12. \A k \in DOMAIN redirects' : redirects'[k].application \in DOMAIN applications'
    BY <1>0, <1>2, <1>6, <1>7 DEF ApplicationInv
<1>13. SuspensionsTold'
  <2>1. \A e \in applicationEvents : applications'[e.subject].status = applications[e.subject].status
    BY <1>7 DEF ApplicationInv
  <2> QED BY <1>0, <1>2, <2>1 DEF SuspensionsTold, ApplicationInv
<1>14. ApplicationsGrow
    BY <1>2, <1>5, <1>7 DEF ApplicationsGrow, ApplicationInv, ApplicationTyped
<1> QED BY <1>0, <1>2, <1>7, <1>8, <1>9, <1>11, <1>10, <1>12, <1>13, <1>14 DEF ApplicationInv

LEMMA SuspensionKeeps ==
    ASSUME FlowType, ApplicationInv, [Next]_vars, NEW r, SuspendApplicationStep(r),
           ~UNCHANGED <<applications, bindings, redirects, applicationEvents>>
    PROVE  ApplicationInv' /\ ApplicationsGrow
<1>0. PICK app, event :
          /\ app = context[r].application
          /\ event = [id |-> NewId(r), type |-> "suspended", subject |-> app, version |-> 0]
    OBVIOUS
<1>1. /\ app \in DOMAIN applications
      /\ applications' = [applications EXCEPT ![app] = SuspendedRow(@)]
      /\ applications[app].status = "active"
      /\ applicationEvents' = applicationEvents \cup {event}
      /\ bindings' = bindings /\ redirects' = redirects
    BY <1>0 DEF SuspendApplicationStep, SuspendApplication, ReserveIdempotency, applicationVars, Tells,
        Proceeds, Accepted, ApplicationOf, MaySuspend
<1>2. ApplicationTyped(app)
    BY <1>1 DEF ApplicationInv
<1>3. /\ DOMAIN applications' = DOMAIN applications
      /\ \A a \in DOMAIN applications \ {app} : applications'[a] = applications[a]
      /\ DOMAIN applications'[app] = DOMAIN applications[app]
      /\ applications'[app].redirects = applications[app].redirects
      /\ applications'[app].version = applications[app].version + 1
      /\ applications'[app].status = "suspended"
    BY <1>1, <1>2 DEF ApplicationTyped, SuspendedRow
<1>4. Fresh(DOMAIN applications, {"create_application"})' /\ Fresh(DOMAIN redirects, {"replace_redirects"})'
    BY <1>1, <1>3, FreshKept DEF ApplicationInv, Making, Fresh, StaysFresh
<1>5. \A a \in DOMAIN applications : ApplicationTyped(a)'
    BY <1>2, <1>3 DEF ApplicationTyped, ApplicationInv
<1>6. \A a \in DOMAIN applications : Numbered(a)'
  <2> SUFFICES ASSUME NEW a \in DOMAIN applications PROVE Numbered(a)'
    OBVIOUS
  <2>1. /\ RedirectsOf(a)' = RedirectsOf(a)
        /\ EventsOf("redirects_changed", a)' = EventsOf("redirects_changed", a)
        /\ applications'[a].redirects = applications[a].redirects
    BY <1>0, <1>1, <1>3 DEF RedirectsOf, EventsOf
  <2> QED BY <2>1, <1>1 DEF Numbered, ApplicationInv
<1>7. SuspensionsTold'
  <2>1. \A e \in applicationEvents : e.type = "suspended" => e.subject # app
    BY <1>1 DEF SuspensionsTold, ApplicationInv
  <2>2. \A e \in applicationEvents : e.type = "suspended" => applications'[e.subject] = applications[e.subject]
    BY <2>1, <1>3 DEF ApplicationInv
  <2> QED BY <1>0, <1>1, <1>3, <2>1, <2>2 DEF SuspensionsTold, ApplicationInv
<1>8. ApplicationsGrow
    BY <1>1, <1>2, <1>3 DEF ApplicationsGrow, ApplicationInv, ApplicationTyped
<1> QED BY <1>0, <1>1, <1>3, <1>4, <1>5, <1>6, <1>7, <1>8 DEF ApplicationInv

LEMMA ApplicationStep ==
    FlowType /\ ApplicationInv /\ [Next]_vars => ApplicationInv' /\ ApplicationsGrow
<1> SUFFICES ASSUME FlowType, ApplicationInv, [Next]_vars PROVE ApplicationInv' /\ ApplicationsGrow
    OBVIOUS
<1>1. CASE UNCHANGED <<applications, bindings, redirects, applicationEvents>>
  <2>1. Fresh(DOMAIN applications, {"create_application"})' /\ Fresh(DOMAIN redirects, {"replace_redirects"})'
    BY <1>1, FreshKept DEF ApplicationInv, Making, Fresh, StaysFresh
  <2>2. ApplicationsGrow
    BY <1>1 DEF ApplicationsGrow, ApplicationInv, ApplicationTyped
  <2> QED BY <1>1, <2>1, <2>2 DEF ApplicationInv, ApplicationTyped, Numbered, RedirectsOf, EventsOf,
                                   SuspensionsTold
<1>2. ASSUME NEW r \in Asked, SoftwareStep(r),
             ~UNCHANGED <<applications, bindings, redirects, applicationEvents>>
      PROVE  ApplicationInv' /\ ApplicationsGrow
    BY <1>2, Writers, CreationKeeps, BindingKeeps, ReplacementKeeps, SuspensionKeeps DEF applicationVars
<1> QED BY <1>1, <1>2, StepMoves DEF softwareVars, applicationVars

THEOREM ApplicationsCorrect == Spec => []ApplicationInv
<1>1. Init => ApplicationInv
    BY DEF Init, ApplicationInit, ApplicationInv, Fresh, SuspensionsTold
<1> QED BY <1>1, InitFlow, FlowCorrect, ApplicationStep, PTL DEF Spec

-----------------------------------------------------------------------------
(* Client sessions.                                                        *)

\* A request that is made starts at the first step of its kind with its command.
LEMMA Sent ==
    ASSUME FlowType, NEW q \in Asked, Send(q), stage'[q] # "done"
    PROVE  /\ Kind(q) \in DOMAIN FirstStep
           /\ stage'[q] = FirstStep[Kind(q)]
           /\ context'[q] = Prepared(q)
BY WorkloadsAssumption DEF Send, FlowType, Kind, Command, Asked

\* A request that goes on has an answer, and keeps of it what it keeps.
LEMMA GoesOnWith ==
    ASSUME FlowType, NEW r \in Asked, NEW next, NEW kept, Continues(r, next, kept),
           stage'[r] # "done"
    PROVE  /\ result'[r].kind = "ok"
           /\ stage'[r] = next
           /\ context'[r] = Joined(kept, context[r])
BY DEF Continues, Goes, Refused, FlowType

LEMMA JoinedIs ==
    ASSUME NEW f, NEW g, NEW x
    PROVE  /\ x \in DOMAIN f => x \in DOMAIN Joined(f, g) /\ Joined(f, g)[x] = f[x]
           /\ x \notin DOMAIN f /\ x \in DOMAIN g =>
                 x \in DOMAIN Joined(f, g) /\ Joined(f, g)[x] = g[x]
BY DEF Joined

LEMMA NothingKept == DOMAIN << >> = {}
OBVIOUS

\* A request for a session has its nonce at every step.
LEMMA NonceKept ==
    ASSUME FlowType, SessionInv, [Next]_vars, NEW q \in Asked, stage'[q] \in MakesSession
    PROVE  "nonce" \in DOMAIN context'[q] /\ context'[q].nonce = Command(q).with.nonce
<1>1. Moves(q)
    BY StepMoves
<1>2. stage'[q] \notin Elsewhere /\ stage'[q] # "done"
    BY DEF MakesSession, Elsewhere
<1>3. ASSUME stage[q] \in MakesSession
      PROVE  "nonce" \in DOMAIN context[q] /\ context[q].nonce = Command(q).with.nonce
    BY <1>3 DEF SessionInv
<1>4. CASE Send(q)
  <2>1. Kind(q) = "create_session" /\ context'[q] = Prepared(q)
    BY <1>2, <1>4, Sent DEF FirstStep, MakesSession
  <2>2. "nonce" \in DOMAIN Command(q).with \ DOMAIN Command(q).uses
    BY <2>1, WorkloadsAssumption DEF FlowType, Kind, Command, Asked
  <2>3. Prepared(q) = Joined([f \in DOMAIN Command(q).uses |-> outcome[Command(q).uses[f]].value[f]],
                             Command(q).with)
    BY <2>1 DEF Prepared, Timed, Proving
  <2> QED BY <2>1, <2>2, <2>3, JoinedIs
<1>5. CASE Passes(q)
  <2>1. \E kept : context'[q] = Joined(kept, context[q]) /\ "nonce" \notin DOMAIN kept
    <3>1. CASE ProductContextStep(q) /\ stage'[q] = "application_context"
      BY <3>1, GoesOnWith DEF ProductContextStep
    <3>2. CASE ApplicationContextStep(q) /\ stage'[q] = "tenant_context"
      BY <3>2, GoesOnWith DEF ApplicationContextStep
    <3>3. CASE TenantContextStep(q) /\ stage'[q] = "authenticate_client"
      BY <3>3, GoesOnWith DEF TenantContextStep
    <3>4. CASE AuthenticateStep(q) /\ stage'[q] = "check_client"
      BY <3>4, GoesOnWith DEF AuthenticateStep
    <3>5. CASE CheckStep(q) /\ stage'[q] = "create_session"
      BY <3>5, GoesOnWith, NothingKept DEF CheckStep
    <3> QED BY <1>5, <3>1, <3>2, <3>3, <3>4, <3>5 DEF Passes, MakesSession
  <2>2. stage[q] \in MakesSession
    BY <1>5 DEF Passes, MakesSession, ProductContextStep, ApplicationContextStep, TenantContextStep,
        AuthenticateStep, CheckStep, OnProducts, OnApplications, OnTenants, At
  <2> QED BY <1>3, <2>1, <2>2, JoinedIs
<1> QED BY <1>1, <1>2, <1>3, <1>4, <1>5 DEF Moves

\* What was not ahead of the applications is not ahead when they grow.
LEMMA StaysBehind ==
    ASSUME ApplicationInv, ApplicationsGrow, NEW c, NotAhead(applications, c)
    PROVE  NotAhead(applications', c)
BY DEF NotAhead, ApplicationsGrow, ApplicationInv, ApplicationTyped

\* A request that has read its application is not ahead of it.
LEMMA ResolvedKept ==
    ASSUME FlowType, ApplicationInv, SessionInv, [Next]_vars, ApplicationsGrow,
           NEW q \in Asked, stage'[q] \in Resolved
    PROVE  /\ {"application", "applicationVersion"} \subseteq DOMAIN context'[q]
           /\ NotAhead(applications', context'[q])
<1>1. Moves(q)
    BY StepMoves
<1>2. stage'[q] \notin Elsewhere /\ stage'[q] # "done"
    BY DEF Resolved, Elsewhere
<1>3. ASSUME stage[q] \in Resolved
      PROVE  /\ {"application", "applicationVersion"} \subseteq DOMAIN context[q]
             /\ NotAhead(applications', context[q])
    BY <1>3, StaysBehind DEF SessionInv
<1>4. CASE Send(q)
    BY <1>2, <1>4, Sent DEF FirstStep, Resolved
<1>5. CASE ApplicationContextStep(q) /\ stage'[q] = "tenant_context"
  <2>1. /\ result'[q].kind = "ok"
        /\ context'[q] = Joined([application |-> Got(q).application, channel |-> Got(q).channel,
                                 applicationVersion |-> Got(q).version], context[q])
    BY <1>5, GoesOnWith DEF ApplicationContextStep
  <2>2. PICK app, channel :
            /\ app = bindings[context[q].client].application
            /\ result' = [result EXCEPT ![q] = Answer([application |-> app, channel |-> channel,
                                                       version |-> applications[app].version])]
            /\ context[q].client \in DOMAIN bindings
            /\ applications[app].status = "active"
    <3>1. \A e : ~Refuses(q, e)
      BY <2>1 DEF Refuses, Error, FlowType
    <3>2. LET app == bindings[context[q].client].application IN
          /\ Returns(q, [application |-> app, channel |-> applications[app].channel,
                         version |-> applications[app].version])
          /\ context[q].client \in DOMAIN bindings
          /\ applications[app].status = "active"
      BY <1>5, <3>1 DEF ApplicationContextStep, ResolveApplicationContext
    <3> QED BY <3>2 DEF Returns
  <2>3. applications' = applications /\ app \in DOMAIN applications
    BY <1>5, <2>2 DEF ApplicationContextStep, ResolveApplicationContext, applicationVars, ApplicationInv
  <2>4. Got(q).application = app /\ Got(q).version = applications[app].version
    BY <2>2 DEF Got, Answer, FlowType
  <2>5. /\ context'[q].application = app /\ context'[q].applicationVersion = applications[app].version
        /\ {"application", "applicationVersion"} \subseteq DOMAIN context'[q]
    BY <2>1, <2>4, JoinedIs
  <2> QED BY <2>2, <2>3, <2>5 DEF NotAhead, ApplicationInv, ApplicationTyped
<1>6. ASSUME Passes(q), stage'[q] # "tenant_context"
      PROVE  /\ {"application", "applicationVersion"} \subseteq DOMAIN context'[q]
             /\ NotAhead(applications', context'[q])
  <2>1. \E kept : /\ context'[q] = Joined(kept, context[q])
                  /\ "application" \notin DOMAIN kept /\ "applicationVersion" \notin DOMAIN kept
    <3>1. CASE TenantContextStep(q) /\ stage'[q] = "authenticate_client"
      BY <3>1, GoesOnWith DEF TenantContextStep
    <3>2. CASE AuthenticateStep(q) /\ stage'[q] = "check_client"
      BY <3>2, GoesOnWith DEF AuthenticateStep
    <3>3. CASE CheckStep(q) /\ stage'[q] = "create_session"
      BY <3>3, GoesOnWith, NothingKept DEF CheckStep
    <3> QED BY <1>6, <3>1, <3>2, <3>3 DEF Passes, Resolved
  <2>2. stage[q] \in Resolved
    BY <1>6 DEF Passes, Resolved, TenantContextStep, AuthenticateStep, CheckStep, OnProducts,
        OnTenants, At
  <2>3. /\ context'[q].application = context[q].application
        /\ context'[q].applicationVersion = context[q].applicationVersion
        /\ {"application", "applicationVersion"} \subseteq DOMAIN context'[q]
    BY <1>3, <2>1, <2>2, JoinedIs
  <2> QED BY <1>3, <2>2, <2>3 DEF NotAhead
<1> QED BY <1>1, <1>2, <1>3, <1>4, <1>5, <1>6 DEF Moves, Passes, Resolved

LEMMA SessionStep ==
    FlowType /\ ApplicationInv /\ SessionInv /\ [Next]_vars => SessionInv'
<1> SUFFICES ASSUME FlowType, ApplicationInv, SessionInv, [Next]_vars PROVE SessionInv'
    OBVIOUS
<1>1. ApplicationInv' /\ ApplicationsGrow
    BY ApplicationStep
<1>2. UNCHANGED workload /\ UNCHANGED Asked
    BY StepMoves DEF Asked
<1>3. \A q : Command(q)' = Command(q)
    BY <1>2 DEF Command
<1>4. ASSUME NEW r \in Asked'
      PROVE  /\ stage'[r] \in MakesSession =>
                    "nonce" \in DOMAIN context'[r] /\ context'[r].nonce = Command(r)'.with.nonce
             /\ stage'[r] \in Resolved =>
                    /\ {"application", "applicationVersion"} \subseteq DOMAIN context'[r]
                    /\ NotAhead(applications', context'[r])
    BY <1>1, <1>2, <1>3, NonceKept, ResolvedKept
<1>5. CASE UNCHANGED <<nonces, clientSessions>>
  <2>1. StaysFresh(DOMAIN clientSessions, MakesSession)
    BY FreshKept DEF SessionInv, Making
  <2>2. \A s \in DOMAIN clientSessions' : NotAhead(applications', clientSessions'[s])
    BY <1>1, <1>5, StaysBehind DEF SessionInv
  <2>3. OneSessionPerProof'
    BY <1>3, <1>5 DEF SessionInv, OneSessionPerProof
  <2> QED BY <1>3, <1>4, <1>5, <2>1, <2>2, <2>3 DEF SessionInv, Fresh, StaysFresh
<1>6. ASSUME NEW r \in Asked, SoftwareStep(r), ~UNCHANGED <<nonces, clientSessions>>
      PROVE  SessionInv'
  <2>1. CreateSessionStep(r)
    BY <1>6, Writers
  <2>2. PICK c, id, row :
            /\ c = context[r] /\ id = NewId(r)
            /\ row = [product |-> c.product, application |-> c.application,
                      applicationVersion |-> c.applicationVersion,
                      tenant |-> c.tenant, tenantVersion |-> c.tenantVersion,
                      client |-> c.client, credential |-> c.credential,
                      productVersion |-> c.auth.version, expires |-> c.auth.at + SessionTTL]
    OBVIOUS
  <2>3. /\ <<c.client, c.nonce>> \notin nonces
        /\ nonces' = nonces \cup {<<c.client, c.nonce>>}
        /\ clientSessions' = Added(clientSessions, id, row)
        /\ applications' = applications
    BY <1>6, <2>1, <2>2 DEF CreateSessionStep, CreateClientSession, DeniesSession, NonceTaken,
        OnProducts, applicationVars
  <2>4. stage[r] = "create_session" /\ stage'[r] \in {"answer", "done"}
    BY <1>6, <2>1, ContinuesMoves DEF CreateSessionStep, MovesOn, MovesTo, FlowType, OnProducts, At
  <2>5. id \notin DOMAIN clientSessions /\ StaysFresh(DOMAIN clientSessions \cup {id}, MakesSession)
    BY <1>6, <2>2, <2>4, FreshAdded DEF SessionInv, Making, MakesSession
  <2>6. /\ DOMAIN clientSessions' = DOMAIN clientSessions \cup {id}
        /\ \A s \in DOMAIN clientSessions : clientSessions'[s] = clientSessions[s]
        /\ clientSessions'[id] = row
    BY <2>3, <2>5 DEF Added
  <2>7. /\ row.client = c.client /\ id[1] = r
        /\ c.nonce = Command(r).with.nonce
        /\ NotAhead(applications, row)
    BY <1>6, <2>2, <2>4 DEF NewId, SessionInv, MakesSession, Resolved, NotAhead
  <2>8. \A s \in DOMAIN clientSessions' :
            /\ NotAhead(applications', clientSessions'[s])
            /\ <<clientSessions'[s].client, Command(s[1])'.with.nonce>> \in nonces'
    BY <1>3, <2>3, <2>6, <2>7 DEF SessionInv
  <2>9. OneSessionPerProof'
    <3> SUFFICES ASSUME NEW s \in DOMAIN clientSessions', NEW t \in DOMAIN clientSessions',
                        clientSessions'[s].client = clientSessions'[t].client,
                        Command(s[1])'.with.nonce = Command(t[1])'.with.nonce
                 PROVE  s = t
      BY DEF OneSessionPerProof
    <3>1. \A x \in DOMAIN clientSessions :
              <<clientSessions[x].client, Command(x[1]).with.nonce>> \in nonces
      BY DEF SessionInv
    <3>2. CASE s \in DOMAIN clientSessions /\ t \in DOMAIN clientSessions
      BY <1>3, <2>6, <3>2 DEF SessionInv, OneSessionPerProof
    <3>3. CASE s = id /\ t \in DOMAIN clientSessions
      BY <1>3, <2>3, <2>6, <2>7, <3>1, <3>3
    <3>4. CASE t = id /\ s \in DOMAIN clientSessions
      BY <1>3, <2>3, <2>6, <2>7, <3>1, <3>4
    <3> QED BY <2>6, <3>2, <3>3, <3>4
  <2> QED BY <1>4, <2>5, <2>6, <2>8, <2>9 DEF SessionInv, Fresh, StaysFresh
<1> QED BY <1>5, <1>6, StepMoves DEF softwareVars, productVars

\* The inductive invariant of the client sessions.
THEOREM SessionsCorrect == Spec => []SessionInv
<1>1. Init => SessionInv
    BY DEF Init, ProductInit, SessionInv, Fresh, OneSessionPerProof, MakesSession, Resolved
<1> QED BY <1>1, InitFlow, FlowCorrect, ApplicationsCorrect, SessionStep, PTL DEF Spec

\* A session shows that its application was suspended since its request read it, however
\* many calls lay between (workflows/clientcontext).
THEOREM SuspensionsShow == Spec => []StaleSessionDetectable
<1>1. SessionInv => StaleSessionDetectable
    BY DEF SessionInv, StaleSessionDetectable, NotAhead
<1> QED BY <1>1, SessionsCorrect, PTL

\* One proof opens one session, whichever requests show it at once (CreateClientSession).
THEOREM ProofsOpenOneSession == Spec => []OneSessionPerProof
<1>1. SessionInv => OneSessionPerProof
    BY DEF SessionInv
<1> QED BY <1>1, SessionsCorrect, PTL

-----------------------------------------------------------------------------
(* Provisioning: what the receipts, the rows and the requests under way    *)
(* know of each other.                                                     *)

BeginKey(actor, key) == <<"product.begin_provisioning", actor, "platform", <<key, "product">> >>
CompleteKey(actor, key, p) ==
    <<"product.complete_provisioning", actor, p, <<key, "complete">> >>

\* The tenant t of a table is the official one of the product p.
Official(table, p, t) == t \in DOMAIN table /\ table[t].product = p /\ table[t].type = "official"

Begins == {k \in DOMAIN productReceipts : k[1] = "product.begin_provisioning"}
Ensures == {k \in DOMAIN tenantReceipts : k[1] = "tenant.ensure_official"}
BegunProduct(k) == productReceipts[k].response.product
CreatedEvents(p) == {e \in productEvents : e.type = "product.created" /\ e.subject = p}

\* A product that is ready has its official tenant, and was told of once.
ProductKnown(p) ==
    /\ {"state", "official", "version"} \subseteq DOMAIN products[p]
    /\ products[p].state \in {"pending", "ready"}
    /\ IF products[p].state = "ready"
       THEN /\ products[p].official \in OfficialTenants(p)
            /\ \E e \in productEvents : CreatedEvents(p) = {e}
       ELSE CreatedEvents(p) = {}

\* A product is begun under one key, and once it is ready, completed under that key.
BeginsKnown ==
    \A k \in Begins :
        /\ k = BeginKey(k[2], k[4][1])
        /\ DOMAIN productReceipts[k].response = {"product"}
        /\ BegunProduct(k) \in DOMAIN products
        /\ \A l \in Begins : BegunProduct(l) = BegunProduct(k) => l = k
        /\ products[BegunProduct(k)].state = "ready"
              => CompleteKey(k[2], k[4][1], BegunProduct(k)) \in DOMAIN productReceipts

\* A product has one official tenant, which its receipts name.
TenantsKnown ==
    /\ \A t, u \in DOMAIN tenants :
          (/\ tenants[t].type = "official" /\ tenants[u].type = "official"
           /\ tenants[t].product = tenants[u].product) => t = u
    /\ \A k \in Ensures : tenantReceipts[k].response.tenant \in OfficialTenants(k[3])

\* What a request with the command c has of its product, from its begin on.
Provisions(receipts, table, c, at) ==
    /\ {"actor", "key"} \subseteq DOMAIN c
    /\ at \in {"ensure_official_tenant", "complete_provisioning"} =>
          /\ "product" \in DOMAIN c
          /\ BeginKey(c.actor, c.key) \in DOMAIN receipts
          /\ receipts[BeginKey(c.actor, c.key)].response.product = c.product
    /\ at = "complete_provisioning" =>
          "official" \in DOMAIN c /\ Official(table, c.product, c.official)

ProvisioningSteps == {"begin_provisioning", "ensure_official_tenant", "complete_provisioning"}

ProvisioningInv ==
    /\ Fresh(DOMAIN products, {"begin_provisioning"})
    /\ Fresh(DOMAIN tenants, MakesTenant)
    /\ \A p \in DOMAIN products : ProductKnown(p)
    /\ \A e \in productEvents : e.type = "product.created" => e.subject \in DOMAIN products
    /\ BeginsKnown
    /\ TenantsKnown
    /\ \A r \in Asked : stage[r] \in ProvisioningSteps =>
          Provisions(productReceipts, tenants, context[r], stage[r])

\* The sets of a product are numbered up to their count.
CapabilityInv ==
    /\ Fresh(DOMAIN capabilitySets, {"replace_capabilities"})
    /\ \A k \in DOMAIN capabilitySets : capabilitySets[k].product \in DOMAIN products
    /\ \A p \in DOMAIN products :
          /\ IsFiniteSet(SetsOf(p))
          /\ {capabilitySets[k].version : k \in SetsOf(p)} = 1 .. Cardinality(SetsOf(p))

Registered(client) == [id |-> client, type |-> "product.client_registered", subject |-> client]
Created(t) == [id |-> t, type |-> "tenant.created", subject |-> t]

\* The event of a client and of a tenant is the one of its own identifier.
ToldInv ==
    /\ \A client \in DOMAIN clients : Registered(client) \in productEvents
    /\ \A e \in productEvents : e.type = "product.client_registered" => e = Registered(e.subject)
    /\ \A t \in DOMAIN tenants : Created(t) \in tenantEvents
    /\ \A e \in tenantEvents : e = Created(e.subject)

\* No row of a product, a tenant or a receipt goes, and those of tenants and receipts stay
\* as they are.
LEMMA RowsStay ==
    ASSUME FlowType, [Next]_vars
    PROVE  /\ DOMAIN products \subseteq DOMAIN products'
           /\ \A k \in DOMAIN productReceipts :
                 k \in DOMAIN productReceipts' /\ productReceipts'[k] = productReceipts[k]
           /\ \A k \in DOMAIN tenantReceipts :
                 k \in DOMAIN tenantReceipts' /\ tenantReceipts'[k] = tenantReceipts[k]
           /\ \A t \in DOMAIN tenants : t \in DOMAIN tenants' /\ tenants'[t] = tenants[t]
           /\ productEvents \subseteq productEvents' /\ tenantEvents \subseteq tenantEvents'
<1>1. CASE UNCHANGED softwareVars
    BY <1>1 DEF softwareVars, productVars, tenantVars
<1>2. ASSUME NEW r \in Asked, SoftwareStep(r)
      PROVE  /\ DOMAIN products \subseteq DOMAIN products'
             /\ \A k \in DOMAIN productReceipts :
                   k \in DOMAIN productReceipts' /\ productReceipts'[k] = productReceipts[k]
             /\ productEvents \subseteq productEvents'
  <2>0. \A idem, answer : productReceipts' = Receipted(productReceipts, idem, answer) =>
            \A k \in DOMAIN productReceipts :
                 k \in DOMAIN productReceipts' /\ productReceipts'[k] = productReceipts[k]
    BY DEF Receipted, Added
  <2>1. CASE BeginStep(r) \/ CompleteStep(r)
    BY <2>0, <2>1 DEF BeginStep, CompleteStep, BeginProvisioning, CompleteProvisioning, ClaimIdempotency,
        CompleteIdempotency, productVars, Emits, Added
  <2>2. CASE RegisterStep(r) \/ RotateStep(r) \/ RevokeStep(r)
    BY <2>0, <2>2 DEF RegisterStep, RotateStep, RevokeStep, RegisterClient, RotateClientCredential,
        RevokeClientCredential, ClaimIdempotency, CompleteIdempotency, productVars, Emits
  <2>3. CASE ReplaceCapabilitiesStep(r)
    BY <2>0, <2>3 DEF ReplaceCapabilitiesStep, ReplaceCapabilitySet, ClaimIdempotency,
        CompleteIdempotency, productVars, Emits
  <2>4. CASE AuthenticateStep(r) \/ CreateSessionStep(r)
    BY <2>4 DEF AuthenticateStep, CreateSessionStep, AuthenticateClient, CreateClientSession,
        DeniesSession, productVars, Emits
  <2> QED BY <1>2, <2>1, <2>2, <2>3, <2>4, Writers
<1>3. ASSUME NEW r \in Asked, SoftwareStep(r)
      PROVE  /\ \A k \in DOMAIN tenantReceipts :
                   k \in DOMAIN tenantReceipts' /\ tenantReceipts'[k] = tenantReceipts[k]
             /\ \A t \in DOMAIN tenants : t \in DOMAIN tenants' /\ tenants'[t] = tenants[t]
             /\ tenantEvents \subseteq tenantEvents'
  <2>0. \A idem, answer : tenantReceipts' = Receipted(tenantReceipts, idem, answer) =>
            \A k \in DOMAIN tenantReceipts :
                 k \in DOMAIN tenantReceipts' /\ tenantReceipts'[k] = tenantReceipts[k]
    BY DEF Receipted, Added
  <2>1. CASE EnsureStep(r)
    BY <2>0, <2>1 DEF EnsureStep, EnsureOfficialTenant, LoadReceipt, SaveReceipt, InsertTenant,
        TenantEvent, Added, tenantVars
  <2>2. CASE CreateTenantStep(r)
    BY <2>0, <2>2 DEF CreateTenantStep, CreateAgentTenant, LoadReceipt, SaveReceipt, InsertTenant,
        TenantEvent, Added, tenantVars
  <2> QED BY <1>3, <2>1, <2>2, Writers DEF tenantVars
<1> QED BY <1>1, <1>2, <1>3, StepMoves

\* The next set has the next number.
LEMMA CapabilityStep ==
    FlowType /\ CapabilityInv /\ [Next]_vars => CapabilityInv'
<1> SUFFICES ASSUME FlowType, CapabilityInv, [Next]_vars PROVE CapabilityInv'
    OBVIOUS
<1>1. DOMAIN products \subseteq DOMAIN products'
    BY RowsStay
<1>2. ASSUME NEW p \in DOMAIN products', p \notin DOMAIN products, SetsOf(p)' = {}
      PROVE  /\ IsFiniteSet(SetsOf(p))'
             /\ ({capabilitySets[k].version : k \in SetsOf(p)} = 1 .. Cardinality(SetsOf(p)))'
  <2>1. 1 .. 0 = {}
    OBVIOUS
  <2> QED BY <1>2, <2>1, FS_EmptySet
<1>3. CASE UNCHANGED capabilitySets
  <2>1. Fresh(DOMAIN capabilitySets, {"replace_capabilities"})'
    BY <1>3, FreshKept DEF CapabilityInv, Making, Fresh, StaysFresh
  <2>2. \A p : SetsOf(p)' = SetsOf(p)
    BY <1>3 DEF SetsOf
  <2>3. \A p : p \notin DOMAIN products => SetsOf(p) = {}
    BY DEF SetsOf, CapabilityInv
  <2>4. \A p \in DOMAIN products' :
            /\ IsFiniteSet(SetsOf(p))'
            /\ ({capabilitySets[k].version : k \in SetsOf(p)} = 1 .. Cardinality(SetsOf(p)))'
    BY <1>2, <1>3, <2>2, <2>3 DEF CapabilityInv
  <2> QED BY <1>1, <1>3, <2>1, <2>4 DEF CapabilityInv
<1>4. ASSUME NEW r \in Asked, SoftwareStep(r), ~UNCHANGED capabilitySets
      PROVE  CapabilityInv'
  <2>1. ReplaceCapabilitiesStep(r)
    BY <1>4, Writers
  <2>2. PICK c, id, row :
            /\ c = context[r] /\ id = NewId(r)
            /\ row = [product |-> c.product, version |-> c.expected + 1, plan |-> c.plan]
    OBVIOUS
  <2>3. /\ capabilitySets' = Added(capabilitySets, id, row) /\ products' = products
        /\ CapabilityRefusal(c) = Accepted
    BY <1>4, <2>1, <2>2 DEF ReplaceCapabilitiesStep, ReplaceCapabilitySet, ClaimIdempotency, productVars,
        Proceeds
  <2>4. stage[r] = "replace_capabilities" /\ stage'[r] \in {"answer", "done"}
    BY <1>4, <2>1, ContinuesMoves DEF ReplaceCapabilitiesStep, MovesOn, MovesTo, FlowType, OnProducts, At
  <2>5. /\ id \notin DOMAIN capabilitySets
        /\ StaysFresh(DOMAIN capabilitySets \cup {id}, {"replace_capabilities"})
    BY <1>4, <2>2, <2>4, FreshAdded DEF CapabilityInv, Making
  <2>6. /\ DOMAIN capabilitySets' = DOMAIN capabilitySets \cup {id}
        /\ \A k \in DOMAIN capabilitySets : capabilitySets'[k] = capabilitySets[k]
        /\ capabilitySets'[id] = row
    BY <2>3, <2>5 DEF Added
  <2>7. c.product \in DOMAIN products /\ CapabilityVersion(c.product) = c.expected
    BY <2>3 DEF CapabilityRefusal, Unavailable, Accepted
  <2>8. PICK n \in Nat : /\ n = Cardinality(SetsOf(c.product)) /\ IsFiniteSet(SetsOf(c.product))
                         /\ {capabilitySets[k].version : k \in SetsOf(c.product)} = 1 .. n
    BY <2>7, FS_CardinalityType DEF CapabilityInv
  <2>9. c.expected = n
    <3>1. Max({0} \cup (1 .. n)) = n
      <4>1. {0} \cup (1 .. n) \in SUBSET Nat /\ n \in {0} \cup (1 .. n)
            /\ \A y \in {0} \cup (1 .. n) : y <= n
        OBVIOUS
      <4> QED BY <4>1, MaxIs
    <3> QED BY <2>7, <2>8, <3>1 DEF CapabilityVersion
  <2>10. /\ SetsOf(c.product)' = SetsOf(c.product) \cup {id} /\ id \notin SetsOf(c.product)
         /\ \A p : p # c.product => SetsOf(p)' = SetsOf(p)
    BY <2>2, <2>5, <2>6 DEF SetsOf
  <2>11. ASSUME NEW p \in DOMAIN products
         PROVE  /\ IsFiniteSet(SetsOf(p))'
                /\ ({capabilitySets[k].version : k \in SetsOf(p)} = 1 .. Cardinality(SetsOf(p)))'
    <3>1. CASE p = c.product
      <4>1. IsFiniteSet(SetsOf(p)') /\ Cardinality(SetsOf(p)') = n + 1
        BY <2>8, <2>10, <3>1, CountedOn
      <4>2. \A k \in SetsOf(p) : capabilitySets'[k].version = capabilitySets[k].version
        BY <2>6 DEF SetsOf
      <4>3. capabilitySets'[id].version = n + 1
        BY <2>2, <2>6, <2>9
      <4>4. {capabilitySets'[k].version : k \in SetsOf(p)'} = (1 .. n) \cup {n + 1}
        BY <2>8, <2>10, <3>1, <4>2, <4>3
      <4>5. (1 .. n) \cup {n + 1} = 1 .. n + 1
        OBVIOUS
      <4> QED BY <4>1, <4>4, <4>5
    <3>2. CASE p # c.product
      <4>1. \A k \in SetsOf(p) : capabilitySets'[k] = capabilitySets[k]
        BY <2>6 DEF SetsOf
      <4> QED BY <2>10, <3>2, <4>1 DEF CapabilityInv
    <3> QED BY <3>1, <3>2
  <2>12. \A k \in DOMAIN capabilitySets' : capabilitySets'[k].product \in DOMAIN products'
    BY <2>2, <2>3, <2>6, <2>7 DEF CapabilityInv
  <2>13. Fresh(DOMAIN capabilitySets, {"replace_capabilities"})'
    BY <2>5, <2>6 DEF Fresh, StaysFresh
  <2> QED BY <2>3, <2>11, <2>12, <2>13 DEF CapabilityInv
<1> QED BY <1>3, <1>4, StepMoves DEF softwareVars, productVars

THEOREM CapabilitiesCorrect == Spec => []CapabilityInv
<1>1. Init => CapabilityInv
    BY DEF Init, ProductInit, CapabilityInv, Fresh
<1> QED BY <1>1, InitFlow, FlowCorrect, CapabilityStep, PTL DEF Spec

\* The versions of capability sets and of redirect policies are 1, 2, 3, ..., although the
\* replacements read the number before they write it (ReplaceCapabilitySet, ReplaceRedirects).
THEOREM VersionsAreContiguous == Spec => []VersionsContiguous
<1>1. CapabilityInv /\ ApplicationInv => VersionsContiguous
    BY DEF CapabilityInv, ApplicationInv, Numbered, VersionsContiguous
<1> QED BY <1>1, CapabilitiesCorrect, ApplicationsCorrect, PTL

\* Which events a step adds.
LEMMA NewEvents ==
    ASSUME NEW r, SoftwareStep(r), NEW e \in productEvents' \ productEvents
    PROVE  /\ e.type = "product.created" =>
                 CompleteStep(r) /\ e = [id |-> NewId(r), type |-> "product.created",
                                         subject |-> Keyed(r, "complete").product]
           /\ e.type = "product.client_registered" => RegisterStep(r) /\ e = Registered(NewId(r))
<1> USE DEF Emits, productVars, ClaimIdempotency, Registered
<1>1. CASE BeginStep(r)
    BY <1>1 DEF BeginStep, BeginProvisioning
<1>2. CASE CompleteStep(r)
    BY <1>2 DEF CompleteStep, CompleteProvisioning
<1>3. CASE RegisterStep(r)
    BY <1>3 DEF RegisterStep, RegisterClient
<1>4. CASE RotateStep(r) \/ RevokeStep(r)
    BY <1>4 DEF RotateStep, RevokeStep, RotateClientCredential, RevokeClientCredential
<1>5. CASE ReplaceCapabilitiesStep(r)
    BY <1>5 DEF ReplaceCapabilitiesStep, ReplaceCapabilitySet
<1>6. CASE AuthenticateStep(r) \/ CreateSessionStep(r)
    BY <1>6 DEF AuthenticateStep, CreateSessionStep, AuthenticateClient, CreateClientSession,
        DeniesSession
<1> QED BY <1>1, <1>2, <1>3, <1>4, <1>5, <1>6, Writers

LEMMA ToldStep == FlowType /\ ToldInv /\ [Next]_vars => ToldInv'
<1> SUFFICES ASSUME FlowType, ToldInv, [Next]_vars PROVE ToldInv'
    OBVIOUS
<1>1. CASE UNCHANGED softwareVars
    BY <1>1 DEF softwareVars, productVars, tenantVars, ToldInv, Registered, Created
<1>2. ASSUME NEW r \in Asked, SoftwareStep(r) PROVE ToldInv'
  <2>0. PICK id : id = NewId(r)
    OBVIOUS
  <2>1. productEvents \subseteq productEvents' /\ tenantEvents \subseteq tenantEvents'
    BY RowsStay
  <2>2. \A client \in DOMAIN clients' : Registered(client) \in productEvents'
    <3>1. CASE UNCHANGED clients
      BY <2>1, <3>1 DEF ToldInv
    <3>2. CASE RegisterStep(r) /\ ~UNCHANGED clients
      <4>1. /\ \E row : clients' = Added(clients, id, row)
            /\ productEvents' = productEvents \cup {Registered(id)}
        BY <2>0, <3>2 DEF RegisterStep, RegisterClient, ClaimIdempotency, productVars, Emits, Registered
      <4>2. DOMAIN clients' = DOMAIN clients \cup {id}
        BY <4>1 DEF Added
      <4> QED BY <2>1, <4>1, <4>2 DEF ToldInv
    <3> QED BY <1>2, <3>1, <3>2, Writers
  <2>3. \A e \in productEvents' : e.type = "product.client_registered" => e = Registered(e.subject)
    BY <1>2, <2>0, NewEvents DEF ToldInv, Registered
  <2>4. /\ \A t \in DOMAIN tenants' : Created(t) \in tenantEvents'
        /\ \A e \in tenantEvents' : e = Created(e.subject)
    <3>1. CASE UNCHANGED tenantVars
      BY <3>1 DEF tenantVars, ToldInv, Created
    <3>2. CASE EnsureStep(r) /\ ~UNCHANGED tenantVars
      BY <2>0, <2>1, <3>2 DEF EnsureStep, EnsureOfficialTenant, LoadReceipt, InsertTenant, TenantEvent,
          Added, Created, ToldInv
    <3>3. CASE CreateTenantStep(r) /\ ~UNCHANGED tenantVars
      BY <2>0, <2>1, <3>3 DEF CreateTenantStep, CreateAgentTenant, LoadReceipt, InsertTenant, TenantEvent,
          Added, Created, ToldInv
    <3> QED BY <1>2, <3>1, <3>2, <3>3, Writers
  <2> QED BY <2>2, <2>3, <2>4 DEF ToldInv
<1> QED BY <1>1, <1>2, StepMoves

\* Only the step that begins a product makes a receipt of a begin.
LEMMA OtherBegins ==
    ASSUME NEW r, SoftwareStep(r), ~BeginStep(r)
    PROVE  \A k \in DOMAIN productReceipts' :
              k[1] = "product.begin_provisioning" => k \in DOMAIN productReceipts
<1>1. ASSUME NEW idem, idem.key[1] # "product.begin_provisioning",
             \/ UNCHANGED productReceipts
             \/ \E answer : productReceipts' = Receipted(productReceipts, idem, answer)
      PROVE  \A k \in DOMAIN productReceipts' :
                k[1] = "product.begin_provisioning" => k \in DOMAIN productReceipts
    BY <1>1 DEF Receipted, Added
<1>2. CASE CompleteStep(r)
  <2>1. PICK c : c = Keyed(r, "complete")
    OBVIOUS
  <2>2. CompleteProvisioningRequest(c).key[1] = "product.complete_provisioning"
    BY DEF CompleteProvisioningRequest, Idempotency
  <2>3. \/ UNCHANGED productReceipts
        \/ \E answer : productReceipts' = Receipted(productReceipts, CompleteProvisioningRequest(c), answer)
    BY <1>2, <2>1 DEF CompleteStep, CompleteProvisioning, ClaimIdempotency, CompleteIdempotency, productVars
  <2> QED BY <1>1, <2>2, <2>3
<1>3. CASE RegisterStep(r)
  <2>1. PICK c : c = Keyed(r, "product-register")
    OBVIOUS
  <2>2. RegisterClientRequest(c).key[1] = "product.register_client"
    BY DEF RegisterClientRequest, Idempotency
  <2>3. \/ UNCHANGED productReceipts
        \/ \E answer : productReceipts' = Receipted(productReceipts, RegisterClientRequest(c), answer)
    BY <1>3, <2>1 DEF RegisterStep, RegisterClient, ClaimIdempotency, CompleteIdempotency, productVars
  <2> QED BY <1>1, <2>2, <2>3
<1>4. CASE RotateStep(r)
  <2>1. PICK c : c = Keyed(r, "credential-rotate")
    OBVIOUS
  <2>2. RotateClientCredentialRequest(c).key[1] = "product.rotate_client_credential"
    BY DEF RotateClientCredentialRequest, Idempotency
  <2>3. \/ UNCHANGED productReceipts
        \/ \E answer : productReceipts' = Receipted(productReceipts, RotateClientCredentialRequest(c), answer)
    BY <1>4, <2>1 DEF RotateStep, RotateClientCredential, ClaimIdempotency, CompleteIdempotency, productVars
  <2> QED BY <1>1, <2>2, <2>3
<1>5. CASE RevokeStep(r)
  <2>1. PICK c : c = Keyed(r, "credential-revoke")
    OBVIOUS
  <2>2. RevokeClientCredentialRequest(c).key[1] = "product.revoke_client_credential"
    BY DEF RevokeClientCredentialRequest, Idempotency
  <2>3. \/ UNCHANGED productReceipts
        \/ \E answer : productReceipts' = Receipted(productReceipts, RevokeClientCredentialRequest(c), answer)
    BY <1>5, <2>1 DEF RevokeStep, RevokeClientCredential, ClaimIdempotency, CompleteIdempotency, productVars
  <2> QED BY <1>1, <2>2, <2>3
<1>6. CASE ReplaceCapabilitiesStep(r)
  <2>1. PICK c : c = context[r]
    OBVIOUS
  <2>2. ReplaceCapabilitySetRequest(c).key[1] = "product.replace_capability_set"
    BY DEF ReplaceCapabilitySetRequest, Idempotency
  <2>3. \/ UNCHANGED productReceipts
        \/ \E answer : productReceipts' = Receipted(productReceipts, ReplaceCapabilitySetRequest(c), answer)
    BY <1>6, <2>1 DEF ReplaceCapabilitiesStep, ReplaceCapabilitySet, ClaimIdempotency, CompleteIdempotency, productVars
  <2> QED BY <1>1, <2>2, <2>3
<1> QED BY <1>2, <1>3, <1>4, <1>5, <1>6, Writers

\* The call that begins a product answers with the receipt of its key.
LEMMA BeginEffect ==
    ASSUME FlowType, [Next]_vars, ProvisioningInv, NEW r, BeginStep(r)
    PROVE  /\ r \in Asked /\ UNCHANGED tenantVars
           /\ {"actor", "key"} \subseteq DOMAIN context[r]
           /\ stage'[r] \in {"ensure_official_tenant", "done"}
           /\ stage'[r] # "done" =>
                 /\ BeginKey(context[r].actor, context[r].key) \in DOMAIN productReceipts'
                 /\ Got(r) = productReceipts'[BeginKey(context[r].actor, context[r].key)].response
           /\ \/ UNCHANGED productVars
              \/ /\ NewId(r) \notin DOMAIN products
                 /\ BeginKey(context[r].actor, context[r].key) \notin DOMAIN productReceipts
                 /\ DOMAIN products' = DOMAIN products \cup {NewId(r)}
                 /\ \A p \in DOMAIN products : products'[p] = products[p]
                 /\ products'[NewId(r)].state = "pending"
                 /\ {"state", "official", "version"} \subseteq DOMAIN products'[NewId(r)]
                 /\ DOMAIN productReceipts' = DOMAIN productReceipts
                       \cup {BeginKey(context[r].actor, context[r].key)}
                 /\ productReceipts'[BeginKey(context[r].actor, context[r].key)].response
                       = [product |-> NewId(r)]
<1>1. r \in Asked /\ stage[r] = "begin_provisioning" /\ SoftwareStep(r) /\ UNCHANGED tenantVars
    BY DEF BeginStep, OnProducts, At, SoftwareStep
<1>2. {"actor", "key"} \subseteq DOMAIN context[r]
    BY <1>1 DEF ProvisioningInv, ProvisioningSteps, Provisions
<1>3. stage'[r] \in {"ensure_official_tenant", "done"}
    BY <1>1, ContinuesMoves DEF BeginStep, MovesOn, MovesTo, FlowType
<1>4. NewId(r) \notin DOMAIN products
    BY <1>1, <1>3, FreshAdded DEF ProvisioningInv, Making
<1> DEFINE c == Keyed(r, "product")
           idem == BeginProvisioningRequest(c)
<1>5. idem.key = BeginKey(context[r].actor, context[r].key)
    BY <1>2 DEF BeginProvisioningRequest, Idempotency, Keyed, BeginKey
<1> HIDE DEF idem
<1>6. CASE \E refusal : ClaimIdempotency(r, idem, refusal)
  <2>1. stage'[r] # "done" =>
            idem.key \in DOMAIN productReceipts /\ Got(r) = productReceipts[idem.key].response
    <3>1. ASSUME stage'[r] # "done" PROVE result'[r].kind = "ok"
      BY <1>1, <3>1, GoesOnWith DEF BeginStep
    <3> QED BY <1>1, <1>6, <3>1 DEF ClaimIdempotency, Settled, Returns, Refuses, Error, Answer, Got, FlowType
  <2>2. UNCHANGED productVars
    BY <1>6 DEF ClaimIdempotency
  <2> QED BY <1>1, <1>2, <1>3, <1>5, <2>1, <2>2 DEF productVars
<1>7. CASE /\ idem.key \notin DOMAIN productReceipts
           /\ products' = Added(products, NewId(r), NewProduct(c))
           /\ CompleteIdempotency(r, idem, [product |-> NewId(r)])
  <2>1. /\ DOMAIN products' = DOMAIN products \cup {NewId(r)}
        /\ \A p \in DOMAIN products : products'[p] = products[p]
        /\ products'[NewId(r)] = NewProduct(c)
    BY <1>4, <1>7 DEF Added
  <2>2. /\ NewProduct(c).state = "pending"
        /\ {"state", "official", "version"} \subseteq DOMAIN NewProduct(c)
    BY DEF NewProduct
  <2>3. /\ DOMAIN productReceipts' = DOMAIN productReceipts \cup {idem.key}
        /\ productReceipts'[idem.key].response = [product |-> NewId(r)]
    BY <1>7 DEF CompleteIdempotency, Receipted, Added
  <2>4. Got(r) = [product |-> NewId(r)]
    BY <1>1, <1>7 DEF CompleteIdempotency, Returns, Answer, Got, FlowType
  <2> QED BY <1>1, <1>2, <1>3, <1>4, <1>5, <1>7, <2>1, <2>2, <2>3, <2>4
<1> QED BY <1>6, <1>7 DEF BeginStep, BeginProvisioning, Proceeds, idem

LEMMA OfficialIs ==
    \A p, t : /\ t \in OfficialTenants(p) <=> Official(tenants, p, t)
              /\ t \in OfficialTenants(p)' <=> Official(tenants', p, t)
BY DEF OfficialTenants, TenantsOf, Official

\* The call that ensures an official tenant answers with the one there is, or with the
\* new one.
LEMMA EnsureEffect ==
    ASSUME FlowType, [Next]_vars, ProvisioningInv, NEW r, EnsureStep(r)
    PROVE  /\ r \in Asked /\ stage[r] = "ensure_official_tenant"
           /\ UNCHANGED productVars
           /\ \/ /\ UNCHANGED tenantVars
                 /\ stage'[r] # "done" => Official(tenants, context[r].product, Got(r).tenant)
              \/ \E k : /\ k[1] = "tenant.ensure_official" /\ k[3] = context[r].product
                        /\ DOMAIN tenantReceipts' = DOMAIN tenantReceipts \cup {k}
                        /\ tenantReceipts'[k].response.tenant = Got(r).tenant
                        /\ Official(tenants', context[r].product, Got(r).tenant)
                        /\ \/ UNCHANGED tenants
                           \/ /\ Got(r).tenant = NewId(r) /\ NewId(r) \notin DOMAIN tenants
                              /\ OfficialTenants(context[r].product) = {}
                              /\ DOMAIN tenants' = DOMAIN tenants \cup {NewId(r)}
<1>1. /\ r \in Asked /\ stage[r] = "ensure_official_tenant" /\ SoftwareStep(r)
      /\ UNCHANGED productVars
    BY DEF EnsureStep, OnTenants, At, SoftwareStep
<1>2. stage'[r] \in {"complete_provisioning", "done"}
    BY <1>1, ContinuesMoves DEF EnsureStep, MovesOn, MovesTo, FlowType
<1>3. NewId(r) \notin DOMAIN tenants
    BY <1>1, <1>2, FreshAdded DEF ProvisioningInv, Making, MakesTenant
<1>4. PICK c, p, idem : /\ c = Keyed(r, "official-tenant") /\ p = context[r].product
                        /\ idem = EnsureOfficialTenantRequest(c)
    OBVIOUS
<1>5. "product" \in DOMAIN context[r]
    BY <1>1 DEF ProvisioningInv, ProvisioningSteps, Provisions
<1>6. c.product = p /\ idem.key[1] = "tenant.ensure_official" /\ idem.key[3] = p
    BY <1>4, <1>5 DEF Keyed, EnsureOfficialTenantRequest, Idempotency
<1>7. ASSUME NEW v, Returns(r, v) PROVE Got(r) = v
    BY <1>1, <1>7 DEF Returns, Got, Answer, FlowType
<1>8. CASE LoadReceipt(r, idem, Accepted)
  <2>1. ASSUME stage'[r] # "done"
        PROVE  idem.key \in DOMAIN tenantReceipts /\ Got(r) = tenantReceipts[idem.key].response
    <3>1. result'[r].kind = "ok"
      BY <1>1, <2>1, GoesOnWith DEF EnsureStep
    <3>2. \A e : ~Refuses(r, e)
      BY <1>1, <3>1 DEF Refuses, Error, FlowType
    <3> QED BY <1>7, <1>8, <3>2 DEF LoadReceipt, Settled
  <2>2. ASSUME stage'[r] # "done" PROVE Official(tenants, p, Got(r).tenant)
    BY <1>6, <2>1, <2>2, OfficialIs DEF ProvisioningInv, TenantsKnown, Ensures
  <2> QED BY <1>1, <1>4, <1>8, <2>2 DEF LoadReceipt
<1>9. ASSUME NEW t, SaveReceipt(r, idem, [tenant |-> t])
      PROVE  /\ DOMAIN tenantReceipts' = DOMAIN tenantReceipts \cup {idem.key}
             /\ idem.key \notin DOMAIN tenantReceipts =>
                   tenantReceipts'[idem.key].response.tenant = t
             /\ Got(r).tenant = t
    BY <1>7, <1>9 DEF SaveReceipt, Receipted, Added
<1>10. ASSUME NEW t \in OfficialTenants(p), SaveReceipt(r, idem, [tenant |-> t]),
              idem.key \notin DOMAIN tenantReceipts, UNCHANGED tenants
       PROVE  \E k : /\ k[1] = "tenant.ensure_official" /\ k[3] = p
                     /\ DOMAIN tenantReceipts' = DOMAIN tenantReceipts \cup {k}
                     /\ tenantReceipts'[k].response.tenant = Got(r).tenant
                     /\ Official(tenants', p, Got(r).tenant)
    BY <1>6, <1>9, <1>10, OfficialIs
<1>11. CASE /\ idem.key \notin DOMAIN tenantReceipts /\ OfficialTenants(p) = {}
            /\ InsertTenant(r, p, "official", "official", "active")
            /\ SaveReceipt(r, idem, [tenant |-> NewId(r)])
  <2>1. Got(r).tenant = NewId(r) /\ tenantReceipts'[idem.key].response.tenant = NewId(r)
        /\ DOMAIN tenantReceipts' = DOMAIN tenantReceipts \cup {idem.key}
    BY <1>9, <1>11
  <2>2. Official(tenants', p, NewId(r)) /\ DOMAIN tenants' = DOMAIN tenants \cup {NewId(r)}
    BY <1>3, <1>11 DEF InsertTenant, Added, Official
  <2> QED BY <1>1, <1>3, <1>4, <1>6, <1>11, <2>1, <2>2
<1> QED
    BY <1>1, <1>4, <1>6, <1>8, <1>10, <1>11 DEF EnsureStep, EnsureOfficialTenant, Proceeds

\* A tenant that is created by itself is not an official one, and its receipt is no
\* receipt of one.
LEMMA CreateTenantEffect ==
    ASSUME FlowType, [Next]_vars, ProvisioningInv, NEW r, CreateTenantStep(r)
    PROVE  /\ r \in Asked /\ stage[r] = "create_tenant"
           /\ UNCHANGED productVars
           /\ \/ UNCHANGED tenantVars
              \/ /\ NewId(r) \notin DOMAIN tenants
                 /\ DOMAIN tenants' = DOMAIN tenants \cup {NewId(r)}
                 /\ tenants'[NewId(r)].type = "agent"
                 /\ \A k \in DOMAIN tenantReceipts' :
                       k[1] = "tenant.ensure_official" => k \in DOMAIN tenantReceipts
<1>1. /\ r \in Asked /\ stage[r] = "create_tenant" /\ SoftwareStep(r)
      /\ UNCHANGED productVars
    BY DEF CreateTenantStep, OnTenants, At, SoftwareStep
<1>2. stage'[r] \in {"answer", "done"}
    BY <1>1, ContinuesMoves DEF CreateTenantStep, MovesOn, MovesTo, FlowType
<1>3. NewId(r) \notin DOMAIN tenants
    BY <1>1, <1>2, FreshAdded DEF ProvisioningInv, Making, MakesTenant
<1>4. PICK c, idem : c = context[r] /\ idem = CreateAgentTenantRequest(c)
    OBVIOUS
<1>5. idem.key[1] = "tenant.create_agent"
    BY <1>4 DEF CreateAgentTenantRequest, Idempotency
<1>6. CASE \E answer : /\ InsertTenant(r, c.product, c.code, "agent", c.status)
                       /\ SaveReceipt(r, idem, answer)
  <2>1. \A k \in DOMAIN tenantReceipts' :
            k[1] = "tenant.ensure_official" => k \in DOMAIN tenantReceipts
    BY <1>5, <1>6 DEF SaveReceipt, Receipted, Added
  <2>2. DOMAIN tenants' = DOMAIN tenants \cup {NewId(r)} /\ tenants'[NewId(r)].type = "agent"
    BY <1>3, <1>6 DEF InsertTenant, Added
  <2> QED BY <1>1, <1>3, <2>1, <2>2
<1> QED
    BY <1>1, <1>4, <1>6 DEF CreateTenantStep, CreateAgentTenant, LoadReceipt

\* The call that completes a product does so once: what it finds ready was completed
\* under the key it has, and is answered by its receipt.
LEMMA CompleteEffect ==
    ASSUME FlowType, [Next]_vars, ProvisioningInv, NEW r, CompleteStep(r)
    PROVE  /\ r \in Asked /\ stage[r] = "complete_provisioning"
           /\ UNCHANGED tenantVars
           /\ Provisions(productReceipts, tenants, context[r], "complete_provisioning")
           /\ \/ UNCHANGED productVars
              \/ /\ context[r].product \in DOMAIN products
                 /\ products[context[r].product].state = "pending"
                 /\ DOMAIN products' = DOMAIN products
                 /\ \A p \in DOMAIN products \ {context[r].product} : products'[p] = products[p]
                 /\ {"state", "official", "version"} \subseteq DOMAIN products'[context[r].product]
                 /\ products'[context[r].product].state = "ready"
                 /\ products'[context[r].product].official = context[r].official
                 /\ CompleteKey(context[r].actor, context[r].key, context[r].product)
                       \in DOMAIN productReceipts'
                 /\ productEvents' = productEvents \cup
                       {[id |-> NewId(r), type |-> "product.created", subject |-> context[r].product]}
<1>1. /\ r \in Asked /\ stage[r] = "complete_provisioning" /\ SoftwareStep(r)
      /\ UNCHANGED tenantVars
    BY DEF CompleteStep, OnProducts, At, SoftwareStep
<1>2. Provisions(productReceipts, tenants, context[r], "complete_provisioning")
    BY <1>1 DEF ProvisioningInv, ProvisioningSteps
<1>3. PICK c, p, official, idem : /\ c = Keyed(r, "complete") /\ p = context[r].product
                                  /\ official = context[r].official
                                  /\ idem = CompleteProvisioningRequest(c)
    OBVIOUS
<1>4. {"actor", "key", "product", "official"} \subseteq DOMAIN context[r]
    BY <1>2 DEF Provisions
<1>5. /\ c.product = p /\ c.official = official
      /\ idem.key = CompleteKey(context[r].actor, context[r].key, p)
    BY <1>3, <1>4 DEF Keyed, CompleteProvisioningRequest, Idempotency, CompleteKey
<1>6. ASSUME idem.key \notin DOMAIN productReceipts
      PROVE  p \in DOMAIN products /\ products[p].state = "pending"
             /\ {"state", "official", "version"} \subseteq DOMAIN products[p]
  <2>1. PICK k \in Begins : k = BeginKey(context[r].actor, context[r].key) /\ BegunProduct(k) = p
    BY <1>2, <1>3 DEF Provisions, Begins, BegunProduct, BeginKey
  <2>2. k[2] = context[r].actor /\ k[4][1] = context[r].key
    BY <2>1 DEF BeginKey
  <2>3. p \in DOMAIN products /\ products[p].state # "ready"
    BY <1>5, <1>6, <2>1, <2>2 DEF ProvisioningInv, BeginsKnown
  <2> QED BY <2>3 DEF ProvisioningInv, ProductKnown
<1>7. CASE \E refusal : ClaimIdempotency(r, idem, refusal)
    BY <1>1, <1>2, <1>7 DEF ClaimIdempotency
<1>8. CASE /\ idem.key \notin DOMAIN productReceipts
           /\ products' = IF products[p].state = "ready" THEN products
                          ELSE [products EXCEPT ![p].state = "ready",
                                                ![p].official = official,
                                                ![p].version = @ + 1]
           /\ Emits(r, "product.created", p)
           /\ \E answer : CompleteIdempotency(r, idem, answer)
  <2>1. /\ p \in DOMAIN products /\ products[p].state = "pending"
        /\ {"state", "official", "version"} \subseteq DOMAIN products[p]
    BY <1>6, <1>8
  <2>2. PICK version : products' = [products EXCEPT ![p].state = "ready", ![p].official = official,
                                                    ![p].version = version]
    <3>1. products' = [products EXCEPT ![p].state = "ready", ![p].official = official,
                                       ![p].version = products[p].version + 1]
      BY <1>8, <2>1
    <3> QED BY <3>1
  <2>3. /\ DOMAIN products' = DOMAIN products
        /\ \A x \in DOMAIN products \ {p} : products'[x] = products[x]
        /\ {"state", "official", "version"} \subseteq DOMAIN products'[p]
        /\ products'[p].state = "ready" /\ products'[p].official = official
    BY <2>1, <2>2
  <2>4. idem.key \in DOMAIN productReceipts'
    BY <1>8 DEF CompleteIdempotency, Receipted, Added
  <2>5. productEvents' = productEvents \cup
            {[id |-> NewId(r), type |-> "product.created", subject |-> p]}
    BY <1>8 DEF Emits
  <2> QED BY <1>1, <1>2, <1>3, <1>5, <2>1, <2>3, <2>4, <2>5
<1> QED
    BY <1>3, <1>5, <1>7, <1>8 DEF CompleteStep, CompleteProvisioning, Proceeds

\* The tenants after a step: a product keeps the official tenant it has, has no other, and
\* its receipts name it.
LEMMA TenantsStayKnown ==
    ASSUME FlowType, ProvisioningInv, [Next]_vars
    PROVE  /\ StaysFresh(DOMAIN tenants', MakesTenant)
           /\ \A p, t : Official(tenants, p, t) => Official(tenants', p, t)
           /\ \A p, t, u : Official(tenants', p, t) /\ Official(tenants', p, u) => t = u
           /\ \A k \in DOMAIN tenantReceipts' :
                 k[1] = "tenant.ensure_official" =>
                     Official(tenants', k[3], tenantReceipts'[k].response.tenant)
<1>1. /\ \A t \in DOMAIN tenants : t \in DOMAIN tenants' /\ tenants'[t] = tenants[t]
      /\ \A k \in DOMAIN tenantReceipts :
            k \in DOMAIN tenantReceipts' /\ tenantReceipts'[k] = tenantReceipts[k]
    BY RowsStay
<1>2. \A p, t : Official(tenants, p, t) => Official(tenants', p, t)
    BY <1>1 DEF Official
<1>3. /\ \A p, t, u : Official(tenants, p, t) /\ Official(tenants, p, u) => t = u
      /\ \A k \in DOMAIN tenantReceipts :
            k[1] = "tenant.ensure_official" =>
                Official(tenants, k[3], tenantReceipts[k].response.tenant)
    BY OfficialIs DEF ProvisioningInv, TenantsKnown, Official, Ensures
<1>4. Fresh(DOMAIN tenants, MakesTenant)
    BY DEF ProvisioningInv
<1>5. CASE UNCHANGED tenantVars
  <2>1. StaysFresh(DOMAIN tenants, MakesTenant)
    BY <1>4, FreshKept DEF Making
  <2> QED BY <1>2, <1>3, <1>5, <2>1 DEF tenantVars
<1>6. ASSUME NEW r \in Asked, SoftwareStep(r), stage[r] \in MakesTenant, stage'[r] \notin MakesTenant,
             DOMAIN tenants' = DOMAIN tenants \cup {NewId(r)}
      PROVE  StaysFresh(DOMAIN tenants', MakesTenant)
    BY <1>4, <1>6, FreshAdded DEF Making
<1>7. ASSUME NEW r \in Asked, EnsureStep(r), ~UNCHANGED tenantVars
      PROVE  /\ StaysFresh(DOMAIN tenants', MakesTenant)
             /\ \A p, t, u : Official(tenants', p, t) /\ Official(tenants', p, u) => t = u
             /\ \A k \in DOMAIN tenantReceipts' :
                   k[1] = "tenant.ensure_official" =>
                       Official(tenants', k[3], tenantReceipts'[k].response.tenant)
  <2>0. PICK p, t, id : p = context[r].product /\ t = Got(r).tenant /\ id = NewId(r)
    OBVIOUS
  <2>1. PICK k :
            /\ k[1] = "tenant.ensure_official" /\ k[3] = p
            /\ DOMAIN tenantReceipts' = DOMAIN tenantReceipts \cup {k}
            /\ tenantReceipts'[k].response.tenant = t
            /\ Official(tenants', p, t)
            /\ \/ UNCHANGED tenants
               \/ /\ t = id /\ id \notin DOMAIN tenants
                  /\ OfficialTenants(p) = {}
                  /\ DOMAIN tenants' = DOMAIN tenants \cup {id}
    BY <1>7, <2>0, EnsureEffect
  <2>2. SoftwareStep(r) /\ stage[r] = "ensure_official_tenant"
    BY <1>7, EnsureEffect DEF SoftwareStep
  <2>3. stage'[r] \in {"complete_provisioning", "done"}
    BY <1>7, <2>2, ContinuesMoves DEF EnsureStep, MovesOn, MovesTo, FlowType
  <2>4. StaysFresh(DOMAIN tenants', MakesTenant)
    <3>1. CASE UNCHANGED tenants
      BY <1>4, <3>1, FreshKept DEF Making
    <3> QED BY <1>6, <2>0, <2>1, <2>2, <2>3, <3>1 DEF MakesTenant
  <2>5. \A q, x, u : Official(tenants', q, x) /\ Official(tenants', q, u) => x = u
    <3>1. CASE UNCHANGED tenants
      BY <1>3, <3>1
    <3>2. CASE t = id /\ OfficialTenants(p) = {} /\ DOMAIN tenants' = DOMAIN tenants \cup {id}
      <4>1. \A x : ~Official(tenants, p, x)
        BY <3>2, OfficialIs
      <4>2. \A q, x : Official(tenants', q, x) => Official(tenants, q, x) \/ (x = id /\ q = p)
        BY <1>1, <2>1, <3>2 DEF Official
      <4> QED BY <1>3, <4>1, <4>2
    <3> QED BY <2>1, <3>1, <3>2
  <2>6. \A l \in DOMAIN tenantReceipts' :
            l[1] = "tenant.ensure_official" =>
                Official(tenants', l[3], tenantReceipts'[l].response.tenant)
    BY <1>1, <1>2, <1>3, <2>1
  <2> QED BY <2>4, <2>5, <2>6
<1>8. ASSUME NEW r \in Asked, CreateTenantStep(r), ~UNCHANGED tenantVars
      PROVE  /\ StaysFresh(DOMAIN tenants', MakesTenant)
             /\ \A p, t, u : Official(tenants', p, t) /\ Official(tenants', p, u) => t = u
             /\ \A k \in DOMAIN tenantReceipts' :
                   k[1] = "tenant.ensure_official" =>
                       Official(tenants', k[3], tenantReceipts'[k].response.tenant)
  <2>1. PICK id : /\ id = NewId(r) /\ id \notin DOMAIN tenants
                  /\ DOMAIN tenants' = DOMAIN tenants \cup {id}
                  /\ tenants'[id].type = "agent"
                  /\ \A k \in DOMAIN tenantReceipts' :
                        k[1] = "tenant.ensure_official" => k \in DOMAIN tenantReceipts
    BY <1>8, CreateTenantEffect
  <2>2. SoftwareStep(r) /\ stage[r] = "create_tenant"
    BY <1>8, CreateTenantEffect DEF SoftwareStep
  <2>3. stage'[r] \in {"answer", "done"}
    BY <1>8, <2>2, ContinuesMoves DEF CreateTenantStep, MovesOn, MovesTo, FlowType
  <2>4. StaysFresh(DOMAIN tenants', MakesTenant)
    BY <1>6, <2>1, <2>2, <2>3 DEF MakesTenant
  <2>5. \A q, x : Official(tenants', q, x) => Official(tenants, q, x)
    BY <1>1, <2>1 DEF Official
  <2> QED BY <1>1, <1>2, <1>3, <2>1, <2>4, <2>5
<1> QED BY <1>2, <1>5, <1>7, <1>8, StepMoves, Writers DEF softwareVars, tenantVars

\* The products after a step.
LEMMA ProductsStayKnown ==
    ASSUME FlowType, ProvisioningInv, [Next]_vars
    PROVE  /\ StaysFresh(DOMAIN products', {"begin_provisioning"})
           /\ \A p \in DOMAIN products' : ProductKnown(p)'
           /\ \A e \in productEvents' : e.type = "product.created" => e.subject \in DOMAIN products'
           /\ BeginsKnown'
<1>1. /\ \A k \in DOMAIN productReceipts :
            k \in DOMAIN productReceipts' /\ productReceipts'[k] = productReceipts[k]
      /\ productEvents \subseteq productEvents'
    BY RowsStay
<1>2. \A p : OfficialTenants(p) \subseteq OfficialTenants(p)'
    BY TenantsStayKnown, OfficialIs
<1>3. /\ Fresh(DOMAIN products, {"begin_provisioning"})
      /\ \A p \in DOMAIN products : ProductKnown(p)
      /\ \A e \in productEvents : e.type = "product.created" => e.subject \in DOMAIN products
      /\ BeginsKnown
    BY DEF ProvisioningInv
<1>4. ASSUME UNCHANGED products,
             \A e \in productEvents' \ productEvents : e.type # "product.created",
             \A k \in DOMAIN productReceipts' :
                k[1] = "product.begin_provisioning" => k \in DOMAIN productReceipts
      PROVE  /\ StaysFresh(DOMAIN products', {"begin_provisioning"})
             /\ \A p \in DOMAIN products' : ProductKnown(p)'
             /\ \A e \in productEvents' :
                   e.type = "product.created" => e.subject \in DOMAIN products'
             /\ BeginsKnown'
  <2>1. \A p : CreatedEvents(p)' = CreatedEvents(p)
    BY <1>1, <1>4 DEF CreatedEvents
  <2>2. Begins' = Begins /\ \A k \in Begins : BegunProduct(k)' = BegunProduct(k)
    BY <1>1, <1>4 DEF Begins, BegunProduct
  <2>3. StaysFresh(DOMAIN products, {"begin_provisioning"})
    BY <1>3, FreshKept DEF Making
  <2>4. \A p \in DOMAIN products' : ProductKnown(p)'
    BY <1>1, <1>2, <1>3, <1>4, <2>1 DEF ProductKnown
  <2>5. BeginsKnown'
    BY <1>1, <1>3, <1>4, <2>2 DEF BeginsKnown, Begins, BegunProduct
  <2> QED BY <1>3, <1>4, <2>3, <2>4, <2>5
<1>5. ASSUME NEW r \in Asked, BeginStep(r), ~UNCHANGED productVars
      PROVE  /\ StaysFresh(DOMAIN products', {"begin_provisioning"})
             /\ \A p \in DOMAIN products' : ProductKnown(p)'
             /\ \A e \in productEvents' :
                   e.type = "product.created" => e.subject \in DOMAIN products'
             /\ BeginsKnown'
  <2>0. PICK actor, key, id, l : /\ actor = context[r].actor /\ key = context[r].key /\ id = NewId(r)
                                 /\ l = BeginKey(actor, key)
    OBVIOUS
  <2>1. /\ stage'[r] \in {"ensure_official_tenant", "done"}
        /\ id \notin DOMAIN products /\ l \notin DOMAIN productReceipts
        /\ DOMAIN products' = DOMAIN products \cup {id}
        /\ \A p \in DOMAIN products : products'[p] = products[p]
        /\ products'[id].state = "pending"
        /\ {"state", "official", "version"} \subseteq DOMAIN products'[id]
        /\ DOMAIN productReceipts' = DOMAIN productReceipts \cup {l}
        /\ productReceipts'[l].response = [product |-> id]
    BY <1>5, <2>0, BeginEffect
  <2>2. SoftwareStep(r) /\ stage[r] = "begin_provisioning"
    BY <1>5 DEF SoftwareStep, BeginStep, OnProducts, At
  <2>3. StaysFresh(DOMAIN products', {"begin_provisioning"})
    BY <1>3, <2>0, <2>1, <2>2, FreshAdded DEF Making
  <2>4. \A e \in productEvents' \ productEvents : e.type # "product.created"
    <3>1. ~CompleteStep(r)
      BY <2>2 DEF CompleteStep, OnProducts, At
    <3> QED BY <2>2, <3>1, NewEvents
  <2>5. \A p : CreatedEvents(p)' = CreatedEvents(p)
    BY <1>1, <2>4 DEF CreatedEvents
  <2>6. \A p \in DOMAIN products' : ProductKnown(p)'
    <3>1. CreatedEvents(id) = {}
      BY <1>3, <2>1 DEF CreatedEvents
    <3>2. ProductKnown(id)'
      BY <2>1, <2>5, <3>1 DEF ProductKnown
    <3>3. \A p \in DOMAIN products : ProductKnown(p)'
      BY <1>1, <1>2, <1>3, <2>1, <2>5 DEF ProductKnown
    <3> QED BY <2>1, <3>2, <3>3
  <2>7. BeginsKnown'
    <3>1. l[1] = "product.begin_provisioning" /\ l = BeginKey(l[2], l[4][1])
      BY <2>0 DEF BeginKey
    <3>2. Begins' = Begins \cup {l} /\ l \notin Begins
      BY <2>1, <3>1 DEF Begins
    <3>3. \A k \in Begins : /\ BegunProduct(k)' = BegunProduct(k) /\ BegunProduct(k) \in DOMAIN products
                            /\ productReceipts'[k] = productReceipts[k]
      BY <1>1, <1>3 DEF Begins, BegunProduct, BeginsKnown
    <3>4. BegunProduct(l)' = id /\ DOMAIN productReceipts'[l].response = {"product"}
      BY <2>1 DEF BegunProduct
    <3> QED BY <1>1, <1>3, <2>1, <3>1, <3>2, <3>3, <3>4 DEF BeginsKnown
  <2> QED BY <1>3, <2>1, <2>3, <2>4, <2>6, <2>7
<1>6. ASSUME NEW r \in Asked, CompleteStep(r), ~UNCHANGED productVars
      PROVE  /\ StaysFresh(DOMAIN products', {"begin_provisioning"})
             /\ \A p \in DOMAIN products' : ProductKnown(p)'
             /\ \A e \in productEvents' :
                   e.type = "product.created" => e.subject \in DOMAIN products'
             /\ BeginsKnown'
  <2>0. PICK actor, key, p, official, created :
            /\ actor = context[r].actor /\ key = context[r].key /\ p = context[r].product
            /\ official = context[r].official
            /\ created = [id |-> NewId(r), type |-> "product.created", subject |-> p]
    OBVIOUS
  <2>1. /\ p \in DOMAIN products /\ products[p].state = "pending"
        /\ DOMAIN products' = DOMAIN products
        /\ \A x \in DOMAIN products \ {p} : products'[x] = products[x]
        /\ {"state", "official", "version"} \subseteq DOMAIN products'[p]
        /\ products'[p].state = "ready" /\ products'[p].official = official
        /\ CompleteKey(actor, key, p) \in DOMAIN productReceipts'
        /\ productEvents' = productEvents \cup {created}
        /\ Provisions(productReceipts, tenants, context[r], "complete_provisioning")
    BY <1>6, <2>0, CompleteEffect
  <2>2. /\ BeginKey(actor, key) \in Begins /\ BegunProduct(BeginKey(actor, key)) = p
        /\ official \in OfficialTenants(p)
    BY <2>0, <2>1, OfficialIs DEF Provisions, Begins, BegunProduct, BeginKey
  <2>3. SoftwareStep(r) /\ ~BeginStep(r)
    BY <1>6, CompleteEffect DEF SoftwareStep, BeginStep, OnProducts, At
  <2>4. StaysFresh(DOMAIN products', {"begin_provisioning"})
    BY <1>3, <2>1, FreshKept DEF Making
  <2>5. CreatedEvents(p)' = {created} /\ \A x : x # p => CreatedEvents(x)' = CreatedEvents(x)
    <3>1. CreatedEvents(p) = {}
      BY <1>3, <2>1 DEF ProductKnown
    <3> QED BY <2>0, <2>1, <3>1 DEF CreatedEvents
  <2>6. \A x \in DOMAIN products' : ProductKnown(x)'
    <3>1. ProductKnown(p)'
      BY <1>2, <2>1, <2>2, <2>5 DEF ProductKnown
    <3>2. ASSUME NEW x \in DOMAIN products, x # p PROVE ProductKnown(x)'
      BY <1>1, <1>2, <1>3, <2>1, <2>5, <3>2 DEF ProductKnown
    <3> QED BY <2>1, <3>1, <3>2
  <2>7. BeginsKnown'
    <3>1. Begins' = Begins
      BY <1>1, <2>3, OtherBegins DEF Begins
    <3>2. \A k \in Begins : BegunProduct(k)' = BegunProduct(k) /\ productReceipts'[k] = productReceipts[k]
      BY <1>1 DEF Begins, BegunProduct
    <3>3. BeginKey(actor, key)[2] = actor /\ BeginKey(actor, key)[4][1] = key
      BY DEF BeginKey
    <3>4. ASSUME NEW k \in Begins, products'[BegunProduct(k)].state = "ready"
          PROVE  CompleteKey(k[2], k[4][1], BegunProduct(k)) \in DOMAIN productReceipts'
      <4>1. CASE BegunProduct(k) = p
        <5>1. k = BeginKey(actor, key)
          BY <1>3, <2>2, <4>1 DEF BeginsKnown
        <5> QED BY <2>1, <3>3, <4>1, <5>1
      <4>2. CASE BegunProduct(k) # p
        BY <1>1, <1>3, <2>1, <3>4, <4>2 DEF BeginsKnown
      <4> QED BY <4>1, <4>2
    <3> QED BY <1>3, <2>1, <3>1, <3>2, <3>4 DEF BeginsKnown
  <2>8. \A e \in productEvents' : e.type = "product.created" => e.subject \in DOMAIN products'
    BY <1>3, <2>0, <2>1
  <2> QED BY <2>4, <2>6, <2>7, <2>8
<1>7. ASSUME NEW r \in Asked, SoftwareStep(r), ~BeginStep(r), ~CompleteStep(r)
      PROVE  /\ UNCHANGED products
             /\ \A e \in productEvents' \ productEvents : e.type # "product.created"
             /\ \A k \in DOMAIN productReceipts' :
                   k[1] = "product.begin_provisioning" => k \in DOMAIN productReceipts
  <2>1. UNCHANGED products
    BY <1>7, Writers
  <2>2. \A e \in productEvents' \ productEvents : e.type # "product.created"
    BY <1>7, NewEvents
  <2>3. \A k \in DOMAIN productReceipts' :
            k[1] = "product.begin_provisioning" => k \in DOMAIN productReceipts
    BY <1>7, OtherBegins
  <2> QED BY <2>1, <2>2, <2>3
<1>8. CASE UNCHANGED productVars
    BY <1>4, <1>8 DEF productVars
<1> QED BY <1>4, <1>5, <1>6, <1>7, <1>8, StepMoves DEF softwareVars

\* A request that creates a product knows it, and its official tenant, from the calls that
\* answered.
LEMMA ProvisionsStay ==
    ASSUME FlowType, ProvisioningInv, [Next]_vars, NEW q \in Asked,
           stage'[q] \in ProvisioningSteps
    PROVE  Provisions(productReceipts', tenants', context'[q], stage'[q])
<1>1. Moves(q)
    BY StepMoves
<1>2. stage'[q] \notin Elsewhere /\ stage'[q] # "done"
    BY DEF ProvisioningSteps, Elsewhere
<1>3. /\ \A k \in DOMAIN productReceipts :
            k \in DOMAIN productReceipts' /\ productReceipts'[k] = productReceipts[k]
      /\ \A p, t : Official(tenants, p, t) => Official(tenants', p, t)
    BY RowsStay, TenantsStayKnown
<1>4. stage[q] \in ProvisioningSteps =>
          Provisions(productReceipts, tenants, context[q], stage[q])
    BY DEF ProvisioningInv
<1>5. CASE stage'[q] = stage[q] /\ context'[q] = context[q]
    BY <1>3, <1>4, <1>5 DEF Provisions
<1>6. CASE Send(q)
  <2>1. /\ Kind(q) = "create_product" /\ context'[q] = Prepared(q)
        /\ stage'[q] = "begin_provisioning"
    BY <1>2, <1>6, Sent DEF FirstStep, ProvisioningSteps
  <2>2. {"actor", "key"} \subseteq DOMAIN Command(q).with \ DOMAIN Command(q).uses
    BY <2>1, WorkloadsAssumption DEF FlowType, Kind, Command, Asked, KeyedKinds
  <2>3. Prepared(q) = Joined([f \in DOMAIN Command(q).uses |-> outcome[Command(q).uses[f]].value[f]],
                             Command(q).with)
    BY <2>1 DEF Prepared, Timed, Proving
  <2>4. {"actor", "key"} \subseteq DOMAIN context'[q]
    BY <2>1, <2>2, <2>3, JoinedIs
  <2> QED BY <2>1, <2>4 DEF Provisions
<1>7. CASE BeginStep(q) /\ stage'[q] = "ensure_official_tenant"
  <2>0. PICK actor, key, k, got : /\ actor = context[q].actor /\ key = context[q].key
                                  /\ k = BeginKey(actor, key) /\ got = Got(q)
    OBVIOUS
  <2>1. /\ {"actor", "key"} \subseteq DOMAIN context[q]
        /\ k \in DOMAIN productReceipts' /\ got = productReceipts'[k].response
    BY <1>2, <1>7, <2>0, BeginEffect
  <2>2. context'[q] = Joined(got, context[q])
    BY <1>2, <1>7, <2>0, GoesOnWith DEF BeginStep
  <2>3. DOMAIN got = {"product"}
    BY <2>0, <2>1, ProductsStayKnown DEF BeginsKnown, Begins, BeginKey
  <2>4. /\ {"actor", "key", "product"} \subseteq DOMAIN context'[q]
        /\ context'[q].actor = actor /\ context'[q].key = key
        /\ context'[q].product = got.product
    BY <2>0, <2>1, <2>2, <2>3, JoinedIs
  <2> QED BY <1>7, <2>0, <2>1, <2>4 DEF Provisions
<1>8. CASE EnsureStep(q) /\ stage'[q] = "complete_provisioning"
  <2>0. PICK actor, key, p, t : /\ actor = context[q].actor /\ key = context[q].key
                                /\ p = context[q].product /\ t = Got(q).tenant
    OBVIOUS
  <2>1. Official(tenants', p, t) /\ stage[q] = "ensure_official_tenant"
    <3>1. Official(tenants, p, t) \/ Official(tenants', p, t)
      BY <1>2, <1>8, <2>0, EnsureEffect
    <3> QED BY <1>3, <1>8, <3>1, EnsureEffect
  <2>2. context'[q] = Joined([official |-> t], context[q])
    BY <1>2, <1>8, <2>0, GoesOnWith DEF EnsureStep
  <2>3. Provisions(productReceipts, tenants, context[q], "ensure_official_tenant")
    BY <1>4, <2>1 DEF ProvisioningSteps
  <2>4. DOMAIN [official |-> t] = {"official"} /\ [official |-> t].official = t
    OBVIOUS
  <2>5. {"actor", "key", "product"} \subseteq DOMAIN context[q]
    BY <2>3 DEF Provisions
  <2>6. /\ {"actor", "key", "product", "official"} \subseteq DOMAIN context'[q]
        /\ context'[q].actor = actor /\ context'[q].key = key
        /\ context'[q].product = p /\ context'[q].official = t
    BY <2>0, <2>2, <2>4, <2>5, JoinedIs
  <2> QED BY <1>3, <1>8, <2>0, <2>1, <2>3, <2>6 DEF Provisions
<1> QED BY <1>1, <1>2, <1>5, <1>6, <1>7, <1>8 DEF Moves, Passes, ProvisioningSteps

LEMMA ProvisioningStep == FlowType /\ ProvisioningInv /\ [Next]_vars => ProvisioningInv'
<1> SUFFICES ASSUME FlowType, ProvisioningInv, [Next]_vars PROVE ProvisioningInv'
    OBVIOUS
<1>1. Asked' = Asked
    BY StepMoves DEF Asked
<1>2. /\ Fresh(DOMAIN products, {"begin_provisioning"})'
      /\ \A p \in DOMAIN products' : ProductKnown(p)'
      /\ \A e \in productEvents' : e.type = "product.created" => e.subject \in DOMAIN products'
      /\ BeginsKnown'
    BY ProductsStayKnown DEF Fresh, StaysFresh
<1>3. Fresh(DOMAIN tenants, MakesTenant)'
    BY TenantsStayKnown DEF Fresh, StaysFresh
<1>4. TenantsKnown'
  <2>1. \A t, u \in DOMAIN tenants' :
            (/\ tenants'[t].type = "official" /\ tenants'[u].type = "official"
             /\ tenants'[t].product = tenants'[u].product) => t = u
    BY TenantsStayKnown DEF Official
  <2>2. \A k \in Ensures' : tenantReceipts'[k].response.tenant \in OfficialTenants(k[3])'
    BY TenantsStayKnown, OfficialIs DEF Ensures
  <2> QED BY <2>1, <2>2 DEF TenantsKnown
<1>5. \A r \in Asked' : stage'[r] \in ProvisioningSteps =>
          Provisions(productReceipts', tenants', context'[r], stage'[r])
    BY <1>1, ProvisionsStay
<1> QED BY <1>2, <1>3, <1>4, <1>5 DEF ProvisioningInv

\* The inductive invariant of the provisioning of products.
THEOREM ProvisioningCorrect == Spec => []ProvisioningInv
<1>1. Init => ProvisioningInv
    BY DEF Init, ProductInit, TenantInit, ProvisioningInv, Fresh, BeginsKnown, TenantsKnown, Begins,
        Ensures, ProvisioningSteps
<1> QED BY <1>1, InitFlow, FlowCorrect, ProvisioningStep, PTL DEF Spec

\* A product never has a second official tenant, and never is ready without the one it
\* names, wherever its creation failed and was taken up again (workflows/productprovisioning).
THEOREM ReadyProductsAreWhole == Spec => []ReadyHasOfficialTenant
<1>1. ProvisioningInv => ReadyHasOfficialTenant
  <2> SUFFICES ASSUME ProvisioningInv, NEW p \in DOMAIN products
               PROVE  /\ Cardinality(OfficialTenants(p)) <= 1
                      /\ products[p].state = "ready" => products[p].official \in OfficialTenants(p)
      BY DEF ReadyHasOfficialTenant
  <2>1. products[p].state = "ready" => products[p].official \in OfficialTenants(p)
      BY DEF ProvisioningInv, ProductKnown
  <2>2. \A t, u \in OfficialTenants(p) : t = u
      BY DEF ProvisioningInv, TenantsKnown, OfficialTenants, TenantsOf
  <2>3. OfficialTenants(p) = {} \/ \E t : OfficialTenants(p) = {t}
      BY <2>2
  <2>4. Cardinality(OfficialTenants(p)) \in {0, 1}
      BY <2>3, FS_EmptySet, FS_Singleton
  <2> QED BY <2>1, <2>4
<1> QED BY <1>1, ProvisioningCorrect, PTL

\* The inductive invariant of the events of clients and tenants.
THEOREM ToldCorrect == Spec => []ToldInv
<1>1. Init => ToldInv
    BY DEF Init, ProductInit, TenantInit, ToldInv
<1> QED BY <1>1, InitFlow, FlowCorrect, ToldStep, PTL DEF Spec

\* What happened is told once, whatever was repeated or doubled (the modules' outboxes).
THEOREM EffectsAreToldOnce == Spec => []AuditedOnce
<1>1. ASSUME NEW events, NEW type, NEW subject, NEW e \in events, e.type = type, e.subject = subject,
             \A f \in events : (f.type = type /\ f.subject = subject) => f = e
      PROVE  Count(events, type, subject) = 1
  <2>1. {f \in events : f.type = type /\ f.subject = subject} = {e}
      BY <1>1
  <2> QED BY <2>1, FS_Singleton DEF Count
<1>2. ASSUME NEW events, NEW type, NEW subject,
             \A f \in events : ~(f.type = type /\ f.subject = subject)
      PROVE  Count(events, type, subject) = 0
  <2>1. {f \in events : f.type = type /\ f.subject = subject} = {}
      BY <1>2
  <2> QED BY <2>1, FS_EmptySet DEF Count
<1>3. ProvisioningInv /\ ToldInv /\ ApplicationInv => AuditedOnce
  <2> SUFFICES ASSUME ProvisioningInv, ToldInv, ApplicationInv PROVE AuditedOnce
      OBVIOUS
  <2>1. ASSUME NEW p \in DOMAIN products
        PROVE  Count(productEvents, "product.created", p) = IF products[p].state = "ready" THEN 1 ELSE 0
    <3>1. ProductKnown(p)
      BY DEF ProvisioningInv
    <3>2. CASE products[p].state = "ready"
      <4>1. PICK e \in productEvents : CreatedEvents(p) = {e}
        BY <3>1, <3>2 DEF ProductKnown
      <4> QED BY <1>1, <3>2, <4>1 DEF CreatedEvents
    <3>3. CASE products[p].state # "ready"
      BY <1>2, <3>1, <3>3 DEF ProductKnown, CreatedEvents
    <3> QED BY <3>2, <3>3
  <2>2. ASSUME NEW client \in DOMAIN clients
        PROVE  Count(productEvents, "product.client_registered", client) = 1
    <3>1. /\ Registered(client) \in productEvents
          /\ Registered(client).type = "product.client_registered" /\ Registered(client).subject = client
      BY DEF ToldInv, Registered
    <3>2. \A f \in productEvents :
              (f.type = "product.client_registered" /\ f.subject = client) => f = Registered(client)
      BY DEF ToldInv
    <3> QED BY <1>1, <3>1, <3>2
  <2>3. ASSUME NEW t \in DOMAIN tenants PROVE Count(tenantEvents, "tenant.created", t) = 1
    <3>1. /\ Created(t) \in tenantEvents
          /\ Created(t).type = "tenant.created" /\ Created(t).subject = t
      BY DEF ToldInv, Created
    <3>2. \A f \in tenantEvents : (f.type = "tenant.created" /\ f.subject = t) => f = Created(t)
      BY DEF ToldInv
    <3> QED BY <1>1, <3>1, <3>2
  <2>4. ASSUME NEW app \in DOMAIN applications
        PROVE  /\ Count(applicationEvents, "suspended", app) <= 1
               /\ Count(applicationEvents, "redirects_changed", app) = applications[app].redirects
    <3>1. Count(applicationEvents, "suspended", app) \in {0, 1}
      <4>1. CASE \E e \in applicationEvents : e.type = "suspended" /\ e.subject = app
        <5>1. PICK e \in applicationEvents : e.type = "suspended" /\ e.subject = app
          BY <4>1
        <5>2. \A f \in applicationEvents : (f.type = "suspended" /\ f.subject = app) => f = e
          BY <5>1 DEF ApplicationInv, SuspensionsTold
        <5> QED BY <1>1, <5>1, <5>2
      <4>2. CASE \A e \in applicationEvents : ~(e.type = "suspended" /\ e.subject = app)
        BY <1>2, <4>2
      <4> QED BY <4>1, <4>2
    <3>2. Count(applicationEvents, "redirects_changed", app) = applications[app].redirects
      BY DEF ApplicationInv, Numbered, EventsOf, Count
    <3> QED BY <3>1, <3>2
  <2> QED BY <2>1, <2>2, <2>3, <2>4 DEF AuditedOnce
<1> QED BY <1>3, ProvisioningCorrect, ToldCorrect, ApplicationsCorrect, PTL
=============================================================================
