-------------------------- MODULE AdminRequestsProofs --------------------------
(***************************************************************************)
(* Proofs about the requests of administrators, run beside those on the    *)
(* software: what logins, renewals, logouts, ended clients and the guard   *)
(* promise, for any requests, commands, failures, locks and deadlocks.     *)
(***************************************************************************)
EXTENDS SoftwareRequestsProofs

-----------------------------------------------------------------------------
(* Where a request is, and what it has been answered.                      *)

\* The steps of the kinds that the invariants below speak about.
Guarding == {"find_session", "session_version", "session_bindings", "session_ended"}
Locking == {"lock_token", "lock_session", "locked"}
Route ==
    [login |-> {"login_throttle", "verify_login", "login_version", "login_bindings",
                "record_failure", "create_admin_session", "clear_failures"},
     current |-> Guarding,
     authorize |-> Guarding \cup {"authorize_version", "authorize_bindings", "decide"},
     refresh |-> {"resolve_client", "inspect_refresh", "refresh_version", "refresh_bindings",
                  "session_ended"} \cup Locking,
     logout |-> {"read_proofs"} \cup Locking,
     disable_admin_client |-> {"disable_sessions", "end_client"},
     revoke_admin_credential |-> {"disable_sessions", "end_client"},
     bind_tenant_admin |-> {"list_tenants", "bind_scope"}]

\* The steps that follow each other, but for those that end a request early.
Ways ==
    {<<"bootstrap_identity", "bootstrap_admin">>, <<"bootstrap_admin", "bootstrap_audit">>,
     <<"bootstrap_audit", "answer">>,
     <<"login_throttle", "verify_login">>, <<"verify_login", "login_version">>,
     <<"verify_login", "record_failure">>, <<"login_version", "login_bindings">>,
     <<"login_version", "record_failure">>, <<"login_bindings", "create_admin_session">>,
     <<"login_bindings", "record_failure">>, <<"create_admin_session", "clear_failures">>,
     <<"clear_failures", "answer">>,
     <<"find_session", "session_version">>, <<"session_version", "session_bindings">>,
     <<"session_version", "session_ended">>, <<"session_bindings", "session_ended">>,
     <<"session_bindings", "answer">>, <<"session_bindings", "authorize_version">>,
     <<"authorize_version", "authorize_bindings">>, <<"authorize_bindings", "decide">>,
     <<"decide", "answer">>,
     <<"resolve_client", "inspect_refresh">>, <<"inspect_refresh", "lock_token">>,
     <<"inspect_refresh", "refresh_version">>, <<"refresh_version", "refresh_bindings">>,
     <<"refresh_version", "lock_token">>, <<"refresh_bindings", "lock_token">>,
     <<"lock_token", "lock_session">>, <<"lock_session", "lock_token">>,
     <<"lock_session", "locked">>, <<"locked", "answer">>, <<"locked", "session_ended">>,
     <<"read_proofs", "lock_token">>, <<"read_proofs", "answer">>,
     <<"register_admin_client", "answer">>, <<"add_admin_credential", "answer">>,
     <<"disable_sessions", "end_client">>, <<"end_client", "answer">>,
     <<"withdraw_scopes", "answer">>}

\* A step about administrators takes its request along one of the ways.
LEMMA AdminWays ==
    ASSUME FlowType, NEW r, AdminStep(r), stage'[r] # "done"
    PROVE  /\ <<stage[r], stage'[r]>> \in Ways
           /\ stage[r] = "session_bindings" =>
                 stage'[r] # (IF Kind(r) = "authorize" THEN "answer" ELSE "authorize_version")
           /\ stage[r] = "locked" /\ stage'[r] = "session_ended" => Kind(r) = "refresh"
<1> USE DEF OnIdentity, OnAccess, At, Ways
<1>0. r \in Asked
    BY AdminMoves
<1>1. CASE BootstrapIdentityStep(r) \/ BootstrapStep(r) \/ BootstrapAuditStep(r)
    BY <1>0, <1>1, GoesOnWith DEF BootstrapIdentityStep, BootstrapStep, BootstrapAuditStep
<1>2. CASE ThrottleStep(r) \/ CreateAdminSessionStep(r) \/ ClearFailuresStep(r)
    BY <1>0, <1>2, GoesOnWith DEF ThrottleStep, CreateAdminSessionStep, ClearFailuresStep
<1>3. CASE VerifyStep(r)
    BY <1>0, <1>3, GoesOnWith DEF VerifyStep
<1>4. CASE RecordFailureStep(r) \/ SessionEndedStep(r)
  <2>1. result'[r].kind = "ok"
    BY <1>0, <1>4, GoesOnWith DEF RecordFailureStep, SessionEndedStep
  <2>2. \E e : Refuses(r, e)
    BY <1>4 DEF RecordFailureStep, SessionEndedStep, RecordLoginFailure
  <2> QED BY <1>0, <2>1, <2>2 DEF Refuses, Error, FlowType
<1>5. CASE LoginVersionStep(r) \/ SessionVersionStep(r) \/ RefreshVersionStep(r)
    BY <1>0, <1>5 DEF LoginVersionStep, SessionVersionStep, RefreshVersionStep, ReadsVersion, Goes,
        FlowType
<1>6. CASE LoginBindingsStep(r) \/ SessionBindingsStep(r) \/ RefreshBindingsStep(r)
    BY <1>0, <1>6 DEF LoginBindingsStep, SessionBindingsStep, RefreshBindingsStep, ReadsBindings, Goes,
        FlowType
<1>7. CASE FindSessionStep(r) \/ AuthorizeVersionStep(r) \/ AuthorizeBindingsStep(r) \/ DecideStep(r)
    BY <1>0, <1>7, GoesOnWith DEF FindSessionStep, AuthorizeVersionStep, AuthorizeBindingsStep, DecideStep
<1>8. CASE LockTokenStep(r) \/ LockSessionStep(r)
    BY <1>0, <1>8, GoesOnWith DEF LockTokenStep, LockSessionStep
<1>9. CASE DeadlockStep(r)
    BY <1>0, <1>9 DEF DeadlockStep, Refused, FlowType
<1>10. CASE ResolveClientStep(r) \/ InspectStep(r)
    BY <1>0, <1>10, GoesOnWith DEF ResolveClientStep, InspectStep
<1>11. CASE RotateRefreshStep(r) \/ RevokeScopelessStep(r) \/ ReadProofsStep(r) \/ LogoutStep(r)
    BY <1>0, <1>11, GoesOnWith DEF RotateRefreshStep, RevokeScopelessStep, ReadProofsStep, LogoutStep
<1>12. CASE \/ RegisterAdminClientStep(r) \/ AddAdminCredentialStep(r) \/ DisableSessionsStep(r)
            \/ EndClientStep(r) \/ WithdrawStep(r)
    BY <1>0, <1>12, GoesOnWith DEF RegisterAdminClientStep, AddAdminCredentialStep,
        DisableSessionsStep, EndClientStep, WithdrawStep
<1> QED
    BY <1>1, <1>2, <1>3, <1>4, <1>5, <1>6, <1>7, <1>8, <1>9, <1>10, <1>11, <1>12 DEF AdminStep

\* The steps on the software.
SoftwareStages ==
    {"begin_provisioning", "ensure_official_tenant", "complete_provisioning", "register_client",
     "bind_client", "rotate_credential", "rotated_context", "revoke_credential",
     "product_context", "application_context", "tenant_context", "authenticate_client",
     "check_client", "create_session", "create_application", "replace_redirects",
     "suspend_application", "replace_capabilities", "create_tenant", "list_tenants", "bind_scope"}

\* Those of the other kinds.
OtherStages ==
    SoftwareStages \cup {"bootstrap_identity", "bootstrap_admin", "bootstrap_audit",
                         "register_admin_client", "add_admin_credential", "withdraw_scopes"}

LEMMA SoftwareWays ==
    ASSUME FlowType, NEW r, SoftwareStep(r)
    PROVE  /\ stage[r] \in SoftwareStages
           /\ stage'[r] \in SoftwareStages \cup {"answer", "done"}
           /\ stage[r] = "list_tenants" => stage'[r] \in {"bind_scope", "done"}
           /\ stage'[r] # "list_tenants" /\ (stage'[r] = "bind_scope" => stage[r] = "list_tenants")
           /\ stage[r] = "bind_scope" => BindScopeStep(r)
<1> USE DEF OnProducts, OnApplications, OnTenants, OnAccess, At, SoftwareStages
<1>0. ASSUME r \in Asked, NEW next, NEW kept, Continues(r, next, kept) PROVE stage'[r] \in {next, "done"}
    BY <1>0, ContinuesMoves DEF MovesOn, MovesTo, FlowType
<1>1. CASE BeginStep(r) \/ EnsureStep(r) \/ CompleteStep(r) \/ RegisterStep(r) \/ BindClientStep(r)
    BY <1>0, <1>1 DEF BeginStep, EnsureStep, CompleteStep, RegisterStep, BindClientStep
<1>2. CASE RotateStep(r) \/ RotatedContextStep(r) \/ RevokeStep(r) \/ ProductContextStep(r)
    BY <1>0, <1>2 DEF RotateStep, RotatedContextStep, RevokeStep, ProductContextStep
<1>3. CASE \/ ApplicationContextStep(r) \/ TenantContextStep(r) \/ AuthenticateStep(r) \/ CheckStep(r)
           \/ CreateSessionStep(r)
    BY <1>0, <1>3 DEF ApplicationContextStep, TenantContextStep, AuthenticateStep, CheckStep,
        CreateSessionStep
<1>4. CASE \/ CreateApplicationStep(r) \/ ReplaceRedirectsStep(r) \/ SuspendApplicationStep(r)
           \/ ReplaceCapabilitiesStep(r) \/ CreateTenantStep(r)
    BY <1>0, <1>4 DEF CreateApplicationStep, ReplaceRedirectsStep, SuspendApplicationStep,
        ReplaceCapabilitiesStep, CreateTenantStep
<1>5. CASE ListTenantsStep(r) \/ BindScopeStep(r)
    BY <1>0, <1>5 DEF ListTenantsStep, BindScopeStep
<1> QED BY <1>1, <1>2, <1>3, <1>4, <1>5 DEF SoftwareStep

\* What the turn of a request is.
Same(q) ==
    /\ attempt'[q] = attempt[q] /\ stage'[q] = stage[q]
    /\ context'[q] = context[q] /\ outcome'[q] = outcome[q]

LEMMA Turns ==
    ASSUME FlowType, [Next]_vars, NEW q \in Asked
    PROVE  Same(q) \/ Send(q) \/ Deliver(q) \/ Fail(q) \/ SoftwareStep(q) \/ AdminStep(q)
<1>1. CASE UNCHANGED vars \/ Tick
    BY <1>1 DEF vars, flowVars, Tick, Same
<1>2. ASSUME NEW r \in Asked, r # q, Send(r) \/ Deliver(r) \/ Fail(r) PROVE Same(q)
    BY <1>2 DEF Send, Deliver, Fail, Same, FlowType
<1>3. ASSUME NEW r \in Asked, r # q, SoftwareStep(r) \/ AdminStep(r) PROVE Same(q)
  <2>1. PICK next : MovesTo(r, next) /\ r \in Asked
    BY <1>3, SoftwareMoves, AdminMoves
  <2> QED BY <1>3, <2>1 DEF MovesTo, Same, FlowType
<1> QED BY <1>1, <1>2, <1>3 DEF Next, GoesOn

\* A step is taken by a request that is under way and not only waits for its answer.
LEMMA StepsBegin ==
    ASSUME NEW r, SoftwareStep(r) \/ AdminStep(r)
    PROVE  stage[r] \notin {"idle", "done", "answer"}
<1> USE DEF OnIdentity, OnAccess, At
<1>1. CASE SoftwareStep(r)
  <2> USE DEF OnProducts, OnApplications, OnTenants
  <2>1. CASE BeginStep(r) \/ EnsureStep(r) \/ CompleteStep(r) \/ RegisterStep(r) \/ BindClientStep(r)
      BY <2>1 DEF BeginStep, EnsureStep, CompleteStep, RegisterStep, BindClientStep
  <2>2. CASE RotateStep(r) \/ RotatedContextStep(r) \/ RevokeStep(r) \/ ProductContextStep(r)
      BY <2>2 DEF RotateStep, RotatedContextStep, RevokeStep, ProductContextStep
  <2>3. CASE \/ ApplicationContextStep(r) \/ TenantContextStep(r) \/ AuthenticateStep(r) \/ CheckStep(r)
             \/ CreateSessionStep(r)
      BY <2>3 DEF ApplicationContextStep, TenantContextStep, AuthenticateStep, CheckStep, CreateSessionStep
  <2>4. CASE \/ CreateApplicationStep(r) \/ ReplaceRedirectsStep(r) \/ SuspendApplicationStep(r)
             \/ ReplaceCapabilitiesStep(r) \/ CreateTenantStep(r)
      BY <2>4 DEF CreateApplicationStep, ReplaceRedirectsStep, SuspendApplicationStep,
          ReplaceCapabilitiesStep, CreateTenantStep
  <2>5. CASE ListTenantsStep(r) \/ BindScopeStep(r)
      BY <2>5 DEF ListTenantsStep, BindScopeStep
  <2> QED BY <1>1, <2>1, <2>2, <2>3, <2>4, <2>5 DEF SoftwareStep
<1>2. CASE DeadlockStep(r)
  <2>1. WaitingFor(r) # {}
      BY <1>2 DEF DeadlockStep, Deadlocked
  <2>2. stage[r] # "answer"
      BY <2>1 DEF WaitingFor, WantedRows, Holders
  <2> QED BY <1>2, <2>2 DEF DeadlockStep, Under
<1>3. CASE BootstrapIdentityStep(r) \/ BootstrapStep(r) \/ BootstrapAuditStep(r)
    BY <1>3 DEF BootstrapIdentityStep, BootstrapStep, BootstrapAuditStep
<1>4. CASE ThrottleStep(r) \/ VerifyStep(r) \/ LoginVersionStep(r) \/ LoginBindingsStep(r)
    BY <1>4 DEF ThrottleStep, VerifyStep, LoginVersionStep, LoginBindingsStep, ReadsVersion, ReadsBindings
<1>5. CASE RecordFailureStep(r) \/ CreateAdminSessionStep(r) \/ ClearFailuresStep(r) \/ FindSessionStep(r)
    BY <1>5 DEF RecordFailureStep, CreateAdminSessionStep, ClearFailuresStep, FindSessionStep
<1>6. CASE \/ SessionVersionStep(r) \/ SessionBindingsStep(r) \/ SessionEndedStep(r)
           \/ AuthorizeVersionStep(r) \/ AuthorizeBindingsStep(r) \/ DecideStep(r)
    BY <1>6 DEF SessionVersionStep, SessionBindingsStep, SessionEndedStep, AuthorizeVersionStep,
        AuthorizeBindingsStep, DecideStep, ReadsVersion, ReadsBindings
<1>7. CASE \/ LockTokenStep(r) \/ LockSessionStep(r) \/ ResolveClientStep(r) \/ InspectStep(r)
           \/ RefreshVersionStep(r) \/ RefreshBindingsStep(r)
    BY <1>7 DEF LockTokenStep, LockSessionStep, ResolveClientStep, InspectStep, RefreshVersionStep,
        RefreshBindingsStep, ReadsVersion, ReadsBindings
<1>8. CASE \/ RotateRefreshStep(r) \/ RevokeScopelessStep(r) \/ ReadProofsStep(r) \/ LogoutStep(r)
           \/ RegisterAdminClientStep(r) \/ AddAdminCredentialStep(r) \/ DisableSessionsStep(r)
           \/ EndClientStep(r) \/ WithdrawStep(r)
    BY <1>8 DEF RotateRefreshStep, RevokeScopelessStep, ReadProofsStep, LogoutStep,
        RegisterAdminClientStep, AddAdminCredentialStep, DisableSessionsStep, EndClientStep, WithdrawStep
<1> QED BY <1>1, <1>2, <1>3, <1>4, <1>5, <1>6, <1>7, <1>8 DEF AdminStep

\* A step takes its request on, with what it keeps, or ends it with a refusal.
LEMMA StepsGo ==
    ASSUME FlowType, NEW r, SoftwareStep(r) \/ AdminStep(r)
    PROVE  /\ UNCHANGED now
           /\ \/ stage'[r] # "done" /\ \E next, kept : Goes(r, next, kept)
              \/ stage'[r] = "done" /\ Refused(r) /\ result'[r].kind # "ok"
<1>0. r \in Asked
    BY SoftwareMoves, AdminMoves
<1>1. ASSUME NEW next, NEW kept, next # "done", Continues(r, next, kept)
      PROVE  /\ UNCHANGED now
             /\ \/ stage'[r] # "done" /\ \E n, k : Goes(r, n, k)
                \/ stage'[r] = "done" /\ Refused(r) /\ result'[r].kind # "ok"
    BY <1>0, <1>1 DEF Continues, Goes, Refused, FlowType
<1>2. ASSUME NEW next, NEW kept, next # "done", Goes(r, next, kept), UNCHANGED now
      PROVE  UNCHANGED now /\ stage'[r] # "done" /\ \E n, k : Goes(r, n, k)
    BY <1>0, <1>2 DEF Goes, FlowType
<1>3. CASE SoftwareStep(r)
  <2>1. CASE BeginStep(r) \/ EnsureStep(r) \/ CompleteStep(r) \/ RegisterStep(r) \/ BindClientStep(r)
      BY <1>1, <2>1 DEF BeginStep, EnsureStep, CompleteStep, RegisterStep, BindClientStep
  <2>2. CASE RotateStep(r) \/ RotatedContextStep(r) \/ RevokeStep(r) \/ ProductContextStep(r)
      BY <1>1, <2>2 DEF RotateStep, RotatedContextStep, RevokeStep, ProductContextStep
  <2>3. CASE \/ ApplicationContextStep(r) \/ TenantContextStep(r) \/ AuthenticateStep(r) \/ CheckStep(r)
             \/ CreateSessionStep(r)
      BY <1>1, <2>3 DEF ApplicationContextStep, TenantContextStep, AuthenticateStep, CheckStep,
          CreateSessionStep
  <2>4. CASE \/ CreateApplicationStep(r) \/ ReplaceRedirectsStep(r) \/ SuspendApplicationStep(r)
             \/ ReplaceCapabilitiesStep(r) \/ CreateTenantStep(r)
      BY <1>1, <2>4 DEF CreateApplicationStep, ReplaceRedirectsStep, SuspendApplicationStep,
          ReplaceCapabilitiesStep, CreateTenantStep
  <2>5. CASE ListTenantsStep(r) \/ BindScopeStep(r)
      BY <1>1, <2>5 DEF ListTenantsStep, BindScopeStep
  <2> QED BY <1>3, <2>1, <2>2, <2>3, <2>4, <2>5 DEF SoftwareStep
<1>4. CASE DeadlockStep(r)
    BY <1>0, <1>4 DEF DeadlockStep, Refused, GivesUp, Refuses, Error, FlowType
<1>5. CASE BootstrapIdentityStep(r) \/ BootstrapStep(r) \/ BootstrapAuditStep(r)
    BY <1>1, <1>5 DEF BootstrapIdentityStep, BootstrapStep, BootstrapAuditStep
<1>6. CASE ThrottleStep(r) \/ VerifyStep(r)
    BY <1>1, <1>6 DEF ThrottleStep, VerifyStep
<1>7. CASE \/ LoginVersionStep(r) \/ LoginBindingsStep(r) \/ SessionVersionStep(r) \/ SessionBindingsStep(r)
           \/ RefreshVersionStep(r) \/ RefreshBindingsStep(r)
    BY <1>2, <1>7 DEF LoginVersionStep, LoginBindingsStep, SessionVersionStep, SessionBindingsStep,
        RefreshVersionStep, RefreshBindingsStep, ReadsVersion, ReadsBindings
<1>8. CASE RecordFailureStep(r) \/ CreateAdminSessionStep(r) \/ ClearFailuresStep(r) \/ FindSessionStep(r)
    BY <1>1, <1>8 DEF RecordFailureStep, CreateAdminSessionStep, ClearFailuresStep, FindSessionStep
<1>9. CASE \/ SessionEndedStep(r) \/ AuthorizeVersionStep(r) \/ AuthorizeBindingsStep(r) \/ DecideStep(r)
    BY <1>1, <1>9 DEF SessionEndedStep, AuthorizeVersionStep, AuthorizeBindingsStep, DecideStep
<1>10. CASE LockTokenStep(r) \/ LockSessionStep(r) \/ ResolveClientStep(r) \/ InspectStep(r)
    BY <1>1, <1>10 DEF LockTokenStep, LockSessionStep, ResolveClientStep, InspectStep
<1>11. CASE RotateRefreshStep(r) \/ RevokeScopelessStep(r) \/ ReadProofsStep(r) \/ LogoutStep(r)
    BY <1>1, <1>11 DEF RotateRefreshStep, RevokeScopelessStep, ReadProofsStep, LogoutStep
<1>12. CASE \/ RegisterAdminClientStep(r) \/ AddAdminCredentialStep(r) \/ DisableSessionsStep(r)
            \/ EndClientStep(r) \/ WithdrawStep(r)
    BY <1>1, <1>12 DEF RegisterAdminClientStep, AddAdminCredentialStep, DisableSessionsStep,
        EndClientStep, WithdrawStep
<1> QED
    BY <1>3, <1>4, <1>5, <1>6, <1>7, <1>8, <1>9, <1>10, <1>11, <1>12 DEF AdminStep

\* A request is on its route; what it was answered is what its steps have made; and what
\* it builds on was answered.
RouteOf(kind) == IF kind \in DOMAIN Route THEN Route[kind] ELSE OtherStages
OnRoute(q) == stage[q] \in {"idle", "done", "answer"} \cup RouteOf(Kind(q))

FlowInv ==
    /\ \A q \in Asked : OnRoute(q)
    /\ \A q \in Asked : Answered(q) =>
          stage[q] = "done" /\ (Kind(q) \in DOMAIN Route => outcome[q].value = context[q])
    /\ \A q \in Asked : stage[q] # "idle" => \A x \in Command(q).after \cap Asked : Answered(x)

\* The request has its answer, or only waits for it.
Told(q) == stage[q] = "answer" \/ Answered(q)

\* An answered request has ended.
LEMMA AnsweredStays ==
    ASSUME FlowType, FlowInv, [Next]_vars, NEW q \in Asked, Answered(q)
    PROVE  Same(q)
<1>1. stage[q] = "done" /\ outcome[q].kind = "ok"
    BY DEF FlowInv, Answered
<1>2. ~Send(q)
    BY <1>1 DEF Send, Error
<1>3. ~Deliver(q) /\ ~Fail(q)
    BY <1>1 DEF Deliver, Fail, At, Under
<1> QED BY <1>1, <1>2, <1>3, Turns, StepsBegin

\* A step that does not end its request early takes it along its route.
LEMMA RouteStep ==
    ASSUME FlowType, FlowInv, [Next]_vars, NEW q \in Asked,
           SoftwareStep(q) \/ AdminStep(q), stage'[q] # "done"
    PROVE  /\ stage[q] \in RouteOf(Kind(q))
           /\ stage'[q] \in {"answer"} \cup RouteOf(Kind(q))
           /\ AdminStep(q) => <<stage[q], stage'[q]>> \in Ways
           /\ SoftwareStep(q) => Kind(q) \notin DOMAIN Route \ {"bind_tenant_admin"}
<1>1. stage[q] \in RouteOf(Kind(q))
    BY StepsBegin DEF FlowInv, OnRoute
<1>2. Kind(q) \in DOMAIN Route <=>
          Kind(q) \in {"login", "current", "authorize", "refresh", "logout", "disable_admin_client",
                      "revoke_admin_credential", "bind_tenant_admin"}
    BY DEF Route
<1>3. CASE AdminStep(q)
  <2>1. /\ <<stage[q], stage'[q]>> \in Ways
        /\ stage[q] = "session_bindings" =>
              stage'[q] # (IF Kind(q) = "authorize" THEN "answer" ELSE "authorize_version")
        /\ stage[q] = "locked" /\ stage'[q] = "session_ended" => Kind(q) = "refresh"
      BY <1>3, AdminWays
  <2>2. ASSUME NEW a, NEW b, <<a, b>> \in Ways
        PROVE  /\ a \in Route.login => b \in {"answer"} \cup Route.login
               /\ a \in Route.current => b \in {"answer", "authorize_version"} \cup Route.current
               /\ a \in Route.authorize => b \in {"answer"} \cup Route.authorize
      BY <2>2 DEF Route, Ways, Guarding
  <2>3. ASSUME NEW a, NEW b, <<a, b>> \in Ways
        PROVE  /\ a \in Route.refresh => b \in {"answer"} \cup Route.refresh
               /\ a \in Route.logout => b \in {"answer", "session_ended"} \cup Route.logout
               /\ a \in Route.logout /\ b = "session_ended" => a = "locked"
      BY <2>3 DEF Route, Ways, Locking
  <2>4. ASSUME NEW a, NEW b, <<a, b>> \in Ways
        PROVE  /\ a \in Route.disable_admin_client => b \in {"answer"} \cup Route.disable_admin_client
               /\ a \in Route.revoke_admin_credential =>
                     b \in {"answer"} \cup Route.revoke_admin_credential
               /\ a \notin Route.bind_tenant_admin
               /\ a \in Route.current /\ b = "authorize_version" => a = "session_bindings"
      BY <2>4 DEF Route, Ways, Guarding
  <2>5. ASSUME NEW a, NEW b, <<a, b>> \in Ways
        PROVE  a \in OtherStages => b \in {"answer"} \cup OtherStages
      BY <2>5 DEF OtherStages, SoftwareStages, Ways
  <2>6. SoftwareStep(q) => Kind(q) \notin DOMAIN Route \ {"bind_tenant_admin"}
      BY <1>1, <1>2, SoftwareWays DEF RouteOf, Route, SoftwareStages, Guarding, Locking
  <2>7. /\ Kind(q) = "current" => stage'[q] # "authorize_version"
        /\ Kind(q) = "logout" => stage'[q] # "session_ended"
        /\ Kind(q) # "bind_tenant_admin"
      BY <1>1, <1>2, <2>1, <2>3, <2>4 DEF RouteOf
  <2>8. stage'[q] \in {"answer"} \cup RouteOf(Kind(q))
    <3>1. CASE Kind(q) \in DOMAIN Route
        BY <1>1, <1>2, <2>1, <2>2, <2>3, <2>4, <2>7, <3>1 DEF RouteOf
    <3>2. CASE Kind(q) \notin DOMAIN Route
        BY <1>1, <2>1, <2>5, <3>2 DEF RouteOf
    <3> QED BY <3>1, <3>2
  <2> QED BY <1>1, <2>1, <2>6, <2>8
<1>4. CASE SoftwareStep(q) /\ ~AdminStep(q)
  <2>1. /\ stage[q] \in SoftwareStages
        /\ stage'[q] \in SoftwareStages \cup {"answer", "done"}
        /\ stage[q] = "list_tenants" => stage'[q] \in {"bind_scope", "done"}
        /\ stage[q] = "bind_scope" => BindScopeStep(q)
      BY <1>4, SoftwareWays
  <2>2. Kind(q) \notin DOMAIN Route \ {"bind_tenant_admin"}
      BY <1>1, <1>2, <2>1 DEF RouteOf, Route, SoftwareStages, Guarding, Locking
  <2>3. BindScopeStep(q) => stage'[q] = "answer"
      BY GoesOnWith DEF BindScopeStep
  <2>4. CASE Kind(q) \in DOMAIN Route
      BY <1>1, <1>4, <2>1, <2>2, <2>3, <2>4 DEF RouteOf, Route
  <2>5. CASE Kind(q) \notin DOMAIN Route
      BY <1>1, <1>4, <2>1, <2>2, <2>5 DEF RouteOf, OtherStages
  <2> QED BY <2>4, <2>5
<1> QED BY <1>3, <1>4

LEMMA FlowStep == FlowType /\ FlowInv /\ [Next]_vars => FlowInv'
<1> SUFFICES ASSUME FlowType, FlowInv, [Next]_vars PROVE FlowInv'
    OBVIOUS
<1>1. workload' = workload /\ Asked' = Asked
    BY StepMoves DEF Asked
<1>2. \A q \in Asked : Command(q)' = Command(q) /\ Kind(q)' = Kind(q)
    BY <1>1 DEF Command, Kind
<1>3. \A q \in Asked : Answered(q) => Same(q)
    BY AnsweredStays
<1>4. ASSUME NEW q \in Asked, Same(q)
      PROVE  /\ OnRoute(q)'
             /\ Answered(q)' => stage'[q] = "done"
                                /\ (Kind(q) \in DOMAIN Route => outcome'[q].value = context'[q])
             /\ stage'[q] # "idle" => \A x \in Command(q).after \cap Asked : Answered(x)
    BY <1>2, <1>4 DEF Same, FlowInv, OnRoute, Answered
<1>5. ASSUME NEW q \in Asked, Send(q)
      PROVE  /\ OnRoute(q)' /\ ~Answered(q)'
             /\ \A x \in Command(q).after \cap Asked : Answered(x)
  <2>1. stage'[q] \in {"done", FirstStep[Kind(q)]} /\ outcome'[q] \in {NoResult, Error("invalid_request")}
      BY <1>5 DEF Send, FlowType
  <2>2. FirstStep[Kind(q)] \in RouteOf(Kind(q))
    <3>1. Kind(q) \in DOMAIN FirstStep
        BY WorkloadsAssumption DEF FlowType, Kind, Command, Asked
    <3>2. CASE Kind(q) \in DOMAIN Route
        BY <3>2 DEF RouteOf, Route, FirstStep, Guarding, Locking
    <3>3. CASE Kind(q) \notin DOMAIN Route
        BY <3>1, <3>3 DEF RouteOf, Route, FirstStep, OtherStages, SoftwareStages
    <3> QED BY <3>2, <3>3
  <2>5. OnRoute(q)'
      BY <1>2, <2>1, <2>2 DEF OnRoute
  <2>3. ~Answered(q)'
      BY <2>1 DEF Answered, NoResult, Error
  <2>4. stage[q] # "idle" \/ \A x \in Command(q).after : Answered(x)
      BY <1>5 DEF Send, Error
  <2> QED BY <2>3, <2>4, <2>5 DEF FlowInv
<1>6. ASSUME NEW q \in Asked, Deliver(q) \/ Fail(q)
      PROVE  /\ OnRoute(q)' /\ stage[q] # "idle"
             /\ Answered(q)' => stage'[q] = "done"
                                /\ (Kind(q) \in DOMAIN Route => outcome'[q].value = context'[q])
  <2>1. stage'[q] = "done" /\ stage[q] # "idle"
      BY <1>6 DEF Deliver, Fail, At, Under, FlowType
  <2>2. Fail(q) => ~Answered(q)'
      BY DEF Fail, Answered, Error, FlowType
  <2>3. Deliver(q) /\ Kind(q) \in DOMAIN Route => outcome'[q].value = context'[q]
      BY DEF Deliver, Shown, Answer, FlowType, Route
  <2> QED BY <1>2, <1>6, <2>1, <2>2, <2>3 DEF OnRoute
<1>7. ASSUME NEW q \in Asked, SoftwareStep(q) \/ AdminStep(q)
      PROVE  OnRoute(q)' /\ ~Answered(q)' /\ stage[q] # "idle"
  <2>1. OnRoute(q)' /\ stage[q] # "idle"
      BY <1>2, <1>7, RouteStep, StepsBegin DEF OnRoute
  <2>2. ~Answered(q)'
    <3>1. ~Answered(q)
        BY <1>7, StepsBegin DEF FlowInv
    <3> QED BY <1>7, <3>1, StepsGo DEF Goes, Refused, Answered, FlowType
  <2> QED BY <2>1, <2>2
<1>8. \A q \in Asked :
          /\ OnRoute(q)'
          /\ Answered(q)' => stage'[q] = "done"
                             /\ (Kind(q) \in DOMAIN Route => outcome'[q].value = context'[q])
          /\ stage'[q] # "idle" => \A x \in Command(q).after \cap Asked : Answered(x)
    BY <1>4, <1>5, <1>6, <1>7, Turns DEF FlowInv
<1>9. \A x \in Asked : Answered(x) => Answered(x)'
    BY <1>3 DEF Same, Answered
<1> QED BY <1>1, <1>2, <1>8, <1>9 DEF FlowInv

-----------------------------------------------------------------------------
(* What a request keeps.                                                   *)

\* The fields of its context that a request is given at a step.
Writes(step) ==
    CASE step = "bootstrap_identity" -> {"admin"}
      [] step = "verify_login" -> {"user"}
      [] step \in {"login_version", "session_version", "authorize_version", "refresh_version"} ->
            {"read"}
      [] step \in {"login_bindings", "session_bindings", "authorize_bindings", "refresh_bindings"} ->
            {"version", "scopes", "permissions"}
      [] step = "find_session" -> {"session", "user", "authTime", "csrf"}
      [] step \in {"create_admin_session", "locked"} -> {"session", "access", "refresh", "csrf"}
      [] step = "decide" -> {"decidedAt"}
      [] step = "inspect_refresh" -> {"queue", "replayed", "session", "user", "sessionVersion"}
      [] step \in {"lock_session", "read_proofs"} -> {"queue"}
      [] step \in {"register_admin_client", "add_admin_credential"} -> {"client", "credential"}
      [] step = "disable_sessions" -> {"sessions"}
      [] OTHER -> {}

\* The request has the field as before.
Keeps(q, f) ==
    /\ f \in DOMAIN context[q] <=> f \in DOMAIN context'[q]
    /\ f \in DOMAIN context[q] => context'[q][f] = context[q][f]

LEMMA AnsweredWith ==
    ASSUME FlowType, NEW r \in Asked, NEW v, Returns(r, v)
    PROVE  Got(r) = v
BY DEF FlowType, Returns, Got, Answer

LEMMA NotRefused ==
    ASSUME FlowType, NEW r \in Asked, result'[r].kind = "ok"
    PROVE  \A e : ~Refuses(r, e)
BY DEF FlowType, Refuses, Error

LEMMA GoesKeeps ==
    ASSUME FlowType, NEW r \in Asked, NEW next, NEW kept, Goes(r, next, kept), NEW f, f \notin DOMAIN kept
    PROVE  Keeps(r, f)
BY DEF FlowType, Goes, Joined, Keeps

LEMMA AdminKeeps ==
    ASSUME FlowType, NEW r, AdminStep(r), stage'[r] # "done", NEW f, f \notin Writes(stage[r])
    PROVE  Keeps(r, f)
<1> USE DEF OnIdentity, OnAccess, At, Writes
<1>0. r \in Asked
    BY AdminMoves
<1>1. ASSUME NEW next, NEW kept, Continues(r, next, kept)
      PROVE  /\ Goes(r, next, kept) /\ result'[r].kind = "ok"
             /\ \A e : ~Refuses(r, e)
             /\ f \notin DOMAIN kept => Keeps(r, f)
    BY <1>0, <1>1, GoesOnWith, NotRefused, GoesKeeps DEF Continues
<1>2. CASE BootstrapIdentityStep(r)
    BY <1>0, <1>1, <1>2, AnsweredWith DEF BootstrapIdentityStep, BootstrapIdentity
<1>3. CASE BootstrapStep(r) \/ BootstrapAuditStep(r) \/ ThrottleStep(r) \/ ClearFailuresStep(r)
    BY <1>1, <1>3, NothingKept DEF BootstrapStep, BootstrapAuditStep, ThrottleStep, ClearFailuresStep
<1>4. CASE VerifyStep(r)
    BY <1>1, <1>4, NothingKept DEF VerifyStep
<1>5. CASE RecordFailureStep(r) \/ SessionEndedStep(r) \/ LockTokenStep(r) \/ LockSessionStep(r)
    BY <1>1, <1>5, NothingKept DEF RecordFailureStep, SessionEndedStep, LockTokenStep, LockSessionStep
<1>6. CASE CreateAdminSessionStep(r)
    BY <1>0, <1>1, <1>6, AnsweredWith DEF CreateAdminSessionStep, CreateAdminSession, Issued
<1>7. CASE FindSessionStep(r)
  <2>1. Continues(r, "session_version", Got(r)) /\ FindByAccessDigest(r, context[r], context[r].at)
      BY <1>7 DEF FindSessionStep
  <2>2. \E s, u, a, c : Returns(r, [session |-> s, user |-> u, authTime |-> a, csrf |-> c])
      BY <1>1, <2>1 DEF FindByAccessDigest
  <2> QED BY <1>0, <1>1, <1>7, <2>1, <2>2, AnsweredWith DEF FindSessionStep
<1>8. ASSUME NEW step \in {"login_version", "session_version", "authorize_version", "refresh_version"},
             NEW user, stage[r] = step, ReadAuthorizationVersion(r, user)
      PROVE  result'[r].kind = "ok" => f \notin DOMAIN Got(r)
    BY <1>0, <1>8, AnsweredWith, NotRefused DEF ReadAuthorizationVersion
<1>9. ASSUME NEW step \in {"login_bindings", "session_bindings", "authorize_bindings", "refresh_bindings"},
             NEW user, NEW version, stage[r] = step, ResolveSnapshot(r, user, version)
      PROVE  result'[r].kind = "ok" => f \notin DOMAIN Got(r)
    BY <1>0, <1>9, AnsweredWith, NotRefused DEF ResolveSnapshot
<1>10. CASE LoginVersionStep(r) \/ SessionVersionStep(r) \/ RefreshVersionStep(r)
    BY <1>0, <1>8, <1>10, GoesKeeps, NothingKept DEF LoginVersionStep, SessionVersionStep,
        RefreshVersionStep, ReadsVersion
<1>11. CASE LoginBindingsStep(r) \/ SessionBindingsStep(r) \/ RefreshBindingsStep(r)
    BY <1>0, <1>9, <1>11, GoesKeeps, NothingKept DEF LoginBindingsStep, SessionBindingsStep,
        RefreshBindingsStep, ReadsBindings
<1>12. CASE AuthorizeVersionStep(r) \/ AuthorizeBindingsStep(r)
    BY <1>1, <1>8, <1>9, <1>12 DEF AuthorizeVersionStep, AuthorizeBindingsStep
<1>13. CASE DecideStep(r)
    BY <1>0, <1>1, <1>13, AnsweredWith DEF DecideStep
<1>14. CASE DeadlockStep(r)
    BY <1>0, <1>14 DEF DeadlockStep, Refused, FlowType
<1>15. CASE ResolveClientStep(r) \/ RevokeScopelessStep(r) \/ LogoutStep(r) \/ EndClientStep(r) \/ WithdrawStep(r)
    BY <1>1, <1>15, NothingKept DEF ResolveClientStep, RevokeScopelessStep, LogoutStep, EndClientStep,
        WithdrawStep
<1>16. CASE InspectStep(r)
  <2>1. /\ Continues(r, IF Got(r).replayed THEN "lock_token" ELSE "refresh_version",
                     Joined([queue |-> <<context[r].refresh>>], Got(r)))
        /\ InspectRefresh(r, context[r], context[r].at) /\ stage[r] = "inspect_refresh"
      BY <1>16 DEF InspectStep
  <2>2. DOMAIN Got(r) \subseteq Writes("inspect_refresh")
      BY <1>0, <1>1, <2>1, AnsweredWith DEF InspectRefresh
  <2>3. DOMAIN Joined([queue |-> <<context[r].refresh>>], Got(r)) \subseteq Writes("inspect_refresh")
      BY <2>2 DEF Joined
  <2> QED BY <1>1, <2>1, <2>3
<1>9a. CASE RotateRefreshStep(r)
  <2>1. /\ Continues(r, "answer", Got(r)) /\ stage[r] = "locked"
        /\ RotateRefresh(r, context[r], context[r].at, RenewedCsrf(r))
      BY <1>9a DEF RotateRefreshStep
  <2>2. RotatesTokens(r, context[r], context[r].at, RenewedCsrf(r))
      BY <1>1, <2>1 DEF RotateRefresh, GivesUp
  <2>3. \E s : Returns(r, Issued(r, s, RenewedCsrf(r)))
      BY <2>2 DEF RotatesTokens
  <2> QED BY <1>0, <1>1, <2>1, <2>3, AnsweredWith DEF Issued
<1>18. CASE ReadProofsStep(r)
    BY <1>1, <1>18 DEF ReadProofsStep
<1>19. CASE RegisterAdminClientStep(r)
    BY <1>0, <1>1, <1>19, AnsweredWith DEF RegisterAdminClientStep, RegisterControlledClient
<1>20. CASE AddAdminCredentialStep(r)
    BY <1>0, <1>1, <1>20, AnsweredWith DEF AddAdminCredentialStep, AddControlledClientCredential
<1>21. CASE DisableSessionsStep(r)
    BY <1>0, <1>1, <1>21, AnsweredWith DEF DisableSessionsStep, UpdateSessions, LocksRows
<1> QED
    BY <1>2, <1>3, <1>4, <1>5, <1>6, <1>7, <1>10, <1>11, <1>12, <1>13, <1>14, <1>15, <1>16, <1>9a,
        <1>18, <1>19, <1>20, <1>21 DEF AdminStep

\* The kinds that have steps on administrators only.
Handled == {"login", "current", "authorize", "refresh", "logout", "disable_admin_client",
            "revoke_admin_credential"}

LEMMA HandledAre == Handled = DOMAIN Route \ {"bind_tenant_admin"}
BY DEF Handled, Route

LEMMA SentAs ==
    ASSUME FlowType, NEW q \in Asked, Kind(q) \in Handled, Send(q)
    PROVE  /\ stage'[q] = FirstStep[Kind(q)]
           /\ context'[q] = Prepared(q)
           /\ UNCHANGED <<now, softwareVars, accessVars, identityVars>>
BY DEF Send, Acceptable, Proving, Handled, FlowType

\* The command as its caller knows it.
Commanded(q) == Joined([f \in DOMAIN Command(q).uses |-> outcome[Command(q).uses[f]].value[f]],
                       Command(q).with)

LEMMA PreparedIs ==
    ASSUME NEW q, Kind(q) \in Handled
    PROVE  Prepared(q) = IF Kind(q) \in Timed THEN Joined([at |-> now], Commanded(q)) ELSE Commanded(q)
<1>1. Kind(q) \notin Proving
    BY DEF Handled, Proving
<1>2. CASE Kind(q) \in Timed
    BY <1>1, <1>2 DEF Prepared, Commanded
<1>3. CASE Kind(q) \notin Timed
    BY <1>1, <1>3 DEF Prepared, Commanded
<1> QED BY <1>2, <1>3

\* What a request does not get at its step it keeps, until it is sent again.
LEMMA Keeping ==
    ASSUME FlowType, FlowInv, [Next]_vars, NEW q \in Asked, Kind(q) \in Handled, ~Send(q), NEW f,
           f \notin Writes(stage[q]) \/ stage'[q] = "done"
    PROVE  Keeps(q, f)
<1>1. CASE Same(q)
    BY <1>1 DEF Same, Keeps
<1>2. CASE Deliver(q) \/ Fail(q)
    BY <1>2 DEF Deliver, Fail, Keeps
<1>3. CASE AdminStep(q) /\ stage'[q] # "done"
    BY <1>3, AdminKeeps
<1>4. CASE (SoftwareStep(q) \/ AdminStep(q)) /\ stage'[q] = "done"
    BY <1>4, StepsGo DEF Refused, Keeps
<1>5. CASE SoftwareStep(q) /\ stage'[q] # "done"
    BY <1>5, RouteStep, HandledAre
<1> QED BY <1>1, <1>2, <1>3, <1>4, <1>5, Turns

\* The clock never goes back, and a request has read it when it was sent.
Dated(q) == "at" \in DOMAIN context[q] /\ context[q].at \in Nat /\ context[q].at <= now

TimedInv ==
    /\ now \in Nat
    /\ \A q \in Asked : Kind(q) \in Timed /\ stage[q] # "idle" => Dated(q)

LEMMA ClockStep ==
    ASSUME FlowType, [Next]_vars PROVE now' \in {now, now + 1}
<1>1. CASE UNCHANGED vars \/ Tick
    BY <1>1 DEF vars, Tick
<1>2. ASSUME NEW r, Send(r) \/ Deliver(r) \/ Fail(r) PROVE now' = now
    BY <1>2 DEF Send, Deliver, Fail
<1> QED BY <1>1, <1>2, StepsGo DEF Next, GoesOn

LEMMA TimedStays ==
    ASSUME FlowType, FlowInv, TimedInv, [Next]_vars, NEW q \in Asked, Kind(q) \in Timed,
           stage'[q] # "idle"
    PROVE  Dated(q)' /\ (stage[q] # "idle" => context[q].at <= context'[q].at)
<1>1. now' \in {now, now + 1} /\ now \in Nat /\ Kind(q) \in Handled
    BY ClockStep DEF TimedInv, Timed, Handled
<1>2. CASE Send(q)
  <2>1. context'[q] = Prepared(q) /\ now' = now
      BY <1>1, <1>2, SentAs
  <2>2. Prepared(q) = Joined([at |-> now], Commanded(q))
      BY <1>1, PreparedIs
  <2>3. "at" \in DOMAIN context'[q] /\ context'[q].at = now
      BY <2>1, <2>2 DEF Joined
  <2> QED BY <1>1, <2>1, <2>3 DEF Dated, TimedInv
<1>3. CASE ~Send(q)
  <2>1. "at" \notin Writes(stage[q])
      BY DEF Writes
  <2>2. Keeps(q, "at")
      BY <1>1, <1>3, <2>1, Keeping
  <2>3. stage[q] # "idle"
    <3>1. ~Same(q) => Deliver(q) \/ Fail(q) \/ SoftwareStep(q) \/ AdminStep(q)
        BY <1>3, Turns
    <3> QED BY <3>1, StepsBegin DEF Same, Deliver, Fail, At, Under
  <2>4. Dated(q)
      BY <2>3 DEF TimedInv
  <2> QED BY <1>1, <2>2, <2>3, <2>4 DEF Keeps, Dated
<1> QED BY <1>2, <1>3

LEMMA TimedStep == FlowType /\ FlowInv /\ TimedInv /\ [Next]_vars => TimedInv'
<1> SUFFICES ASSUME FlowType, FlowInv, TimedInv, [Next]_vars PROVE TimedInv'
    OBVIOUS
<1>1. now' \in Nat
    BY ClockStep DEF TimedInv
<1>2. workload' = workload /\ Asked' = Asked /\ \A q \in Asked : Kind(q)' = Kind(q)
    BY StepMoves DEF Asked, Kind, Command
<1> QED BY <1>1, <1>2, TimedStays DEF TimedInv

-----------------------------------------------------------------------------
(* Sessions and their tokens.                                              *)

\* The steps that draw the identifiers of tokens, of scope bindings and of failures, and
\* those before them.
MakesToken == {"login_throttle", "verify_login", "login_version", "login_bindings",
               "create_admin_session", "resolve_client", "inspect_refresh", "refresh_version",
               "refresh_bindings", "read_proofs"} \cup Locking
MakesBinding == {"bootstrap_identity", "bootstrap_admin", "list_tenants", "bind_scope"}
Trying == {"login_throttle", "verify_login", "login_version", "login_bindings", "record_failure"}
Drawing == {MakesToken, MakesBinding, Trying}

LEMMA DrawingIsEntered ==
    ASSUME FlowType, [Next]_vars, NEW steps \in Drawing, NEW q \in Asked, attempt'[q] = attempt[q],
           stage'[q] \in steps
    PROVE  stage[q] \in steps
<1>1. ~Send(q)
    BY DEF Send, FlowType
<1>2. ~Deliver(q) /\ ~Fail(q)
    BY DEF Deliver, Fail, FlowType, Drawing, MakesToken, MakesBinding, Trying, Locking
<1>3. CASE SoftwareStep(q)
    BY <1>3, SoftwareWays DEF SoftwareStages, Drawing, MakesToken, MakesBinding, Trying, Locking
<1>4. CASE AdminStep(q)
  <2>1. stage'[q] # "done"
      BY DEF Drawing, MakesToken, MakesBinding, Trying, Locking
  <2>2. <<stage[q], stage'[q]>> \in Ways
      BY <1>4, <2>1, AdminWays
  <2>3. ASSUME NEW a, NEW b, <<a, b>> \in Ways
        PROVE  /\ b \in MakesToken => a \in MakesToken
               /\ b \in MakesBinding => a \in MakesBinding
               /\ b \in Trying => a \in Trying
      BY <2>3 DEF Ways, MakesToken, MakesBinding, Trying, Locking
  <2> QED BY <2>2, <2>3 DEF Drawing
<1> QED BY <1>1, <1>2, <1>3, <1>4, Turns DEF Same

LEMMA DrawnStayFresh ==
    ASSUME FlowType, [Next]_vars, NEW steps \in Drawing, NEW ids, Fresh(ids, steps)
    PROVE  StaysFresh(ids, steps)
<1> SUFFICES ASSUME NEW id \in ids
             PROVE  /\ id \in Asked' \X Nat
                    /\ id[2] <= attempt'[id[1]]
                    /\ id[2] = attempt'[id[1]] => stage'[id[1]] \notin steps
    BY DEF StaysFresh
<1> DEFINE q == id[1]
<1>1. id \in Asked \X Nat /\ id[2] <= attempt[q] /\ (id[2] = attempt[q] => stage[q] \notin steps)
    BY DEF Fresh
<1>2. Moves(q) /\ Asked' = Asked
    BY <1>1, StepMoves DEF Asked
<1>3. attempt[q] \in Nat
    BY <1>1 DEF FlowType
<1>4. attempt'[q] = attempt[q] \/ attempt'[q] = attempt[q] + 1
    BY <1>2 DEF Moves
<1> QED BY <1>1, <1>2, <1>3, <1>4, DrawingIsEntered

LEMMA DrawnAddedFresh ==
    ASSUME FlowType, [Next]_vars, NEW steps \in Drawing, NEW ids, Fresh(ids, steps),
           NEW r \in Asked, stage[r] \in steps, SoftwareStep(r) \/ AdminStep(r), stage'[r] \notin steps
    PROVE  /\ NewId(r) \notin ids
           /\ StaysFresh(ids \cup {NewId(r)}, steps)
<1>1. NewId(r) \notin ids
    BY DEF Fresh, NewId
<1>2. Asked' = Asked /\ attempt[r] \in Nat
    BY StepMoves DEF Asked, FlowType
<1>3. attempt' = attempt
    BY SoftwareMoves, AdminMoves DEF MovesTo
<1> QED BY <1>1, <1>2, <1>3, DrawnStayFresh DEF NewId, StaysFresh

\* Rows of sessions and of tokens.
SessionTyped(row) ==
    /\ {"user", "transport", "version", "authTime", "accessExpires", "refreshExpires",
        "absoluteExpires", "csrf", "revoked", "client", "credential"} \subseteq DOMAIN row
    /\ row.revoked \in BOOLEAN
    /\ {row.accessExpires, row.refreshExpires, row.absoluteExpires} \subseteq Nat

TokenTyped(row) ==
    /\ {"session", "type", "generation", "expires", "consumed", "revoked"} \subseteq DOMAIN row
    /\ row.revoked \in BOOLEAN /\ row.consumed \in BOOLEAN
    /\ row.type \in {"access", "refresh"}
    /\ row.generation \in Nat /\ row.expires \in Nat

Usable(row) == ~row.revoked /\ ~row.consumed

\* A token is of a session, and none can be used of a session that was revoked.  The
\* refresh token of a session that can be used is the only one, and of the generation
\* of the access tokens.
Sound(sessions, tokens) ==
    /\ \A s \in DOMAIN sessions : SessionTyped(sessions[s])
    /\ \A t \in DOMAIN tokens : TokenTyped(tokens[t]) /\ tokens[t].session \in DOMAIN sessions
    /\ \A t \in DOMAIN tokens : Usable(tokens[t]) => ~sessions[tokens[t].session].revoked
    /\ \A t, u \in DOMAIN tokens :
          /\ Usable(tokens[t]) /\ Usable(tokens[u])
          /\ tokens[t].session = tokens[u].session /\ tokens[t].type = "refresh"
          => /\ tokens[u].type = "refresh" => t = u
             /\ tokens[t].generation = tokens[u].generation

\* What is there of sessions and tokens stays there; what of it can change changes one
\* way; and when a session lives on, the tokens of it do not.
SessionGrows(s) ==
    LET was == adminSessions[s]
        is == adminSessions'[s]
    IN  /\ s \in DOMAIN adminSessions'
        /\ is.user = was.user /\ is.transport = was.transport /\ is.authTime = was.authTime
        /\ is.absoluteExpires = was.absoluteExpires
        /\ is.client = was.client /\ is.credential = was.credential
        /\ was.revoked => is.revoked

TokenGrows(t) ==
    LET was == adminTokens[t]
        is == adminTokens'[t]
    IN  /\ t \in DOMAIN adminTokens'
        /\ is.session = was.session /\ is.type = was.type /\ is.expires = was.expires
        /\ was.revoked => is.revoked
        /\ was.consumed => is.consumed
        /\ was.type = "access" /\ ~is.revoked =>
              adminSessions'[was.session].accessExpires = adminSessions[was.session].accessExpires
        /\ was.type = "refresh" /\ Usable(is) =>
              adminSessions'[was.session].refreshExpires = adminSessions[was.session].refreshExpires

TokensGrow ==
    /\ \A s \in DOMAIN adminSessions : SessionGrows(s)
    /\ \A t \in DOMAIN adminTokens : TokenGrows(t)

LEMMA RevokedRow ==
    ASSUME NEW row, "revoked" \in DOMAIN row
    PROVE  /\ DOMAIN [row EXCEPT !.revoked = TRUE] = DOMAIN row
           /\ [row EXCEPT !.revoked = TRUE].revoked
           /\ \A f \in DOMAIN row : f # "revoked" => [row EXCEPT !.revoked = TRUE][f] = row[f]
OBVIOUS

\* The sessions of S are revoked, with their tokens and maybe others.
Revoking(S, T) ==
    /\ adminSessions' = RevokedSessions(S)
    /\ adminTokens' = RevokedTokens(T)
    /\ TokensOf(S) \subseteq T

LEMMA RevokingEffect ==
    ASSUME Sound(adminSessions, adminTokens), NEW S, NEW T, Revoking(S, T)
    PROVE  /\ DOMAIN adminSessions' = DOMAIN adminSessions
           /\ DOMAIN adminTokens' = DOMAIN adminTokens
           /\ Sound(adminSessions', adminTokens') /\ TokensGrow
<1>1. /\ DOMAIN adminSessions' = DOMAIN adminSessions
      /\ \A s \in DOMAIN adminSessions :
            /\ s \in S => adminSessions'[s] = [adminSessions[s] EXCEPT !.revoked = TRUE]
            /\ s \notin S => adminSessions'[s] = adminSessions[s]
    BY DEF Revoking, RevokedSessions
<1>2. /\ DOMAIN adminTokens' = DOMAIN adminTokens
      /\ \A t \in DOMAIN adminTokens :
            /\ t \in T => adminTokens'[t] = [adminTokens[t] EXCEPT !.revoked = TRUE]
            /\ t \notin T => adminTokens'[t] = adminTokens[t]
            /\ adminTokens[t].session \in S => t \in T
    BY DEF Revoking, RevokedTokens, TokensOf
<1>3. ASSUME NEW s \in DOMAIN adminSessions
      PROVE  /\ SessionTyped(adminSessions'[s]) /\ SessionGrows(s)
             /\ s \notin S => adminSessions'[s] = adminSessions[s]
             /\ adminSessions'[s].accessExpires = adminSessions[s].accessExpires
             /\ adminSessions'[s].refreshExpires = adminSessions[s].refreshExpires
  <2>1. SessionTyped(adminSessions[s]) /\ "revoked" \in DOMAIN adminSessions[s]
      BY DEF Sound, SessionTyped
  <2>2. CASE s \in S
    <3>1. /\ DOMAIN adminSessions'[s] = DOMAIN adminSessions[s]
          /\ adminSessions'[s].revoked = TRUE
          /\ \A f \in DOMAIN adminSessions[s] : f # "revoked" => adminSessions'[s][f] = adminSessions[s][f]
        BY <1>1, <2>1, <2>2, RevokedRow
    <3> QED BY <1>1, <2>1, <2>2, <3>1 DEF SessionTyped, SessionGrows
  <2>3. CASE s \notin S
      BY <1>1, <2>1, <2>3 DEF SessionGrows
  <2> QED BY <2>2, <2>3
<1>4. ASSUME NEW t \in DOMAIN adminTokens
      PROVE  /\ TokenTyped(adminTokens'[t])
             /\ adminTokens'[t].session = adminTokens[t].session
             /\ adminTokens'[t].type = adminTokens[t].type
             /\ adminTokens'[t].generation = adminTokens[t].generation
             /\ adminTokens'[t].expires = adminTokens[t].expires
             /\ adminTokens[t].revoked => adminTokens'[t].revoked
             /\ adminTokens[t].consumed => adminTokens'[t].consumed
             /\ Usable(adminTokens'[t]) => Usable(adminTokens[t]) /\ t \notin T
  <2>1. TokenTyped(adminTokens[t]) /\ "revoked" \in DOMAIN adminTokens[t]
      BY DEF Sound, TokenTyped
  <2>2. CASE t \in T
    <3>1. /\ DOMAIN adminTokens'[t] = DOMAIN adminTokens[t]
          /\ adminTokens'[t].revoked = TRUE
          /\ \A f \in DOMAIN adminTokens[t] : f # "revoked" => adminTokens'[t][f] = adminTokens[t][f]
        BY <1>2, <2>1, <2>2, RevokedRow
    <3> QED BY <2>1, <2>2, <3>1 DEF TokenTyped, Usable
  <2>3. CASE t \notin T
      BY <1>2, <2>1, <2>3
  <2> QED BY <2>2, <2>3
<1>5. Sound(adminSessions', adminTokens')
    BY <1>1, <1>2, <1>3, <1>4 DEF Sound
<1>6. TokensGrow
    BY <1>1, <1>2, <1>3, <1>4 DEF TokensGrow, TokenGrows, Sound
<1> QED BY <1>1, <1>2, <1>5, <1>6

\* A new pair of tokens.
IsPair(pair, r, s, generation) ==
    /\ DOMAIN pair = {AccessToken(r), RefreshToken(r)}
    /\ \A t \in DOMAIN pair :
          /\ TokenTyped(pair[t])
          /\ pair[t].session = s /\ pair[t].generation = generation
          /\ pair[t].type = "refresh" <=> t = RefreshToken(r)

LEMMA PairIs ==
    ASSUME NEW r, NEW s, NEW generation \in Nat, NEW a \in Nat, NEW b \in Nat
    PROVE  IsPair(TokenPair(r, s, generation, a, b), r, s, generation)
<1>1. AccessToken(r) # RefreshToken(r)
    BY DEF AccessToken, RefreshToken
<1> QED BY <1>1 DEF TokenPair, NewToken, TokenTyped, IsPair

LEMMA LeastIs == \A a, b \in Nat : Least(a, b) \in Nat
BY DEF Least

LEMMA RenewedRow ==
    ASSUME NEW row, {"version", "accessExpires", "refreshExpires", "csrf", "authTime"} \subseteq DOMAIN row,
           NEW v, NEW a, NEW e, NEW csrf, NEW time, NEW new,
           new = [row EXCEPT !.version = v, !.accessExpires = a, !.refreshExpires = e,
                             !.csrf = csrf, !.authTime = time]
    PROVE  /\ DOMAIN new = DOMAIN row
           /\ new.accessExpires = a /\ new.refreshExpires = e /\ new.authTime = time
           /\ \A f \in DOMAIN row \ {"version", "accessExpires", "refreshExpires", "csrf", "authTime"} :
                 new[f] = row[f]
OBVIOUS

\* A rotation.
LEMMA RotatingEffect ==
    ASSUME Sound(adminSessions, adminTokens), NEW r, NEW c, NEW at \in Nat, NEW csrf,
           RotatesTokens(r, c, at, csrf),
           Known(c.refresh), adminTokens[c.refresh].type = "refresh",
           Usable(adminTokens[c.refresh]), ~SessionOf(c.refresh).revoked,
           AccessToken(r) \notin DOMAIN adminTokens, RefreshToken(r) \notin DOMAIN adminTokens
    PROVE  /\ DOMAIN adminSessions' = DOMAIN adminSessions
           /\ DOMAIN adminTokens' = DOMAIN adminTokens \cup {AccessToken(r), RefreshToken(r)}
           /\ Sound(adminSessions', adminTokens') /\ TokensGrow
<1> DEFINE t == c.refresh
           s == adminTokens[t].session
           pair == TokenPair(r, s, adminTokens[t].generation + 1, at + AccessTTL,
                             Least(adminSessions[s].absoluteExpires, at + RefreshTTL))
<1>1. /\ t \in DOMAIN adminTokens /\ s \in DOMAIN adminSessions
      /\ TokenTyped(adminTokens[t]) /\ SessionTyped(adminSessions[s])
      /\ adminSessions[s].revoked = FALSE
    BY DEF Known, Sound, SessionOf, SessionTyped
<1>2. PICK generation \in Nat, accessExpires \in Nat, expires \in Nat :
          /\ generation = adminTokens[t].generation + 1
          /\ accessExpires = at + AccessTTL
          /\ expires = Least(adminSessions[s].absoluteExpires, at + RefreshTTL)
  <2>1. at + AccessTTL \in Nat /\ at + RefreshTTL \in Nat
      BY PolicyAssumption
  <2>2. adminSessions[s].absoluteExpires \in Nat /\ adminTokens[t].generation + 1 \in Nat
      BY <1>1 DEF SessionTyped, TokenTyped
  <2>3. Least(adminSessions[s].absoluteExpires, at + RefreshTTL) \in Nat
      BY <2>1, <2>2, LeastIs
  <2> QED BY <2>1, <2>2, <2>3
<1>3. IsPair(pair, r, s, generation)
  <2>1. pair = TokenPair(r, s, generation, accessExpires, expires)
      BY <1>2
  <2> HIDE DEF pair, s
  <2> QED BY <1>2, <2>1, PairIs
<1>4. /\ adminTokens' = Joined(SpentTokens(t), pair)
      /\ adminSessions' = [adminSessions EXCEPT ![s] =
            [@ EXCEPT !.version = @ + 1, !.accessExpires = at + AccessTTL,
                      !.refreshExpires = Least(adminSessions[s].absoluteExpires, at + RefreshTTL),
                      !.csrf = csrf, !.authTime = AuthTime(adminSessions[s], at)]]
    BY DEF RotatesTokens
<1>5. PICK v, a, e :
          /\ adminSessions' = [adminSessions EXCEPT ![s] =
                [@ EXCEPT !.version = v, !.accessExpires = a, !.refreshExpires = e,
                          !.csrf = csrf, !.authTime = adminSessions[s].authTime]]
          /\ a \in Nat /\ e \in Nat
    BY <1>2, <1>4 DEF AuthTime
<1>6. /\ DOMAIN adminSessions' = DOMAIN adminSessions
      /\ \A x \in DOMAIN adminSessions : x # s => adminSessions'[x] = adminSessions[x]
      /\ adminSessions'[s] = [adminSessions[s] EXCEPT !.version = v, !.accessExpires = a,
                                 !.refreshExpires = e, !.csrf = csrf, !.authTime = adminSessions[s].authTime]
    BY <1>1, <1>5
<1>7. /\ DOMAIN adminSessions'[s] = DOMAIN adminSessions[s]
      /\ adminSessions'[s].accessExpires = a /\ adminSessions'[s].refreshExpires = e
      /\ \A f \in DOMAIN adminSessions[s] \ {"version", "accessExpires", "refreshExpires", "csrf"} :
            adminSessions'[s][f] = adminSessions[s][f]
  <2>1. {"version", "accessExpires", "refreshExpires", "csrf", "authTime"} \subseteq DOMAIN adminSessions[s]
      BY <1>1 DEF SessionTyped
  <2> HIDE DEF s
  <2>2. /\ DOMAIN adminSessions'[s] = DOMAIN adminSessions[s]
        /\ adminSessions'[s].accessExpires = a /\ adminSessions'[s].refreshExpires = e
        /\ adminSessions'[s].authTime = adminSessions[s].authTime
        /\ \A f \in DOMAIN adminSessions[s]
                    \ {"version", "accessExpires", "refreshExpires", "csrf", "authTime"} :
              adminSessions'[s][f] = adminSessions[s][f]
      BY <1>6, <2>1, RenewedRow
  <2> QED BY <2>2
<1>8. ASSUME NEW x \in DOMAIN adminSessions
      PROVE  /\ SessionTyped(adminSessions'[x]) /\ SessionGrows(x)
             /\ adminSessions'[x].revoked = adminSessions[x].revoked
    BY <1>1, <1>5, <1>6, <1>7 DEF SessionTyped, SessionGrows, Sound
<1>9. /\ DOMAIN adminTokens' = DOMAIN adminTokens \cup {AccessToken(r), RefreshToken(r)}
      /\ \A u \in {AccessToken(r), RefreshToken(r)} : adminTokens'[u] = pair[u]
      /\ adminTokens'[t] = [adminTokens[t] EXCEPT !.consumed = TRUE]
      /\ \A u \in DOMAIN adminTokens \ {t} :
            adminTokens'[u] = IF u \in LiveAccessTokens(s) THEN [adminTokens[u] EXCEPT !.revoked = TRUE]
                              ELSE adminTokens[u]
    BY <1>1, <1>3, <1>4 DEF Joined, SpentTokens, Consumed, IsPair
<1>9a. ASSUME NEW u, u \in {AccessToken(r), RefreshToken(r)}
       PROVE  /\ TokenTyped(adminTokens'[u])
              /\ adminTokens'[u].session = s
              /\ adminTokens'[u].generation = generation
              /\ adminTokens'[u].type = "refresh" => u = RefreshToken(r)
  <2> HIDE DEF pair, s
  <2> QED BY <1>3, <1>9, <1>9a DEF IsPair
<1>10. ASSUME NEW u \in DOMAIN adminTokens
       PROVE  /\ TokenTyped(adminTokens'[u])
              /\ adminTokens'[u].session = adminTokens[u].session
              /\ adminTokens'[u].type = adminTokens[u].type
              /\ adminTokens'[u].generation = adminTokens[u].generation
              /\ adminTokens'[u].expires = adminTokens[u].expires
              /\ adminTokens[u].revoked => adminTokens'[u].revoked
              /\ adminTokens[u].consumed => adminTokens'[u].consumed
              /\ Usable(adminTokens'[u]) => Usable(adminTokens[u]) /\ u # t /\ u \notin LiveAccessTokens(s)
  <2>1. TokenTyped(adminTokens[u])
      BY DEF Sound
  <2>2. CASE u = t
    <3>1. /\ DOMAIN adminTokens'[u] = DOMAIN adminTokens[u]
          /\ adminTokens'[u].consumed = TRUE
          /\ \A f \in DOMAIN adminTokens[u] \ {"consumed"} : adminTokens'[u][f] = adminTokens[u][f]
        BY <1>9, <2>1, <2>2 DEF TokenTyped
    <3> QED BY <2>1, <3>1 DEF TokenTyped, Usable
  <2>3. CASE u # t /\ u \in LiveAccessTokens(s)
    <3>1. /\ DOMAIN adminTokens'[u] = DOMAIN adminTokens[u]
          /\ adminTokens'[u].revoked = TRUE
          /\ \A f \in DOMAIN adminTokens[u] : f # "revoked" => adminTokens'[u][f] = adminTokens[u][f]
        BY <1>9, <2>1, <2>3, RevokedRow DEF TokenTyped
    <3> QED BY <2>1, <3>1 DEF TokenTyped, Usable
  <2>4. CASE u # t /\ u \notin LiveAccessTokens(s)
      BY <1>9, <2>1, <2>4
  <2> QED BY <2>2, <2>3, <2>4
<1>11. ASSUME NEW u \in DOMAIN adminTokens, Usable(adminTokens'[u]) PROVE adminTokens[u].session # s
  <2>1. SUFFICES ASSUME adminTokens[u].session = s PROVE FALSE
      OBVIOUS
  <2>2. Usable(adminTokens[u]) /\ u # t /\ u \notin LiveAccessTokens(s)
      BY <1>10, <1>11
  <2>3. adminTokens[u].type \in {"access", "refresh"}
      BY DEF Sound, TokenTyped
  <2>4. adminTokens[u].type # "refresh"
      BY <1>1, <2>1, <2>2 DEF Sound
  <2> QED BY <2>1, <2>2, <2>3, <2>4 DEF LiveAccessTokens, TokensOf, Usable
<1>12. \A u \in DOMAIN adminTokens' : TokenTyped(adminTokens'[u]) /\ adminTokens'[u].session \in DOMAIN adminSessions
    BY <1>1, <1>9, <1>10, <1>9a DEF Sound
<1>13. ASSUME NEW u \in DOMAIN adminTokens', Usable(adminTokens'[u])
       PROVE  ~adminSessions'[adminTokens'[u].session].revoked
  <2>1. CASE u \in DOMAIN adminTokens
    <3>1. Usable(adminTokens[u]) /\ adminTokens'[u].session = adminTokens[u].session
        BY <1>10, <1>13, <2>1
    <3>2. ~adminSessions[adminTokens[u].session].revoked /\ adminTokens[u].session \in DOMAIN adminSessions
        BY <2>1, <3>1 DEF Sound
    <3> QED BY <1>8, <3>1, <3>2
  <2>2. CASE u \in {AccessToken(r), RefreshToken(r)}
    <3>1. adminTokens'[u].session = s
        BY <1>9a, <2>2
    <3> QED BY <1>1, <1>8, <3>1
  <2> QED BY <1>9, <2>1, <2>2
<1>14. ASSUME NEW u \in DOMAIN adminTokens', NEW w \in DOMAIN adminTokens',
              Usable(adminTokens'[u]), Usable(adminTokens'[w]),
              adminTokens'[u].session = adminTokens'[w].session, adminTokens'[u].type = "refresh"
       PROVE  /\ adminTokens'[w].type = "refresh" => u = w
              /\ adminTokens'[u].generation = adminTokens'[w].generation
  <2>1. CASE u \in DOMAIN adminTokens /\ w \in DOMAIN adminTokens
    <3>1. Usable(adminTokens[u]) /\ Usable(adminTokens[w])
        BY <1>10, <1>14, <2>1
    <3>2. adminTokens[u].session = adminTokens[w].session /\ adminTokens[u].type = "refresh"
        BY <1>10, <1>14, <2>1
    <3>3. /\ adminTokens[w].type = "refresh" => u = w
          /\ adminTokens[u].generation = adminTokens[w].generation
        BY <2>1, <3>1, <3>2 DEF Sound
    <3> QED BY <1>10, <2>1, <3>3
  <2>2. CASE u \notin DOMAIN adminTokens /\ w \notin DOMAIN adminTokens
    <3>1. u \in {AccessToken(r), RefreshToken(r)} /\ w \in {AccessToken(r), RefreshToken(r)}
        BY <1>9, <2>2
    <3> QED BY <1>14, <1>9a, <3>1
  <2>3. CASE \/ u \in DOMAIN adminTokens /\ w \notin DOMAIN adminTokens
             \/ u \notin DOMAIN adminTokens /\ w \in DOMAIN adminTokens
    <3>1. \A x \in {u, w} : x \notin DOMAIN adminTokens => adminTokens'[x].session = s
        BY <1>9, <1>9a
    <3>2. \A x \in {u, w} : x \in DOMAIN adminTokens => adminTokens'[x].session # s
        BY <1>10, <1>11, <1>14
    <3> QED BY <1>14, <2>3, <3>1, <3>2
  <2> QED BY <2>1, <2>2, <2>3
<1>15. Sound(adminSessions', adminTokens')
    BY <1>6, <1>8, <1>12, <1>13, <1>14 DEF Sound
<1>16. ASSUME NEW u \in DOMAIN adminTokens PROVE TokenGrows(u)
  <2>1. CASE adminTokens[u].session # s
      BY <1>6, <1>9, <1>10, <2>1 DEF TokenGrows, Sound
  <2>2. CASE adminTokens[u].session = s
    <3>1. ~Usable(adminTokens'[u])
        BY <1>11, <2>2
    <3>2. adminTokens[u].type = "access" => adminTokens'[u].revoked
      <4>1. CASE u \in LiveAccessTokens(s)
          BY <1>1, <1>9, <4>1, RevokedRow DEF Sound, TokenTyped
      <4>2. CASE adminTokens[u].revoked
          BY <1>10, <4>2
      <4> QED BY <2>2, <4>1, <4>2 DEF LiveAccessTokens, TokensOf
    <3> QED BY <1>9, <1>10, <3>1, <3>2 DEF TokenGrows
  <2> QED BY <2>1, <2>2
<1> QED BY <1>6, <1>8, <1>9, <1>15, <1>16 DEF TokensGrow

\* A new session.
LEMMA CreatingEffect ==
    ASSUME Sound(adminSessions, adminTokens), NEW r, NEW c, NEW at \in Nat,
           CreateAdminSession(r, c, at), NewId(r) \notin DOMAIN adminSessions,
           AccessToken(r) \notin DOMAIN adminTokens, RefreshToken(r) \notin DOMAIN adminTokens
    PROVE  /\ DOMAIN adminSessions' = DOMAIN adminSessions \cup {NewId(r)}
           /\ DOMAIN adminTokens' = DOMAIN adminTokens \cup {AccessToken(r), RefreshToken(r)}
           /\ adminSessions'[NewId(r)].authTime = at
           /\ Sound(adminSessions', adminTokens') /\ TokensGrow
<1>0. PICK accessExpires \in Nat, refreshExpires \in Nat :
          accessExpires = at + AccessTTL /\ refreshExpires = at + RefreshTTL
    BY PolicyAssumption
<1>1. PICK s, pair : s = NewId(r) /\ pair = TokenPair(r, s, 1, accessExpires, refreshExpires)
    OBVIOUS
<1>2. IsPair(pair, r, s, 1)
    BY <1>1, PairIs
<1>3. PICK user, transport, csrf, client, credential :
          adminSessions' = Added(adminSessions, s,
             [user |-> user, transport |-> transport, version |-> 1,
              authTime |-> at, accessExpires |-> accessExpires,
              refreshExpires |-> refreshExpires, absoluteExpires |-> refreshExpires,
              csrf |-> csrf, revoked |-> FALSE, client |-> client, credential |-> credential])
    BY <1>0, <1>1 DEF CreateAdminSession
<1>4. adminTokens' = Joined(adminTokens, pair)
    BY <1>0, <1>1 DEF CreateAdminSession
<1>5. /\ DOMAIN adminSessions' = DOMAIN adminSessions \cup {s}
      /\ \A x \in DOMAIN adminSessions : adminSessions'[x] = adminSessions[x]
      /\ SessionTyped(adminSessions'[s]) /\ adminSessions'[s].authTime = at
      /\ ~adminSessions'[s].revoked
    BY <1>1, <1>3 DEF Added, SessionTyped
<1>6. /\ DOMAIN adminTokens' = DOMAIN adminTokens \cup {AccessToken(r), RefreshToken(r)}
      /\ \A t \in DOMAIN adminTokens : adminTokens'[t] = adminTokens[t]
      /\ \A t \in {AccessToken(r), RefreshToken(r)} :
            /\ TokenTyped(adminTokens'[t]) /\ adminTokens'[t].session = s
            /\ adminTokens'[t].generation = 1
            /\ adminTokens'[t].type = "refresh" => t = RefreshToken(r)
    BY <1>2, <1>4 DEF Joined, IsPair
<1>7. \A t \in DOMAIN adminTokens : adminTokens[t].session \in DOMAIN adminSessions /\ adminTokens[t].session # s
    BY <1>1 DEF Sound
<1>8. /\ \A x \in DOMAIN adminSessions' : SessionTyped(adminSessions'[x])
      /\ \A t \in DOMAIN adminTokens' :
            /\ TokenTyped(adminTokens'[t]) /\ adminTokens'[t].session \in DOMAIN adminSessions'
            /\ Usable(adminTokens'[t]) => ~adminSessions'[adminTokens'[t].session].revoked
    BY <1>5, <1>6, <1>7 DEF Sound
<1>9. ASSUME NEW u \in DOMAIN adminTokens', NEW w \in DOMAIN adminTokens',
             Usable(adminTokens'[u]), Usable(adminTokens'[w]),
             adminTokens'[u].session = adminTokens'[w].session, adminTokens'[u].type = "refresh"
      PROVE  /\ adminTokens'[w].type = "refresh" => u = w
             /\ adminTokens'[u].generation = adminTokens'[w].generation
  <2>1. CASE u \in DOMAIN adminTokens /\ w \in DOMAIN adminTokens
      BY <1>6, <1>9, <2>1 DEF Sound
  <2>2. CASE u \notin DOMAIN adminTokens /\ w \notin DOMAIN adminTokens
      BY <1>6, <1>9, <2>2
  <2>3. CASE \/ u \in DOMAIN adminTokens /\ w \notin DOMAIN adminTokens
             \/ u \notin DOMAIN adminTokens /\ w \in DOMAIN adminTokens
      BY <1>6, <1>7, <1>9, <2>3
  <2> QED BY <2>1, <2>2, <2>3
<1>10. Sound(adminSessions', adminTokens')
    BY <1>8, <1>9 DEF Sound
<1>11. TokensGrow
    BY <1>5, <1>6, <1>7 DEF TokensGrow, SessionGrows, TokenGrows
<1> QED BY <1>1, <1>5, <1>6, <1>10, <1>11

\* What a step does to sessions and tokens.
Rotating(r) ==
    LET c == context[r] IN
    /\ r \in Asked /\ stage[r] = "locked" /\ Kind(r) = "refresh"
    /\ RefreshBindingRefusal(c, c.at) = Accepted
    /\ ~adminTokens[c.refresh].consumed
    /\ RefreshRefusal(c.refresh, c.at) = Accepted
    /\ RotatesTokens(r, c, c.at, RenewedCsrf(r))
    /\ Continues(r, "answer", Got(r))

LEMMA RevokesFamily ==
    ASSUME NEW r, NEW s, NEW type, NEW at, RevokeFamily(r, s, type, at)
    PROVE  Revoking({s}, TokensOf({s}))
BY DEF RevokeFamily, Revoking

LEMMA TokenWriters ==
    ASSUME NEW r, AdminStep(r)
    PROVE  \/ UNCHANGED <<adminSessions, adminTokens>>
           \/ CreateAdminSessionStep(r) \/ EndClientStep(r) \/ Rotating(r)
           \/ \E S : Revoking(S, TokensOf(S))
<1> USE DEF OnAccess, Reads, identityVars, identityRows
<1>1. CASE BootstrapIdentityStep(r) \/ BootstrapStep(r) \/ BootstrapAuditStep(r)
    BY <1>1 DEF BootstrapIdentityStep, BootstrapStep, BootstrapAuditStep, BootstrapIdentity
<1>2. CASE ThrottleStep(r) \/ VerifyStep(r) \/ RecordFailureStep(r) \/ ClearFailuresStep(r)
    BY <1>2 DEF ThrottleStep, VerifyStep, RecordFailureStep, ClearFailuresStep, RecordLoginFailure,
        ClearLoginFailures
<1>3. CASE \/ LoginVersionStep(r) \/ LoginBindingsStep(r) \/ SessionVersionStep(r)
           \/ SessionBindingsStep(r) \/ RefreshVersionStep(r) \/ RefreshBindingsStep(r)
    BY <1>3 DEF LoginVersionStep, LoginBindingsStep, SessionVersionStep, SessionBindingsStep,
        RefreshVersionStep, RefreshBindingsStep, ReadsVersion, ReadsBindings
<1>4. CASE \/ FindSessionStep(r) \/ SessionEndedStep(r) \/ AuthorizeVersionStep(r)
           \/ AuthorizeBindingsStep(r) \/ DecideStep(r)
    BY <1>4 DEF FindSessionStep, FindByAccessDigest, SessionEndedStep, AuthorizeVersionStep,
        AuthorizeBindingsStep, DecideStep
<1>5. CASE LockTokenStep(r) \/ LockSessionStep(r) \/ DeadlockStep(r)
    BY <1>5 DEF LockTokenStep, LockSessionStep, LocksRows, DeadlockStep, GivesUp
<1>6. CASE ResolveClientStep(r) \/ InspectStep(r) \/ ReadProofsStep(r)
    BY <1>6 DEF ResolveClientStep, InspectStep, InspectRefresh, ReadProofsStep
<1>7. CASE RotateRefreshStep(r)
  <2>1. RotateRefresh(r, context[r], context[r].at, RenewedCsrf(r))
      BY <1>7 DEF RotateRefreshStep
  <2>2. CASE RefreshBindingRefusal(context[r], context[r].at) # Accepted
      BY <2>1, <2>2 DEF RotateRefresh, GivesUp
  <2>3. CASE RefreshBindingRefusal(context[r], context[r].at) = Accepted
               /\ adminTokens[context[r].refresh].consumed
      BY <2>1, <2>3, RevokesFamily DEF RotateRefresh, RevokesReplayed
  <2>4. CASE RefreshBindingRefusal(context[r], context[r].at) = Accepted
               /\ ~adminTokens[context[r].refresh].consumed
      BY <1>7, <2>1, <2>4 DEF RotateRefresh, GivesUp, Rotating, RotateRefreshStep, OnIdentity, At
  <2> QED BY <2>2, <2>3, <2>4
<1>8. ASSUME NEW t, NEW transport, NEW type, NEW at, RevokeByToken(r, t, transport, type, at)
      PROVE  UNCHANGED <<adminSessions, adminTokens>> \/ \E S : Revoking(S, TokensOf(S))
    BY <1>8, RevokesFamily DEF RevokeByToken, GivesUp
<1>9. CASE RevokeScopelessStep(r)
    BY <1>8, <1>9 DEF RevokeScopelessStep
<1>10. CASE LogoutStep(r)
  <2>1. CASE RevokeByToken(r, context[r].access, "bearer", "access", context[r].at)
      BY <1>8, <2>1
  <2>2. CASE RevokeCookieSession(r, context[r], context[r].at)
      BY <2>2, RevokesFamily DEF RevokeCookieSession, GivesUp
  <2> QED BY <1>10, <2>1, <2>2 DEF LogoutStep
<1>11. CASE \/ RegisterAdminClientStep(r) \/ AddAdminCredentialStep(r) \/ DisableSessionsStep(r)
            \/ WithdrawStep(r)
    BY <1>11 DEF RegisterAdminClientStep, AddAdminCredentialStep, DisableSessionsStep, WithdrawStep,
        RegisterControlledClient, AddControlledClientCredential, UpdateSessions, LocksRows
<1> QED
    BY <1>1, <1>2, <1>3, <1>4, <1>5, <1>6, <1>7, <1>9, <1>10, <1>11 DEF AdminStep

-----------------------------------------------------------------------------
(* Controlled clients that are ended.                                      *)

Enders == {"disable_admin_client", "revoke_admin_credential"}

\* What a command of these kinds has, whatever its steps add to it.
Fields(kind) ==
    CASE kind = "login" -> {"identifier", "source"}
      [] kind = "authorize" -> {"highRisk"}
      [] kind = "refresh" -> {"refresh", "transport"}
      [] kind = "logout" -> {"access", "refresh", "transport"}
      [] kind \in Enders -> {"client", "credential"}
      [] OTHER -> {}

HasInv ==
    \A q \in Asked : Kind(q) \in Handled /\ stage[q] # "idle" => Fields(Kind(q)) \subseteq DOMAIN context[q]

LEMMA CommandHas ==
    ASSUME FlowType, NEW q \in Asked, Kind(q) \in Handled
    PROVE  Fields(Kind(q)) \subseteq DOMAIN Prepared(q)
<1>1. Fields(Kind(q)) \subseteq DOMAIN Command(q).with \cup DOMAIN Command(q).uses
    BY WorkloadsAssumption DEF FlowType, Kind, Command, Asked, Fields, Enders, Handled
<1>2. DOMAIN Commanded(q) = DOMAIN Command(q).with \cup DOMAIN Command(q).uses
    BY DEF Commanded, Joined
<1>3. DOMAIN Commanded(q) \subseteq DOMAIN Prepared(q)
    BY PreparedIs DEF Joined
<1> QED BY <1>1, <1>2, <1>3

\* A request loses nothing that it has.
LEMMA HasStays ==
    ASSUME FlowType, [Next]_vars, NEW q \in Asked, ~Send(q)
    PROVE  /\ DOMAIN context[q] \subseteq DOMAIN context'[q]
           /\ stage'[q] # "idle" => stage[q] # "idle"
<1>1. CASE Same(q)
    BY <1>1 DEF Same
<1>2. CASE Deliver(q) \/ Fail(q)
    BY <1>2 DEF Deliver, Fail, At, Under
<1>3. CASE SoftwareStep(q) \/ AdminStep(q)
  <2>1. stage[q] # "idle"
      BY <1>3, StepsBegin
  <2>2. ASSUME NEW next, NEW kept, Goes(q, next, kept)
        PROVE  DOMAIN context[q] \subseteq DOMAIN context'[q]
    <3>1. context'[q] = Joined(kept, context[q])
        BY <2>2 DEF Goes, FlowType
    <3>2. DOMAIN Joined(kept, context[q]) = DOMAIN kept \cup DOMAIN context[q]
        BY DEF Joined
    <3> QED BY <3>1, <3>2
  <2>3. CASE Refused(q)
      BY <2>1, <2>3 DEF Refused
  <2> QED BY <1>3, <2>1, <2>2, <2>3, StepsGo
<1> QED BY <1>1, <1>2, <1>3, Turns

LEMMA HasStep == FlowType /\ HasInv /\ [Next]_vars => HasInv'
<1> SUFFICES ASSUME FlowType, HasInv, [Next]_vars PROVE HasInv'
    OBVIOUS
<1>1. workload' = workload /\ Asked' = Asked /\ \A q \in Asked : Kind(q)' = Kind(q)
    BY StepMoves DEF Asked, Kind, Command
<1>2. ASSUME NEW q \in Asked, Kind(q) \in Handled, stage'[q] # "idle"
      PROVE  Fields(Kind(q)) \subseteq DOMAIN context'[q]
  <2>1. CASE Send(q)
      BY <1>2, <2>1, SentAs, CommandHas
  <2>2. CASE ~Send(q)
      BY <1>2, <2>2, HasStays DEF HasInv
  <2> QED BY <2>1, <2>2
<1> QED BY <1>1, <1>2 DEF HasInv

\* Rows of clients and their credentials, and how they change.
ClientsSound ==
    /\ \A c \in DOMAIN adminClients : c # None /\ "disabled" \in DOMAIN adminClients[c]
    /\ \A k \in DOMAIN adminCredentials : "revoked" \in DOMAIN adminCredentials[k]

ClientsGrow ==
    /\ \A c \in DOMAIN adminClients :
          c \in DOMAIN adminClients' /\ (adminClients[c].disabled => adminClients'[c].disabled)
    /\ \A k \in DOMAIN adminCredentials :
          k \in DOMAIN adminCredentials' /\ (adminCredentials[k].revoked => adminCredentials'[k].revoked)

\* What a client was ended for: it is disabled, or its credential is revoked.
Ended(c) ==
    /\ EndedExists(c)
    /\ IF c.credential = None THEN adminClients[c.client].disabled
       ELSE adminCredentials[c.credential].revoked

Ending(c) ==
    /\ EndedExists(c)
    /\ "sessions" \in DOMAIN c
    /\ c.sessions \subseteq SessionsOfClient(c.client, c.credential)

LEMMA ClientWriters ==
    ASSUME NEW r, AdminStep(r)
    PROVE  \/ UNCHANGED <<adminClients, adminCredentials>>
           \/ RegisterAdminClientStep(r) \/ AddAdminCredentialStep(r) \/ EndClientStep(r)
<1> USE DEF OnAccess, Reads, identityVars, identityRows
<1>1. CASE BootstrapIdentityStep(r) \/ BootstrapStep(r) \/ BootstrapAuditStep(r)
    BY <1>1 DEF BootstrapIdentityStep, BootstrapStep, BootstrapAuditStep, BootstrapIdentity
<1>2. CASE ThrottleStep(r) \/ VerifyStep(r) \/ RecordFailureStep(r) \/ ClearFailuresStep(r)
    BY <1>2 DEF ThrottleStep, VerifyStep, RecordFailureStep, ClearFailuresStep, RecordLoginFailure,
        ClearLoginFailures
<1>3. CASE \/ LoginVersionStep(r) \/ LoginBindingsStep(r) \/ SessionVersionStep(r)
           \/ SessionBindingsStep(r) \/ RefreshVersionStep(r) \/ RefreshBindingsStep(r)
    BY <1>3 DEF LoginVersionStep, LoginBindingsStep, SessionVersionStep, SessionBindingsStep,
        RefreshVersionStep, RefreshBindingsStep, ReadsVersion, ReadsBindings
<1>4. CASE \/ FindSessionStep(r) \/ SessionEndedStep(r) \/ AuthorizeVersionStep(r)
           \/ AuthorizeBindingsStep(r) \/ DecideStep(r)
    BY <1>4 DEF FindSessionStep, FindByAccessDigest, SessionEndedStep, AuthorizeVersionStep,
        AuthorizeBindingsStep, DecideStep
<1>5. CASE LockTokenStep(r) \/ LockSessionStep(r) \/ DeadlockStep(r)
    BY <1>5 DEF LockTokenStep, LockSessionStep, LocksRows, DeadlockStep, GivesUp
<1>6. CASE ResolveClientStep(r) \/ InspectStep(r) \/ ReadProofsStep(r)
    BY <1>6 DEF ResolveClientStep, InspectStep, InspectRefresh, ReadProofsStep
<1>7. CASE RotateRefreshStep(r)
    BY <1>7 DEF RotateRefreshStep, RotateRefresh, GivesUp, RevokesReplayed, RevokeFamily, RotatesTokens
<1>8. CASE RevokeScopelessStep(r) \/ LogoutStep(r)
    BY <1>8 DEF RevokeScopelessStep, LogoutStep, RevokeByToken, RevokeCookieSession, GivesUp, RevokeFamily
<1>9. CASE DisableSessionsStep(r) \/ WithdrawStep(r)
    BY <1>9 DEF DisableSessionsStep, WithdrawStep, UpdateSessions, LocksRows
<1>10. CASE CreateAdminSessionStep(r)
    BY <1>10 DEF CreateAdminSessionStep, CreateAdminSession
<1> QED
    BY <1>1, <1>2, <1>3, <1>4, <1>5, <1>6, <1>7, <1>8, <1>9, <1>10 DEF AdminStep

\* Software steps and those around the calls have nothing to do with administrators.
LEMMA IdentityWriters ==
    ASSUME FlowType, [Next]_vars
    PROVE  UNCHANGED identityRows \/ \E r \in Asked : AdminStep(r)
<1>1. CASE UNCHANGED vars \/ Tick
    BY <1>1 DEF vars, Tick, identityVars
<1>2. ASSUME NEW r, Send(r) \/ Deliver(r) \/ Fail(r) PROVE UNCHANGED identityRows
    BY <1>2 DEF Send, Deliver, Fail, identityVars
<1>3. ASSUME NEW r, SoftwareStep(r) PROVE UNCHANGED identityRows
  <2>1. BindScopeStep(r) => UNCHANGED identityRows
      BY DEF BindScopeStep, OnAccess, identityVars
  <2> QED BY <1>3, <2>1, SoftwareMoves DEF identityVars
<1> QED BY <1>1, <1>2, <1>3, AdminMoves DEF Next, GoesOn

LEMMA NewIdIs == \A r : NewId(r) # None
BY DEF NewId, None

\* Clients and credentials stay, and what was ended stays ended.
LEMMA ClientsStep ==
    ASSUME FlowType, [Next]_vars, ClientsSound,
           \A q \in Asked : stage[q] = "end_client" => Ending(context[q])
    PROVE  /\ ClientsSound' /\ ClientsGrow
           /\ \A r : EndClientStep(r) => \E c : c = context[r] /\ Ended(c)'
<1>1. ASSUME UNCHANGED <<adminClients, adminCredentials>> PROVE ClientsSound' /\ ClientsGrow
    BY <1>1 DEF ClientsSound, ClientsGrow
<1>2. ASSUME NEW r \in Asked, RegisterAdminClientStep(r) \/ AddAdminCredentialStep(r)
      PROVE  ClientsSound' /\ ClientsGrow
  <2>1. PICK id : id = NewId(r) /\ id # None
      BY NewIdIs
  <2>2. /\ \/ adminClients' = adminClients
           \/ \E row : adminClients' = Added(adminClients, id, row) /\ "disabled" \in DOMAIN row
        /\ \/ adminCredentials' = adminCredentials
           \/ \E row : adminCredentials' = Added(adminCredentials, id, row) /\ "revoked" \in DOMAIN row
      BY <1>2, <2>1 DEF RegisterAdminClientStep, AddAdminCredentialStep, RegisterControlledClient,
          AddControlledClientCredential, identityRows
  <2> QED BY <2>1, <2>2 DEF Added, ClientsSound, ClientsGrow
<1>3. ASSUME NEW r \in Asked, EndClientStep(r)
      PROVE  ClientsSound' /\ ClientsGrow /\ \E c : c = context[r] /\ Ended(c)'
  <2>1. PICK c : c = context[r] /\ EndedExists(c)
      BY <1>3 DEF EndClientStep, OnIdentity, At, Ending
  <2>2. PICK client, credential : client = c.client /\ credential = c.credential
      OBVIOUS
  <2>3. CASE credential = None
    <3>1. /\ adminClients' = [adminClients EXCEPT ![client].disabled = TRUE]
          /\ adminCredentials' = adminCredentials
        BY <1>3, <2>1, <2>2, <2>3 DEF EndClientStep, DisableControlledClient
    <3>2. client \in DOMAIN adminClients /\ "disabled" \in DOMAIN adminClients[client]
        BY <2>1, <2>2 DEF EndedExists, ClientsSound
    <3>3. /\ DOMAIN adminClients' = DOMAIN adminClients
          /\ adminClients'[client].disabled
          /\ \A d \in DOMAIN adminClients : DOMAIN adminClients'[d] = DOMAIN adminClients[d]
          /\ \A d \in DOMAIN adminClients : d # client => adminClients'[d] = adminClients[d]
        BY <3>1, <3>2
    <3>4. ClientsSound' /\ ClientsGrow
        BY <3>1, <3>3 DEF ClientsSound, ClientsGrow
    <3> QED BY <2>1, <2>2, <2>3, <3>2, <3>3, <3>4 DEF Ended, EndedExists
  <2>4. CASE credential # None
    <3>1. /\ adminCredentials' = [adminCredentials EXCEPT ![credential].revoked = TRUE]
          /\ adminClients' = adminClients
        BY <1>3, <2>1, <2>2, <2>4 DEF EndClientStep, RevokeControlledClientCredential
    <3>2. /\ credential \in DOMAIN adminCredentials /\ "revoked" \in DOMAIN adminCredentials[credential]
          /\ client \in DOMAIN adminClients
        BY <2>1, <2>2, <2>4 DEF EndedExists, ClientsSound
    <3>3. /\ DOMAIN adminCredentials' = DOMAIN adminCredentials
          /\ adminCredentials'[credential].revoked
          /\ \A k \in DOMAIN adminCredentials : DOMAIN adminCredentials'[k] = DOMAIN adminCredentials[k]
          /\ \A k \in DOMAIN adminCredentials : k # credential => adminCredentials'[k] = adminCredentials[k]
        BY <3>1, <3>2
    <3>4. ClientsSound' /\ ClientsGrow
        BY <3>1, <3>3 DEF ClientsSound, ClientsGrow
    <3> QED BY <2>1, <2>2, <2>4, <3>1, <3>2, <3>3, <3>4 DEF Ended, EndedExists
  <2> QED BY <2>3, <2>4
<1>4. \A r : EndClientStep(r) => r \in Asked
    BY DEF EndClientStep, OnIdentity, At
<1> QED BY <1>1, <1>2, <1>3, <1>4, IdentityWriters, ClientWriters DEF identityRows, AdminStep

\* Sessions, tokens and clients, and what ends a client.
TokenInv ==
    /\ Sound(adminSessions, adminTokens)
    /\ Fresh(DOMAIN adminSessions, MakesToken)
    /\ Fresh({t[1] : t \in DOMAIN adminTokens}, MakesToken)
    /\ ClientsSound
    /\ \A q \in Asked : stage[q] = "end_client" => Ending(context[q])
    /\ \A q \in Asked : Kind(q) \in Enders /\ Told(q) => Ended(context[q])

LEMMA NewTokens ==
    ASSUME NEW r, NewId(r) \notin {t[1] : t \in DOMAIN adminTokens}
    PROVE  /\ AccessToken(r) \notin DOMAIN adminTokens
           /\ RefreshToken(r) \notin DOMAIN adminTokens
<1>1. AccessToken(r)[1] = NewId(r) /\ RefreshToken(r)[1] = NewId(r)
    BY DEF AccessToken, RefreshToken
<1> QED BY <1>1

\* Both stay sound, whatever is done to them.
LEMMA TokensStaySound ==
    ASSUME FlowType, FlowInv, TimedInv, TokenInv, [Next]_vars
    PROVE  /\ Sound(adminSessions', adminTokens') /\ TokensGrow
           /\ StaysFresh(DOMAIN adminSessions', MakesToken)
           /\ StaysFresh({t[1] : t \in DOMAIN adminTokens'}, MakesToken)
<1> DEFINE Tags(tokens) == {t[1] : t \in DOMAIN tokens}
<1>1. /\ Sound(adminSessions, adminTokens)
      /\ Fresh(DOMAIN adminSessions, MakesToken) /\ Fresh(Tags(adminTokens), MakesToken)
    BY DEF TokenInv
<1>2. ASSUME UNCHANGED <<adminSessions, adminTokens>>
      PROVE  /\ Sound(adminSessions', adminTokens') /\ TokensGrow
             /\ DOMAIN adminSessions' = DOMAIN adminSessions /\ DOMAIN adminTokens' = DOMAIN adminTokens
    BY <1>1, <1>2 DEF TokensGrow, SessionGrows, TokenGrows, Sound, SessionTyped, TokenTyped
<1>3. ASSUME NEW r, EndClientStep(r)
      PROVE  \E S, T : Revoking(S, T)
  <2>1. r \in Asked /\ stage[r] = "end_client"
      BY <1>3 DEF EndClientStep, OnIdentity, At
  <2>2. Ending(context[r])
      BY <2>1 DEF TokenInv
  <2>3. /\ adminSessions' = RevokedSessions(context[r].sessions)
        /\ adminTokens' = RevokedTokens(TokensOfClient(context[r]))
      BY <1>3 DEF EndClientStep, DisableControlledClient, RevokeControlledClientCredential
  <2>4. TokensOf(context[r].sessions) \subseteq TokensOfClient(context[r])
      BY <2>2 DEF Ending, TokensOf, TokensOfClient
  <2> QED BY <2>3, <2>4 DEF Revoking
<1>4. ASSUME \E S, T : Revoking(S, T)
      PROVE  /\ Sound(adminSessions', adminTokens') /\ TokensGrow
             /\ DOMAIN adminSessions' = DOMAIN adminSessions /\ DOMAIN adminTokens' = DOMAIN adminTokens
    BY <1>1, <1>4, RevokingEffect
<1>5. ASSUME NEW ids, Fresh(ids, MakesToken) PROVE StaysFresh(ids, MakesToken)
    BY <1>5, DrawnStayFresh DEF Drawing
<1>6. CASE UNCHANGED <<adminSessions, adminTokens>> \/ \E S, T : Revoking(S, T)
    BY <1>1, <1>2, <1>4, <1>5, <1>6
<1>7. ASSUME NEW r \in Asked, AdminStep(r), Rotating(r) \/ CreateAdminSessionStep(r)
      PROVE  /\ context[r].at \in Nat
             /\ NewId(r) \notin DOMAIN adminSessions
             /\ AccessToken(r) \notin DOMAIN adminTokens /\ RefreshToken(r) \notin DOMAIN adminTokens
             /\ StaysFresh(DOMAIN adminSessions \cup {NewId(r)}, MakesToken)
             /\ StaysFresh(Tags(adminTokens) \cup {NewId(r)}, MakesToken)
  <2>1. stage[r] \in MakesToken /\ stage[r] # "idle" /\ stage'[r] \in {"answer", "clear_failures", "done"}
      BY <1>7, ContinuesMoves DEF Rotating, CreateAdminSessionStep, OnIdentity, At, MovesOn, MovesTo,
          FlowType, MakesToken, Locking
  <2>2. stage[r] \in RouteOf(Kind(r)) /\ stage[r] \in {"locked", "create_admin_session"}
    <3>1. stage[r] \in {"locked", "create_admin_session"}
        BY <1>7 DEF Rotating, CreateAdminSessionStep, OnIdentity, At
    <3> QED BY <3>1 DEF FlowInv, OnRoute
  <2>3. Kind(r) \in Timed
      BY <2>2 DEF RouteOf, Route, OtherStages, SoftwareStages, Timed, Guarding, Locking
  <2>4. context[r].at \in Nat
      BY <2>1, <2>3 DEF TimedInv, Dated
  <2>5. stage'[r] \notin MakesToken
      BY <2>1 DEF MakesToken, Locking
  <2>6. /\ NewId(r) \notin DOMAIN adminSessions /\ NewId(r) \notin Tags(adminTokens)
        /\ StaysFresh(DOMAIN adminSessions \cup {NewId(r)}, MakesToken)
        /\ StaysFresh(Tags(adminTokens) \cup {NewId(r)}, MakesToken)
    <3> HIDE DEF Tags
    <3> QED BY <1>1, <1>7, <2>1, <2>5, DrawnAddedFresh DEF Drawing
  <2> QED BY <2>4, <2>6, NewTokens
<1>8. ASSUME NEW r \in Asked, AdminStep(r), CreateAdminSessionStep(r)
      PROVE  /\ Sound(adminSessions', adminTokens') /\ TokensGrow
             /\ DOMAIN adminSessions' = DOMAIN adminSessions \cup {NewId(r)}
             /\ DOMAIN adminTokens' = DOMAIN adminTokens \cup {AccessToken(r), RefreshToken(r)}
    BY <1>1, <1>7, <1>8, CreatingEffect DEF CreateAdminSessionStep
<1>9. ASSUME NEW r \in Asked, AdminStep(r), Rotating(r)
      PROVE  /\ Sound(adminSessions', adminTokens') /\ TokensGrow
             /\ DOMAIN adminSessions' = DOMAIN adminSessions
             /\ DOMAIN adminTokens' = DOMAIN adminTokens \cup {AccessToken(r), RefreshToken(r)}
  <2>1. /\ Known(context[r].refresh) /\ adminTokens[context[r].refresh].type = "refresh"
        /\ Usable(adminTokens[context[r].refresh]) /\ ~SessionOf(context[r].refresh).revoked
      BY <1>9 DEF Rotating, RefreshBindingRefusal, RefreshRefusal, Accepted, Usable
  <2> QED BY <1>1, <1>7, <1>9, <2>1, RotatingEffect DEF Rotating
<1>10. ASSUME NEW r, DOMAIN adminTokens' = DOMAIN adminTokens \cup {AccessToken(r), RefreshToken(r)}
       PROVE  Tags(adminTokens') = Tags(adminTokens) \cup {NewId(r)}
  <2>1. AccessToken(r)[1] = NewId(r) /\ RefreshToken(r)[1] = NewId(r)
      BY DEF AccessToken, RefreshToken
  <2> QED BY <1>10, <2>1
<1>11. ASSUME NEW r \in Asked, AdminStep(r), CreateAdminSessionStep(r)
       PROVE  StaysFresh(DOMAIN adminSessions', MakesToken) /\ StaysFresh(Tags(adminTokens'), MakesToken)
  <2> HIDE DEF Tags
  <2> QED BY <1>7, <1>8, <1>10, <1>11
<1>12. ASSUME NEW r \in Asked, AdminStep(r), Rotating(r)
       PROVE  StaysFresh(DOMAIN adminSessions', MakesToken) /\ StaysFresh(Tags(adminTokens'), MakesToken)
  <2> HIDE DEF Tags
  <2> QED BY <1>1, <1>5, <1>7, <1>9, <1>10, <1>12
<1> QED
    BY <1>3, <1>6, <1>8, <1>9, <1>11, <1>12, IdentityWriters, TokenWriters DEF identityRows

\* A request has its answer already, or comes to it at its last step.
LEMMA ToldMoves ==
    ASSUME FlowType, FlowInv, [Next]_vars, NEW q \in Asked, Told(q)'
    PROVE  \/ Told(q) /\ context'[q] = context[q]
           \/ (SoftwareStep(q) \/ AdminStep(q)) /\ stage'[q] = "answer"
<1>1. CASE Same(q)
    BY <1>1 DEF Same, Told, Answered
<1>2. CASE Send(q)
  <2>1. stage'[q] \in {"done", FirstStep[Kind(q)]} /\ outcome'[q] \in {NoResult, Error("invalid_request")}
      BY <1>2 DEF Send, FlowType
  <2>2. Kind(q) \in DOMAIN FirstStep
      BY WorkloadsAssumption DEF FlowType, Kind, Command, Asked
  <2>3. FirstStep[Kind(q)] # "answer"
      BY <2>2 DEF FirstStep
  <2> QED BY <2>1, <2>3 DEF Told, Answered, NoResult, Error
<1>3. CASE Deliver(q)
    BY <1>3 DEF Deliver, At, Told
<1>4. CASE Fail(q)
    BY <1>4 DEF Fail, FlowType, Told, Answered, Error
<1>5. CASE SoftwareStep(q) \/ AdminStep(q)
  <2>1. ~Answered(q)
      BY <1>5, StepsBegin DEF FlowInv
  <2>2. ~Answered(q)'
      BY <1>5, <2>1, StepsGo DEF Goes, Refused, Answered, FlowType
  <2> QED BY <1>5, <2>2 DEF Told
<1> QED BY <1>1, <1>2, <1>3, <1>4, <1>5, Turns

\* The step that a request takes at its stage.
LEMMA StepAt ==
    ASSUME FlowType, NEW r, AdminStep(r), stage'[r] # "done" \/ ~DeadlockStep(r)
    PROVE  /\ stage[r] = "login_throttle" => ThrottleStep(r)
           /\ stage[r] = "verify_login" => VerifyStep(r)
           /\ stage[r] = "login_version" => LoginVersionStep(r)
           /\ stage[r] = "login_bindings" => LoginBindingsStep(r)
           /\ stage[r] = "create_admin_session" => CreateAdminSessionStep(r)
           /\ stage[r] = "find_session" => FindSessionStep(r)
           /\ stage[r] = "session_version" => SessionVersionStep(r)
           /\ stage[r] = "session_bindings" => SessionBindingsStep(r)
           /\ stage[r] = "authorize_version" => AuthorizeVersionStep(r)
           /\ stage[r] = "authorize_bindings" => AuthorizeBindingsStep(r)
           /\ stage[r] = "decide" => DecideStep(r)
           /\ stage[r] = "session_ended" => SessionEndedStep(r)
           /\ stage[r] = "resolve_client" => ResolveClientStep(r)
           /\ stage[r] = "inspect_refresh" => InspectStep(r)
           /\ stage[r] = "refresh_version" => RefreshVersionStep(r)
           /\ stage[r] = "refresh_bindings" => RefreshBindingsStep(r)
           /\ stage[r] = "lock_token" => LockTokenStep(r)
           /\ stage[r] = "lock_session" => LockSessionStep(r)
           /\ stage[r] = "locked" => \/ Kind(r) = "logout" /\ LogoutStep(r)
                                     \/ Kind(r) = "refresh" /\ (RotateRefreshStep(r) \/ RevokeScopelessStep(r))
           /\ stage[r] = "read_proofs" => ReadProofsStep(r)
           /\ stage[r] = "disable_sessions" => DisableSessionsStep(r)
           /\ stage[r] = "end_client" => EndClientStep(r)
<1> USE DEF OnIdentity, OnAccess, At
<1>0. r \in Asked
    BY AdminMoves
<1>1. CASE BootstrapIdentityStep(r) \/ BootstrapStep(r) \/ BootstrapAuditStep(r)
    BY <1>1 DEF BootstrapIdentityStep, BootstrapStep, BootstrapAuditStep
<1>2. CASE ThrottleStep(r) \/ VerifyStep(r) \/ RecordFailureStep(r) \/ CreateAdminSessionStep(r)
    BY <1>2 DEF ThrottleStep, VerifyStep, RecordFailureStep, CreateAdminSessionStep
<1>3. CASE LoginVersionStep(r) \/ SessionVersionStep(r) \/ RefreshVersionStep(r)
    BY <1>3 DEF LoginVersionStep, SessionVersionStep, RefreshVersionStep, ReadsVersion
<1>4. CASE LoginBindingsStep(r) \/ SessionBindingsStep(r) \/ RefreshBindingsStep(r)
    BY <1>4 DEF LoginBindingsStep, SessionBindingsStep, RefreshBindingsStep, ReadsBindings
<1>5. CASE ClearFailuresStep(r) \/ FindSessionStep(r) \/ SessionEndedStep(r)
    BY <1>5 DEF ClearFailuresStep, FindSessionStep, SessionEndedStep
<1>6. CASE AuthorizeVersionStep(r) \/ AuthorizeBindingsStep(r) \/ DecideStep(r)
    BY <1>6 DEF AuthorizeVersionStep, AuthorizeBindingsStep, DecideStep
<1>7. CASE LockTokenStep(r) \/ LockSessionStep(r) \/ ResolveClientStep(r) \/ InspectStep(r)
    BY <1>7 DEF LockTokenStep, LockSessionStep, ResolveClientStep, InspectStep
<1>8. CASE DeadlockStep(r)
    BY <1>0, <1>8 DEF DeadlockStep, Refused, FlowType
<1>9. CASE RotateRefreshStep(r) \/ RevokeScopelessStep(r) \/ ReadProofsStep(r) \/ LogoutStep(r)
    BY <1>9 DEF RotateRefreshStep, RevokeScopelessStep, ReadProofsStep, LogoutStep
<1>10. CASE \/ RegisterAdminClientStep(r) \/ AddAdminCredentialStep(r) \/ DisableSessionsStep(r)
            \/ EndClientStep(r) \/ WithdrawStep(r)
    BY <1>10 DEF RegisterAdminClientStep, AddAdminCredentialStep, DisableSessionsStep,
        EndClientStep, WithdrawStep
<1> QED
    BY <1>1, <1>2, <1>3, <1>4, <1>5, <1>6, <1>7, <1>8, <1>9, <1>10 DEF AdminStep

LEMMA EndedStays ==
    ASSUME TokensGrow, ClientsGrow, NEW c
    PROVE  /\ Ending(c) => Ending(c)'
           /\ Ended(c) => Ended(c)'
           /\ EndedExists(c) => EndedExists(c)'
<1>1. EndedExists(c) => EndedExists(c)'
    BY DEF EndedExists, ClientsGrow
<1>2. SessionsOfClient(c.client, c.credential) \subseteq SessionsOfClient(c.client, c.credential)'
    BY DEF SessionsOfClient, TokensGrow, SessionGrows
<1> QED BY <1>1, <1>2 DEF Ending, Ended, EndedExists, ClientsGrow

\* What a request that ends a client needs of its command.
LEMMA EnderKeeps ==
    ASSUME FlowType, FlowInv, HasInv, [Next]_vars, NEW q \in Asked, Kind(q) \in Enders, AdminStep(q)
    PROVE  /\ context'[q].client = context[q].client
           /\ context'[q].credential = context[q].credential
<1>1. Kind(q) \in Handled /\ Fields(Kind(q)) = {"client", "credential"}
    BY DEF Enders, Handled, Fields
<1>2. stage[q] \in {"disable_sessions", "end_client"}
    BY StepsBegin DEF FlowInv, OnRoute, RouteOf, Route, Enders
<1>3. {"client", "credential"} \subseteq DOMAIN context[q]
    BY <1>1, <1>2 DEF HasInv
<1>4. "client" \notin Writes(stage[q]) /\ "credential" \notin Writes(stage[q])
    BY <1>2 DEF Writes
<1>5. ~Send(q)
    BY <1>2 DEF Send
<1> QED BY <1>1, <1>3, <1>4, <1>5, Keeping DEF Keeps

LEMMA EndersStep ==
    ASSUME FlowType, FlowInv, HasInv, TokenInv, [Next]_vars, ClientsGrow, TokensGrow,
           \A r : EndClientStep(r) => \E c : c = context[r] /\ Ended(c)',
           NEW q \in Asked
    PROVE  /\ stage'[q] = "end_client" => Ending(context[q])'
           /\ Kind(q) \in Enders /\ Told(q)' => Ended(context[q])'
<1>1. \A c : (Ending(c) => Ending(c)') /\ (Ended(c) => Ended(c)')
    BY EndedStays
<1>2. ASSUME NEW c, Ending(c)', c = context'[q] PROVE Ending(context[q])'
    BY <1>2 DEF Ending, EndedExists, SessionsOfClient
<1>3. ASSUME NEW c, Ended(c)', c.client = context'[q].client, c.credential = context'[q].credential
      PROVE  Ended(context[q])'
    BY <1>3 DEF Ended, EndedExists
<1>4. ASSUME stage'[q] = "end_client" PROVE Ending(context[q])'
  <2>1. CASE Same(q)
    <3>1. PICK c : c = context[q]
        OBVIOUS
    <3>2. Ending(c) /\ c = context'[q]
        BY <1>4, <2>1, <3>1 DEF Same, TokenInv
    <3> QED BY <1>1, <1>2, <3>2
  <2>2. ~Deliver(q) /\ ~Fail(q)
      BY <1>4 DEF Deliver, Fail, FlowType
  <2>3. ~SoftwareStep(q)
      BY <1>4, SoftwareWays DEF SoftwareStages
  <2>4. ~Send(q)
    <3>1. Send(q) => stage'[q] \in {"done", FirstStep[Kind(q)]}
        BY DEF Send, FlowType
    <3>2. Kind(q) \in DOMAIN FirstStep
        BY WorkloadsAssumption DEF FlowType, Kind, Command, Asked
    <3> QED BY <1>4, <3>1, <3>2 DEF FirstStep
  <2>5. CASE AdminStep(q)
    <3>1. <<stage[q], "end_client">> \in Ways
        BY <1>4, <2>5, AdminWays
    <3>2. stage[q] = "disable_sessions"
        BY <3>1 DEF Ways
    <3>3. DisableSessionsStep(q) /\ Continues(q, "end_client", Got(q)) /\ UpdateSessions(q, context[q])
        BY <1>4, <2>5, <3>2, StepAt DEF DisableSessionsStep
    <3>4. result'[q].kind = "ok" /\ context'[q] = Joined(Got(q), context[q])
        BY <1>4, <3>3, GoesOnWith
    <3>5. PICK c, sessions : c = context[q] /\ sessions = SessionsOfClient(c.client, c.credential)
        OBVIOUS
    <3>6. EndedExists(c) /\ Returns(q, [sessions |-> sessions]) /\ UNCHANGED identityRows
        BY <3>3, <3>4, <3>5, NotRefused DEF UpdateSessions, LocksRows
    <3>7. Got(q) = [sessions |-> sessions]
        BY <3>6, AnsweredWith
    <3>8. "sessions" \in DOMAIN context'[q] /\ context'[q].sessions = sessions
        BY <3>4, <3>7, JoinedIs
    <3>9. stage[q] \in RouteOf(Kind(q))
        BY <3>2 DEF FlowInv, OnRoute
    <3>10. Kind(q) \in Enders
        BY <3>2, <3>9 DEF RouteOf, Route, OtherStages, SoftwareStages, Guarding, Locking, Enders
    <3>11. context'[q].client = c.client /\ context'[q].credential = c.credential
        BY <2>5, <3>5, <3>10, EnderKeeps
    <3>12. EndedExists(c)' /\ sessions \subseteq SessionsOfClient(c.client, c.credential)'
        BY <3>5, <3>6 DEF EndedExists, SessionsOfClient, identityRows
    <3> QED BY <3>8, <3>11, <3>12 DEF Ending, EndedExists, SessionsOfClient
  <2> QED BY <2>1, <2>2, <2>3, <2>4, <2>5, Turns
<1>5. ASSUME Kind(q) \in Enders, Told(q)' PROVE Ended(context[q])'
  <2>1. CASE Told(q) /\ context'[q] = context[q]
    <3>1. PICK c : c = context[q]
        OBVIOUS
    <3>2. Ended(c)
        BY <1>5, <2>1, <3>1 DEF TokenInv
    <3> QED BY <1>1, <1>3, <2>1, <3>1, <3>2
  <2>2. CASE (SoftwareStep(q) \/ AdminStep(q)) /\ stage'[q] = "answer"
    <3>1. AdminStep(q) /\ <<stage[q], "answer">> \in Ways /\ stage[q] \in {"disable_sessions", "end_client"}
        BY <1>5, <2>2, RouteStep DEF Enders, RouteOf, Route
    <3>2. stage[q] = "end_client"
        BY <3>1 DEF Ways
    <3>3. EndClientStep(q)
        BY <2>2, <3>1, <3>2, StepAt
    <3>4. PICK c : c = context[q] /\ Ended(c)'
        BY <3>3
    <3>5. c.client = context'[q].client /\ c.credential = context'[q].credential
        BY <1>5, <3>1, <3>4, EnderKeeps
    <3> QED BY <1>3, <3>4, <3>5
  <2> QED BY <1>5, <2>1, <2>2, ToldMoves
<1> QED BY <1>4, <1>5

LEMMA TokenStep == FlowType /\ FlowInv /\ TimedInv /\ HasInv /\ TokenInv /\ [Next]_vars => TokenInv'
<1> SUFFICES ASSUME FlowType, FlowInv, TimedInv, HasInv, TokenInv, [Next]_vars PROVE TokenInv'
    OBVIOUS
<1>1. workload' = workload /\ Asked' = Asked /\ \A q \in Asked : Kind(q)' = Kind(q)
    BY StepMoves DEF Asked, Kind, Command
<1>2. /\ Sound(adminSessions, adminTokens)' /\ TokensGrow
      /\ Fresh(DOMAIN adminSessions, MakesToken)'
      /\ Fresh({t[1] : t \in DOMAIN adminTokens}, MakesToken)'
    BY TokensStaySound DEF Sound, Fresh, StaysFresh
<1>3. /\ ClientsSound' /\ ClientsGrow
      /\ \A r : EndClientStep(r) => \E c : c = context[r] /\ Ended(c)'
    BY ClientsStep DEF TokenInv
<1>4. \A q \in Asked : /\ stage'[q] = "end_client" => Ending(context[q])'
                       /\ Kind(q) \in Enders /\ Told(q)' => Ended(context[q])'
    BY <1>2, <1>3, EndersStep
<1> QED BY <1>1, <1>2, <1>3, <1>4 DEF TokenInv

LEMMA InitAdmin == Init => FlowInv /\ TimedInv /\ HasInv /\ TokenInv
<1> SUFFICES ASSUME Init PROVE FlowInv /\ TimedInv /\ HasInv /\ TokenInv
    OBVIOUS
<1>1. \A q \in Asked : stage[q] = "idle" /\ outcome[q] = NoResult
    BY DEF Init, Asked
<1>2. \A q \in Asked : ~Answered(q) /\ ~Told(q)
    BY <1>1 DEF Answered, Told, NoResult
<1>3. FlowInv /\ TimedInv /\ HasInv
    BY <1>1, <1>2 DEF FlowInv, OnRoute, TimedInv, HasInv, Init
<1>4. TokenInv
  <2>1. /\ DOMAIN adminSessions = {} /\ DOMAIN adminTokens = {} /\ DOMAIN adminClients = {}
        /\ DOMAIN adminCredentials = {}
      BY DEF Init, IdentityInit
  <2> QED BY <1>1, <1>2, <2>1 DEF TokenInv, Sound, Fresh, ClientsSound
<1> QED BY <1>3, <1>4

\* What administrators' requests keep true of sessions, tokens and clients.
THEOREM TokensCorrect == Spec => [](FlowInv /\ TimedInv /\ HasInv /\ TokenInv)
<1>1. FlowType /\ FlowInv /\ TimedInv /\ HasInv /\ TokenInv /\ [Next]_vars
      => FlowInv' /\ TimedInv' /\ HasInv' /\ TokenInv'
    BY FlowStep, TimedStep, HasStep, TokenStep
<1> QED BY <1>1, InitAdmin, FlowCorrect, PTL DEF Spec

\* A session has one refresh token that can be used, and none once it is revoked.
THEOREM RefreshTokensAreSingle == Spec => []OneLiveRefresh
<1>1. ASSUME TokenInv, NEW s \in DOMAIN adminSessions, NEW refreshes, NEW accesses,
             refreshes = {t \in TokensOf({s}) : /\ adminTokens[t].type = "refresh"
                                                /\ ~adminTokens[t].revoked
                                                /\ ~adminTokens[t].consumed},
             accesses = {t \in TokensOf({s}) : /\ adminTokens[t].type = "access"
                                               /\ ~adminTokens[t].revoked
                                               /\ ~adminTokens[t].consumed}
      PROVE  /\ Cardinality(refreshes) <= 1
             /\ \A t \in refreshes, u \in accesses : adminTokens[t].generation = adminTokens[u].generation
             /\ adminSessions[s].revoked => refreshes \cup accesses = {}
  <2>1. \A t, u \in refreshes : t = u
      BY <1>1 DEF TokenInv, Sound, TokensOf, Usable
  <2>2. refreshes = {} \/ \E t : refreshes = {t}
    <3> HIDE <1>1
    <3> QED BY <2>1
  <2>3. Cardinality(refreshes) <= 1
    <3>1. CASE refreshes = {}
        BY <3>1, FS_EmptySet
    <3>2. ASSUME NEW t, refreshes = {t} PROVE Cardinality(refreshes) <= 1
      <4>1. Cardinality({t}) = 1
          BY FS_Singleton
      <4> QED BY <3>2, <4>1
    <3> QED BY <2>2, <3>1, <3>2
  <2>4. \A t \in refreshes, u \in accesses : adminTokens[t].generation = adminTokens[u].generation
      BY <1>1 DEF TokenInv, Sound, TokensOf, Usable
  <2>5. adminSessions[s].revoked => refreshes \cup accesses = {}
      BY <1>1 DEF TokenInv, Sound, TokensOf, Usable
  <2> QED BY <2>3, <2>4, <2>5
<1>2. TokenInv => OneLiveRefresh
    BY <1>1 DEF OneLiveRefresh
<1> QED BY <1>2, TokensCorrect, PTL

-----------------------------------------------------------------------------
(* What is served to a session.                                            *)

\* A session was made by a login of its administrator, no earlier than the password was
\* given, and is of a client only if it is of no browser.
SessionMade(s) ==
    /\ s[1] \in Asked /\ Kind(s[1]) = "login" /\ stage[s[1]] # "idle"
    /\ adminSessions[s].authTime \in Nat
    /\ adminSessions[s].authTime <= context[s[1]].at
    /\ adminSessions[s].transport # "bearer" => adminSessions[s].client = None

\* The session is not one of a client that was ended with c.
NotCut(s, c) ==
    ~(/\ adminSessions[s].client = c.client
      /\ c.credential \in {None, adminSessions[s].credential})

\* The request has found its session.
Past(q) ==
    \/ /\ Kind(q) \in {"current", "authorize"}
       /\ \/ stage[q] \in {"session_version", "session_bindings", "authorize_version",
                           "authorize_bindings", "decide"}
          \/ Told(q)
    \/ Kind(q) = "refresh" /\ Told(q)

Serves(q) ==
    /\ "session" \in DOMAIN context[q]
    /\ context[q].session \in DOMAIN adminSessions
    /\ \A x \in Command(q).after \cap Asked : Kind(x) \in Enders => NotCut(context[q].session, context[x])
    /\ Kind(q) \in {"current", "authorize"} =>
          /\ "authTime" \in DOMAIN context[q]
          /\ context[q].authTime = adminSessions[context[q].session].authTime

\* A high-risk operation was decided on a recent login.
Decided(c) ==
    c.highRisk => /\ "decidedAt" \in DOMAIN c
                  /\ c.decidedAt \in Nat
                  /\ c.decidedAt - c.authTime <= ReauthenticationWindow

ServedInv ==
    /\ \A s \in DOMAIN adminSessions : SessionMade(s)
    /\ \A q \in Asked : Past(q) => Serves(q)
    /\ \A q \in Asked : Kind(q) = "authorize" /\ Told(q) => Decided(context[q])

\* A new session is one of a login.
LEMMA SessionsCome ==
    ASSUME FlowType, FlowInv, TimedInv, TokenInv, [Next]_vars,
           NEW s \in DOMAIN adminSessions', s \notin DOMAIN adminSessions
    PROVE  \E r \in Asked :
              /\ s = NewId(r) /\ Kind(r) = "login" /\ AdminStep(r)
              /\ adminSessions'[s].authTime = context[r].at
              /\ adminSessions'[s].transport # "bearer" => adminSessions'[s].client = None
<1>1. PICK r \in Asked : AdminStep(r) /\ ~UNCHANGED <<adminSessions, adminTokens>>
  <2>1. ~UNCHANGED adminSessions
      OBVIOUS
  <2> QED BY <2>1, IdentityWriters DEF identityRows
<1>2. \A S, T : ~Revoking(S, T)
    BY DEF Revoking, RevokedSessions
<1>3. ~EndClientStep(r)
    BY DEF EndClientStep, DisableControlledClient, RevokeControlledClientCredential, RevokedSessions
<1>4. ~Rotating(r)
  <2>1. Rotating(r) => DOMAIN adminSessions' = DOMAIN adminSessions
      BY DEF Rotating, RotatesTokens
  <2> QED BY <2>1
<1>5. CreateAdminSessionStep(r)
    BY <1>1, <1>2, <1>3, <1>4, TokenWriters
<1>6. PICK id, c : id = NewId(r) /\ c = context[r]
    OBVIOUS
<1>7. PICK row : /\ adminSessions' = Added(adminSessions, id, row)
                 /\ row.authTime = c.at
                 /\ row.transport = c.transport
                 /\ row.client = IF c.transport = "bearer" THEN c.client ELSE None
    BY <1>5, <1>6 DEF CreateAdminSessionStep, CreateAdminSession
<1>8. s = id /\ adminSessions'[s] = row
    BY <1>7 DEF Added
<1>9. Kind(r) = "login"
  <2>1. stage[r] = "create_admin_session"
      BY <1>5 DEF CreateAdminSessionStep, OnIdentity, At
  <2>2. stage[r] \in RouteOf(Kind(r))
      BY <2>1 DEF FlowInv, OnRoute
  <2> QED BY <2>1, <2>2 DEF RouteOf, Route, OtherStages, SoftwareStages, Guarding, Locking
<1> QED BY <1>1, <1>6, <1>7, <1>8, <1>9

\* No session of an ended client is served.
LEMMA EndedIsNotServed ==
    ASSUME ClientsSound, NEW c, Ended(c), NEW s \in DOMAIN adminSessions, SessionMade(s), NEW at,
           \/ adminSessions[s].transport # "bearer"
           \/ CredentialInUse(adminSessions[s].client, adminSessions[s].credential, at)
    PROVE  NotCut(s, c)
<1> SUFFICES ASSUME adminSessions[s].client = c.client,
                    c.credential \in {None, adminSessions[s].credential}
             PROVE  FALSE
    BY DEF NotCut
<1>1. c.client \in DOMAIN adminClients /\ c.client # None
    BY DEF Ended, EndedExists, ClientsSound
<1>2. CredentialInUse(c.client, adminSessions[s].credential, at)
    BY <1>1 DEF SessionMade
<1>3. CASE c.credential = None
    BY <1>2, <1>3 DEF Ended, CredentialInUse, ClientInUse
<1>4. CASE c.credential # None
    BY <1>2, <1>4 DEF Ended, CredentialInUse
<1> QED BY <1>3, <1>4

\* The session that an access token opens.
LEMMA FindsSession ==
    ASSUME FlowType, TokenInv, NEW q \in Asked, FindSessionStep(q), stage'[q] # "done"
    PROVE  /\ {"session", "user", "authTime"} \subseteq DOMAIN context'[q]
           /\ context'[q].session \in DOMAIN adminSessions
           /\ context'[q].authTime = adminSessions[context'[q].session].authTime
           /\ \/ adminSessions[context'[q].session].transport # "bearer"
              \/ CredentialInUse(adminSessions[context'[q].session].client,
                                 adminSessions[context'[q].session].credential, context[q].at)
           /\ UNCHANGED identityRows
<1>1. /\ FindByAccessDigest(q, context[q], context[q].at)
      /\ context'[q] = Joined(Got(q), context[q])
      /\ \A e : ~Refuses(q, e)
  <2>1. FindByAccessDigest(q, context[q], context[q].at) /\ Continues(q, "session_version", Got(q))
      BY DEF FindSessionStep
  <2> QED BY <2>1, GoesOnWith, NotRefused
<1>2. AccessRefusal(context[q].access, context[q].at) = Accepted
    BY <1>1 DEF FindByAccessDigest
<1>3. PICK t, s, csrf :
          /\ t = context[q].access /\ s = adminTokens[t].session
          /\ Returns(q, [session |-> s, user |-> adminSessions[s].user,
                         authTime |-> adminSessions[s].authTime, csrf |-> csrf])
    BY <1>1, <1>2 DEF FindByAccessDigest, SessionOf
<1>4. t \in DOMAIN adminTokens /\ s \in DOMAIN adminSessions
    BY <1>2, <1>3 DEF AccessRefusal, Known, Accepted, TokenInv, Sound
<1>5. ControlledClientActive(adminSessions[s], context[q].at)
    BY <1>2, <1>3 DEF AccessRefusal, SessionOf, Accepted
<1>6. Got(q) = [session |-> s, user |-> adminSessions[s].user,
                authTime |-> adminSessions[s].authTime, csrf |-> csrf]
    BY <1>3, AnsweredWith
<1>7. /\ {"session", "user", "authTime"} \subseteq DOMAIN context'[q]
      /\ context'[q].session = s /\ context'[q].authTime = adminSessions[s].authTime
    BY <1>1, <1>6 DEF Joined
<1>8. UNCHANGED identityRows
    BY <1>1 DEF FindByAccessDigest, Reads, identityVars
<1> QED BY <1>4, <1>5, <1>7, <1>8 DEF ControlledClientActive

\* The session that a rotation renews.
LEMMA RenewsSession ==
    ASSUME FlowType, TokenInv, NEW q \in Asked, Rotating(q), stage'[q] # "done"
    PROVE  /\ {"session", "access", "refresh"} \subseteq DOMAIN context'[q]
           /\ context'[q].session \in DOMAIN adminSessions
           /\ context'[q].access = AccessToken(q) /\ context'[q].refresh = RefreshToken(q)
           /\ \/ adminSessions[context'[q].session].transport # "bearer"
              \/ CredentialInUse(adminSessions[context'[q].session].client,
                                 adminSessions[context'[q].session].credential, context[q].at)
           /\ UNCHANGED <<adminClients, adminCredentials>>
<1>1. PICK t, s : /\ t = context[q].refresh /\ s = adminTokens[t].session
    OBVIOUS
<1>2. /\ t \in DOMAIN adminTokens /\ s \in DOMAIN adminSessions
      /\ \/ adminSessions[s].transport # "bearer"
         \/ CredentialInUse(adminSessions[s].client, adminSessions[s].credential, context[q].at)
  <2>1. RefreshBindingRefusal(context[q], context[q].at) = Accepted
      BY DEF Rotating
  <2>2. t \in DOMAIN adminTokens
      BY <1>1, <2>1 DEF RefreshBindingRefusal, Known, Accepted
  <2>3. /\ SessionOf(t).transport = context[q].transport
        /\ context[q].transport = "bearer" => ControlledClientActive(SessionOf(t), context[q].at)
      BY <1>1, <2>1 DEF RefreshBindingRefusal, Accepted
  <2> QED BY <1>1, <2>2, <2>3 DEF SessionOf, ControlledClientActive, TokenInv, Sound
<1>3. /\ RotatesTokens(q, context[q], context[q].at, RenewedCsrf(q))
      /\ Continues(q, "answer", Got(q))
    BY DEF Rotating
<1>4. context'[q] = Joined(Got(q), context[q])
    BY <1>3, GoesOnWith
<1>5. Got(q) = Issued(q, s, RenewedCsrf(q))
  <2>1. Returns(q, Issued(q, s, RenewedCsrf(q)))
      BY <1>1, <1>3 DEF RotatesTokens
  <2> QED BY <2>1, AnsweredWith
<1>6. /\ {"session", "access", "refresh"} \subseteq DOMAIN context'[q]
      /\ context'[q].session = s
      /\ context'[q].access = AccessToken(q) /\ context'[q].refresh = RefreshToken(q)
    BY <1>4, <1>5 DEF Joined, Issued
<1> QED BY <1>2, <1>3, <1>6 DEF RotatesTokens

\* A request that was sent is under way or has come to an end.
LEMMA NeverIdle ==
    ASSUME FlowType, [Next]_vars, NEW q \in Asked, stage[q] # "idle"
    PROVE  stage'[q] # "idle"
<1>1. CASE Same(q)
    BY <1>1 DEF Same
<1>2. CASE Send(q)
  <2>1. Kind(q) \in DOMAIN FirstStep
      BY WorkloadsAssumption DEF FlowType, Kind, Command, Asked
  <2>2. FirstStep[Kind(q)] # "idle"
      BY <2>1 DEF FirstStep
  <2> QED BY <1>2, <2>2 DEF Send, FlowType
<1>3. CASE Deliver(q) \/ Fail(q)
    BY <1>3 DEF Deliver, Fail, FlowType
<1>4. CASE SoftwareStep(q)
    BY <1>4, SoftwareWays DEF SoftwareStages
<1>5. CASE AdminStep(q)
  <2>1. PICK next \in Elsewhere : MovesTo(q, next)
      BY <1>5, AdminMoves
  <2> QED BY <2>1 DEF MovesTo, Elsewhere, FlowType
<1> QED BY <1>1, <1>2, <1>3, <1>4, <1>5, Turns

\* How sessions come to be: the facts about them stay.
LEMMA MadeStays ==
    ASSUME FlowType, FlowInv, TimedInv, TokenInv, [Next]_vars, TokensGrow,
           \A s \in DOMAIN adminSessions : SessionMade(s),
           NEW s \in DOMAIN adminSessions'
    PROVE  SessionMade(s)'
<1>1. workload' = workload /\ Asked' = Asked /\ \A q \in Asked : Kind(q)' = Kind(q)
    BY StepMoves DEF Asked, Kind, Command
<1>2. ASSUME NEW q \in Asked, Kind(q) = "login", stage[q] # "idle"
      PROVE  /\ stage'[q] # "idle" /\ context[q].at \in Nat /\ context'[q].at \in Nat
             /\ context[q].at <= context'[q].at
  <2>1. Kind(q) \in Timed
      BY <1>2 DEF Timed
  <2>2. stage'[q] # "idle"
      BY <1>2, NeverIdle
  <2> QED BY <1>2, <2>1, <2>2, TimedStays DEF TimedInv, Dated
<1>3. CASE s \in DOMAIN adminSessions
  <2>1. /\ SessionMade(s)
        /\ adminSessions'[s].authTime = adminSessions[s].authTime
        /\ adminSessions'[s].transport = adminSessions[s].transport
        /\ adminSessions'[s].client = adminSessions[s].client
      BY <1>3 DEF TokensGrow, SessionGrows
  <2>2. PICK q : q = s[1]
      OBVIOUS
  <2>3. /\ q \in Asked /\ Kind(q) = "login" /\ stage[q] # "idle"
        /\ adminSessions[s].authTime \in Nat /\ adminSessions[s].authTime <= context[q].at
        /\ adminSessions[s].transport # "bearer" => adminSessions[s].client = None
      BY <2>1, <2>2 DEF SessionMade
  <2>4. /\ stage'[q] # "idle" /\ context[q].at \in Nat /\ context'[q].at \in Nat
        /\ context[q].at <= context'[q].at
      BY <1>2, <2>3
  <2>5. adminSessions'[s].authTime <= context'[q].at
      BY <2>1, <2>3, <2>4
  <2> QED BY <1>1, <2>1, <2>2, <2>3, <2>4, <2>5 DEF SessionMade
<1>4. CASE s \notin DOMAIN adminSessions
  <2>1. PICK r \in Asked :
            /\ s = NewId(r) /\ Kind(r) = "login" /\ AdminStep(r)
            /\ adminSessions'[s].authTime = context[r].at
            /\ adminSessions'[s].transport # "bearer" => adminSessions'[s].client = None
      BY <1>4, SessionsCome
  <2>2. s[1] = r
      BY <2>1 DEF NewId
  <2>3. stage[r] # "idle"
      BY <2>1, StepsBegin
  <2>4. /\ stage'[r] # "idle" /\ context[r].at \in Nat /\ context[r].at <= context'[r].at
      BY <1>2, <2>1, <2>3
  <2> QED BY <1>1, <2>1, <2>2, <2>4 DEF SessionMade
<1> QED BY <1>3, <1>4

\* A request gets its session when it finds it, or renews it.
LEMMA PastMoves ==
    ASSUME FlowType, FlowInv, [Next]_vars, NEW q \in Asked, Past(q)'
    PROVE  \/ /\ Past(q) /\ Keeps(q, "session")
              /\ Kind(q) # "refresh" => Keeps(q, "authTime")
           \/ (FindSessionStep(q) \/ Rotating(q)) /\ stage'[q] # "done"
<1>0. Kind(q)' = Kind(q) /\ Kind(q) \in {"current", "authorize", "refresh"} /\ Kind(q) \in Handled
    BY StepMoves DEF Kind, Command, Past, Handled
<1>1. CASE Told(q) /\ context'[q] = context[q]
    BY <1>0, <1>1 DEF Past, Keeps
<1>2. CASE Same(q)
    BY <1>0, <1>2 DEF Same, Past, Told, Answered, Keeps
<1>3. ASSUME AdminStep(q), stage'[q] # "done", Kind(q) # "refresh", Past(q)'
      PROVE  \/ Past(q) /\ Keeps(q, "session") /\ Keeps(q, "authTime")
             \/ FindSessionStep(q)
  <2>1. <<stage[q], stage'[q]>> \in Ways /\ stage[q] \in RouteOf(Kind(q))
      BY <1>3, RouteStep
  <2>2. stage'[q] \in {"session_version", "session_bindings", "authorize_version", "authorize_bindings",
                       "decide", "answer"}
    <3>1. ~Answered(q)'
      <4>1. ~Answered(q)
          BY <1>3, StepsBegin DEF FlowInv
      <4> QED BY <1>3, <4>1, StepsGo DEF Goes, Answered
    <3> QED BY <1>0, <1>3, <3>1 DEF Past, Told
  <2>3. stage[q] \in {"find_session", "session_version", "session_bindings", "authorize_version",
                      "authorize_bindings", "decide"}
    <3>1. stage[q] \in Guarding \cup {"authorize_version", "authorize_bindings", "decide"}
        BY <1>0, <1>3, <2>1 DEF RouteOf, Route
    <3>2. stage[q] # "session_ended"
        BY <2>1 DEF Ways
    <3> QED BY <3>1, <3>2 DEF Guarding
  <2>4. CASE stage[q] = "find_session"
      BY <1>3, <2>4, StepAt
  <2>5. CASE stage[q] # "find_session"
    <3>1. "session" \notin Writes(stage[q]) /\ "authTime" \notin Writes(stage[q])
        BY <2>3, <2>5 DEF Writes
    <3>2. Keeps(q, "session") /\ Keeps(q, "authTime")
        BY <1>3, <3>1, AdminKeeps
    <3> QED BY <1>0, <1>3, <2>3, <2>5, <3>2 DEF Past
  <2> QED BY <2>4, <2>5
<1>4. ASSUME AdminStep(q), stage'[q] = "answer", Kind(q) = "refresh" PROVE Rotating(q)
  <2>1. <<stage[q], "answer">> \in Ways /\ stage[q] \in RouteOf("refresh")
      BY <1>4, RouteStep
  <2>2. stage[q] = "locked"
      BY <2>1 DEF Ways, RouteOf, Route, Locking
  <2>3. RotateRefreshStep(q) \/ RevokeScopelessStep(q)
      BY <1>4, <2>2, StepAt
  <2>4. ~RevokeScopelessStep(q)
      BY <1>4, GoesOnWith DEF RevokeScopelessStep, OnIdentity, At
  <2>5. /\ RotateRefresh(q, context[q], context[q].at, RenewedCsrf(q))
        /\ Continues(q, "answer", Got(q))
      BY <2>3, <2>4 DEF RotateRefreshStep
  <2>6. \A e : ~Refuses(q, e)
      BY <1>4, <2>5, GoesOnWith, NotRefused
  <2> QED BY <1>4, <2>2, <2>5, <2>6 DEF Rotating, RotateRefresh, GivesUp
<1>5. CASE AdminStep(q) /\ stage'[q] # "done"
  <2>1. CASE Kind(q) # "refresh"
      BY <1>3, <1>5, <2>1
  <2>2. CASE Kind(q) = "refresh"
    <3>1. Told(q)'
        BY <1>0, <2>2 DEF Past
    <3>2. ~(Told(q) /\ context'[q] = context[q]) => stage'[q] = "answer"
        BY <3>1, ToldMoves
    <3> QED BY <1>1, <1>4, <1>5, <2>2, <3>2
  <2> QED BY <2>1, <2>2
<1>6. CASE Told(q)' /\ ~(Told(q) /\ context'[q] = context[q])
  <2>1. (SoftwareStep(q) \/ AdminStep(q)) /\ stage'[q] = "answer"
      BY <1>6, ToldMoves
  <2>2. AdminStep(q)
      BY <1>0, <2>1, RouteStep, HandledAre
  <2> QED BY <1>5, <2>1, <2>2
<1>7. CASE ~Told(q)'
  <2>1. stage'[q] \in {"session_version", "session_bindings", "authorize_version", "authorize_bindings",
                       "decide"}
      BY <1>7 DEF Past
  <2>2. ~Send(q)
    <3>1. Send(q) => stage'[q] \in {"done", FirstStep[Kind(q)]}
        BY DEF Send, FlowType
    <3> QED BY <1>0, <2>1, <3>1 DEF FirstStep
  <2>3. ~Deliver(q) /\ ~Fail(q)
      BY <2>1 DEF Deliver, Fail, FlowType
  <2>4. ~SoftwareStep(q)
      BY <1>0, <2>1, RouteStep, HandledAre
  <2> QED BY <1>2, <1>5, <2>1, <2>2, <2>3, <2>4, Turns
<1> QED BY <1>1, <1>6, <1>7

\* What is served stays served to a session of no ended client.
LEMMA ServesStays ==
    ASSUME FlowType, FlowInv, TimedInv, TokenInv, ServedInv, [Next]_vars, TokensGrow,
           NEW q \in Asked, Past(q)'
    PROVE  Serves(q)'
<1>1. /\ workload' = workload /\ Asked' = Asked
      /\ Command(q)' = Command(q) /\ \A x : Kind(x)' = Kind(x)
    BY StepMoves DEF Asked, Kind, Command
<1>2. ASSUME stage[q] # "idle", NEW x \in Command(q).after \cap Asked, Kind(x) \in Enders
      PROVE  Told(x) /\ context'[x] = context[x]
    BY <1>2, AnsweredStays DEF FlowInv, Told, Same
<1>3. ASSUME NEW s \in DOMAIN adminSessions
      PROVE  /\ s \in DOMAIN adminSessions'
             /\ adminSessions'[s].client = adminSessions[s].client
             /\ adminSessions'[s].credential = adminSessions[s].credential
             /\ adminSessions'[s].authTime = adminSessions[s].authTime
    BY DEF TokensGrow, SessionGrows
<1>4. ASSUME NEW s \in DOMAIN adminSessions, stage[q] # "idle",
             "session" \in DOMAIN context'[q], context'[q].session = s,
             \A x \in Command(q).after \cap Asked : Kind(x) \in Enders => NotCut(s, context[x]),
             Kind(q) \in {"current", "authorize"} =>
                "authTime" \in DOMAIN context'[q] /\ context'[q].authTime = adminSessions[s].authTime
      PROVE  Serves(q)'
  <2>1. s \in DOMAIN adminSessions' /\ adminSessions'[s].authTime = adminSessions[s].authTime
      BY <1>3
  <2>2. ASSUME NEW x \in Command(q).after \cap Asked, Kind(x) \in Enders
        PROVE  ~(/\ adminSessions'[s].client = context'[x].client
                 /\ context'[x].credential \in {None, adminSessions'[s].credential})
    <3>1. NotCut(s, context[x]) /\ context'[x] = context[x]
        BY <1>2, <1>4, <2>2
    <3> QED BY <1>3, <3>1 DEF NotCut
  <2> QED BY <1>1, <1>4, <2>1, <2>2 DEF Serves, NotCut
<1>5. CASE /\ Past(q) /\ Keeps(q, "session")
           /\ Kind(q) # "refresh" => Keeps(q, "authTime")
  <2>1. Serves(q) /\ stage[q] # "idle"
      BY <1>5 DEF ServedInv, Past, Told, FlowInv
  <2>2. PICK s : s = context[q].session
      OBVIOUS
  <2>3. s \in DOMAIN adminSessions
      BY <2>1, <2>2 DEF Serves
  <2>4. \A x \in Command(q).after \cap Asked : Kind(x) \in Enders => NotCut(s, context[x])
      BY <2>1, <2>2 DEF Serves
  <2>5. "session" \in DOMAIN context'[q] /\ context'[q].session = s
      BY <1>5, <2>1, <2>2 DEF Serves, Keeps
  <2>6. Kind(q) \in {"current", "authorize"} =>
           "authTime" \in DOMAIN context'[q] /\ context'[q].authTime = adminSessions[s].authTime
      BY <1>5, <2>1, <2>2 DEF Serves, Keeps
  <2> QED BY <1>4, <2>1, <2>3, <2>4, <2>5, <2>6
<1>6. ASSUME NEW s \in DOMAIN adminSessions, stage[q] # "idle",
             "session" \in DOMAIN context'[q], context'[q].session = s,
             \/ adminSessions[s].transport # "bearer"
             \/ CredentialInUse(adminSessions[s].client, adminSessions[s].credential, context[q].at),
             Kind(q) \in {"current", "authorize"} =>
                "authTime" \in DOMAIN context'[q] /\ context'[q].authTime = adminSessions[s].authTime
      PROVE  Serves(q)'
  <2>1. SessionMade(s) /\ ClientsSound
      BY DEF ServedInv, TokenInv
  <2>2. ASSUME NEW x \in Command(q).after \cap Asked, Kind(x) \in Enders PROVE NotCut(s, context[x])
    <3>1. PICK c : c = context[x]
        OBVIOUS
    <3>2. Ended(c)
        BY <1>2, <1>6, <2>2, <3>1 DEF TokenInv
    <3> QED BY <1>6, <2>1, <3>1, <3>2, EndedIsNotServed
  <2> QED BY <1>4, <1>6, <2>2
<1>7. CASE (FindSessionStep(q) \/ Rotating(q)) /\ stage'[q] # "done"
  <2>1. PICK s : s = context'[q].session
      OBVIOUS
  <2>2. CASE FindSessionStep(q)
    <3>1. /\ "session" \in DOMAIN context'[q] /\ "authTime" \in DOMAIN context'[q]
          /\ s \in DOMAIN adminSessions
          /\ context'[q].authTime = adminSessions[s].authTime
          /\ \/ adminSessions[s].transport # "bearer"
             \/ CredentialInUse(adminSessions[s].client, adminSessions[s].credential, context[q].at)
        BY <1>7, <2>1, <2>2, FindsSession
    <3>2. stage[q] # "idle"
        BY <2>2 DEF FindSessionStep, OnIdentity, At
    <3> QED BY <1>6, <2>1, <3>1, <3>2
  <2>3. CASE Rotating(q)
    <3>1. /\ "session" \in DOMAIN context'[q]
          /\ s \in DOMAIN adminSessions
          /\ \/ adminSessions[s].transport # "bearer"
             \/ CredentialInUse(adminSessions[s].client, adminSessions[s].credential, context[q].at)
        BY <1>7, <2>1, <2>3, RenewsSession
    <3>2. stage[q] # "idle" /\ Kind(q) = "refresh"
        BY <2>3 DEF Rotating
    <3> QED BY <1>6, <2>1, <3>1, <3>2
  <2> QED BY <1>7, <2>2, <2>3
<1> QED BY <1>5, <1>7, PastMoves

\* A decision is on a recent login when it is made, and is not made again.
LEMMA DecidedStays ==
    ASSUME FlowType, FlowInv, TimedInv, HasInv, TokenInv, ServedInv, [Next]_vars,
           NEW q \in Asked, Kind(q) = "authorize", Told(q)'
    PROVE  Decided(context'[q])
<1>0. Kind(q) \in Handled
    BY DEF Handled
<1>1. CASE Told(q) /\ context'[q] = context[q]
    BY <1>1 DEF ServedInv
<1>2. CASE (SoftwareStep(q) \/ AdminStep(q)) /\ stage'[q] = "answer"
  <2>1. AdminStep(q) /\ <<stage[q], "answer">> \in Ways /\ stage[q] \in RouteOf("authorize")
      BY <1>0, <1>2, RouteStep, HandledAre
  <2>2. stage[q] \in {"session_bindings", "decide"}
      BY <2>1 DEF Ways, RouteOf, Route, Guarding
  <2>3. stage[q] # "session_bindings"
      BY <1>2, <2>1, AdminWays
  <2>4. DecideStep(q)
      BY <1>2, <2>1, <2>2, <2>3, StepAt
  <2>5. \A e : ~Refuses(q, e)
      BY <1>2, <2>4, GoesOnWith, NotRefused DEF DecideStep, At
  <2>6. Decision(q) = Accepted /\ Returns(q, [decidedAt |-> now]) /\ Continues(q, "answer", Got(q))
      BY <2>4, <2>5 DEF DecideStep
  <2>7. Got(q) = [decidedAt |-> now]
      BY <2>6, AnsweredWith
  <2>8. context'[q] = Joined(Got(q), context[q])
      BY <1>2, <2>6, GoesOnWith
  <2>9. "decidedAt" \in DOMAIN context'[q] /\ context'[q].decidedAt = now
      BY <2>7, <2>8 DEF Joined
  <2>10. stage[q] = "decide"
      BY <2>2, <2>3
  <2>11. Serves(q) /\ SessionMade(context[q].session)
      BY <2>10 DEF ServedInv, Past, Serves
  <2>12. context[q].authTime \in Nat /\ "authTime" \in DOMAIN context[q]
      BY <2>11 DEF Serves, SessionMade
  <2>13. "highRisk" \in DOMAIN context[q]
    <3>1. Fields(Kind(q)) = {"highRisk"}
        BY DEF Fields, Enders
    <3> QED BY <1>0, <2>10, <3>1 DEF HasInv
  <2>14. context'[q].highRisk = context[q].highRisk /\ context'[q].authTime = context[q].authTime
      BY <2>7, <2>8, <2>12, <2>13 DEF Joined
  <2>15. context[q].highRisk => ~ReauthenticationRequired(q)
      BY <2>6 DEF Decision, Accepted
  <2>16. now \in Nat
      BY DEF TimedInv
  <2>17. context[q].highRisk => now - context[q].authTime <= ReauthenticationWindow
      BY <2>12, <2>15, <2>16, WindowAssumption DEF ReauthenticationRequired
  <2> QED BY <2>9, <2>14, <2>16, <2>17 DEF Decided
<1> QED BY <1>1, <1>2, ToldMoves

LEMMA ServedStep ==
    FlowType /\ FlowInv /\ TimedInv /\ HasInv /\ TokenInv /\ ServedInv /\ [Next]_vars => ServedInv'
<1> SUFFICES ASSUME FlowType, FlowInv, TimedInv, HasInv, TokenInv, ServedInv, [Next]_vars
             PROVE  ServedInv'
    OBVIOUS
<1>1. workload' = workload /\ Asked' = Asked /\ \A q \in Asked : Kind(q)' = Kind(q)
    BY StepMoves DEF Asked, Kind, Command
<1>2. TokensGrow
    BY TokensStaySound
<1>3. \A s \in DOMAIN adminSessions' : SessionMade(s)'
    BY <1>2, MadeStays DEF ServedInv
<1>4. \A q \in Asked : Past(q)' => Serves(q)'
    BY <1>2, ServesStays
<1>5. \A q \in Asked : Kind(q) = "authorize" /\ Told(q)' => Decided(context'[q])
    BY DecidedStays
<1> QED BY <1>1, <1>3, <1>4, <1>5 DEF ServedInv, Decided

\* Sessions are logins', and what is served is served to one of no ended client.
THEOREM ServingCorrect == Spec => []ServedInv
<1>1. Init => ServedInv
  <2> SUFFICES ASSUME Init PROVE ServedInv
      OBVIOUS
  <2>1. \A q \in Asked : stage[q] = "idle" /\ ~Told(q)
      BY DEF Init, Asked, Told, Answered, NoResult
  <2>2. DOMAIN adminSessions = {}
      BY DEF Init, IdentityInit
  <2> QED BY <2>1, <2>2 DEF ServedInv, Past
<1> QED BY <1>1, ServedStep, FlowCorrect, TokensCorrect, PTL DEF Spec

\* A high-risk operation is let through only shortly after its administrator gave the
\* password, whenever the session was renewed.
THEOREM HighRiskIsRecent == Spec => []HighRiskNeedsRecentLogin
<1>1. FlowType /\ FlowInv /\ TimedInv /\ ServedInv => HighRiskNeedsRecentLogin
  <2> SUFFICES ASSUME FlowType, FlowInv, TimedInv, ServedInv, NEW r \in Asked, Kind(r) = "authorize",
                      Answered(r), context[r].highRisk
               PROVE  outcome[r].value.decidedAt - context[outcome[r].value.session[1]].at
                         <= ReauthenticationWindow
      BY DEF HighRiskNeedsRecentLogin
  <2>1. outcome[r].value = context[r]
      BY DEF FlowInv, Route
  <2>2. Serves(r) /\ Decided(context[r])
      BY DEF ServedInv, Past, Told
  <2>3. PICK s, q : s = context[r].session /\ q = s[1]
      OBVIOUS
  <2>4. SessionMade(s) /\ context[r].authTime = adminSessions[s].authTime
      BY <2>2, <2>3 DEF Serves, ServedInv
  <2>5. /\ q \in Asked /\ Kind(q) = "login" /\ stage[q] # "idle"
        /\ context[r].authTime \in Nat /\ context[r].authTime <= context[q].at
      BY <2>3, <2>4 DEF SessionMade
  <2>6. context[q].at \in Nat
      BY <2>5 DEF TimedInv, Timed, Dated
  <2>7. context[r].decidedAt \in Nat /\ context[r].decidedAt - context[r].authTime <= ReauthenticationWindow
      BY <2>2 DEF Decided
  <2>8. context[r].decidedAt - context[q].at <= ReauthenticationWindow
      BY <2>5, <2>6, <2>7, WindowAssumption
  <2> QED BY <2>1, <2>3, <2>8
<1> QED BY <1>1, FlowCorrect, TokensCorrect, ServingCorrect, PTL

\* After a client or a credential was ended nothing is served to a session of it.
THEOREM EndedClientsAreCutOff == Spec => []EndedClientCutOff
<1>1. FlowType /\ FlowInv /\ ServedInv => EndedClientCutOff
  <2> SUFFICES ASSUME FlowType, FlowInv, ServedInv, NEW x \in Asked, NEW q \in Asked,
                      Kind(x) \in Enders, x \in Command(q).after,
                      Kind(q) \in {"current", "authorize", "refresh"}, Answered(q)
               PROVE  NotCut(outcome[q].value.session, context[x])
      BY DEF EndedClientCutOff, Enders, NotCut
  <2>1. outcome[q].value = context[q]
      BY DEF FlowInv, Route
  <2>2. Serves(q)
      BY DEF ServedInv, Past, Told
  <2> QED BY <2>1, <2>2 DEF Serves
<1> QED BY <1>1, FlowCorrect, TokensCorrect, ServingCorrect, PTL

-----------------------------------------------------------------------------
(* Logouts.                                                                *)

\* The tokens that a request has: they are known, or none.
Tokens == {"access", "refresh"}
Holds(q, f) == f \in DOMAIN context[q] /\ context[q][f] \in DOMAIN adminTokens
Shows(q, f) == f \in DOMAIN context[q] /\ context[q][f] \in {None} \cup DOMAIN adminTokens

IssuedInv ==
    /\ \A q \in Asked : Kind(q) \in {"login", "refresh"} /\ (Told(q) \/ stage[q] = "clear_failures") =>
          Holds(q, "access") /\ Holds(q, "refresh")
    /\ \A q \in Asked : stage[q] # "idle" =>
          /\ Kind(q) = "logout" => Shows(q, "access") /\ Shows(q, "refresh")
          /\ Kind(q) = "refresh" => Shows(q, "refresh")

\* Nothing is asked before what it builds on is answered.
LEMMA BuildsOnAnswers ==
    ASSUME FlowType, FlowInv, NEW q \in Asked, stage[q] # "idle" \/ Send(q)
    PROVE  \A f \in DOMAIN Command(q).uses :
              Command(q).uses[f] \in Asked /\ Answered(Command(q).uses[f])
<1>1. \A f \in DOMAIN Command(q).uses :
         Command(q).uses[f] \in Command(q).after /\ Command(q).uses[f] \in Asked
    BY WorkloadsAssumption DEF FlowType, Command, Asked
<1>2. stage[q] # "idle" => \A x \in Command(q).after \cap Asked : Answered(x)
    BY DEF FlowInv
<1>3. stage[q] = "idle" /\ Send(q) => \A x \in Command(q).after : Answered(x)
    BY DEF Send
<1> QED BY <1>1, <1>2, <1>3

\* A token that a command names was issued, or is none.
LEMMA CommandShows ==
    ASSUME FlowType, FlowInv, IssuedInv, NEW q \in Asked, Send(q),
           NEW f \in Tokens, f \in Fields(Kind(q))
    PROVE  /\ f \in DOMAIN Commanded(q)
           /\ Commanded(q)[f] \in {None} \cup DOMAIN adminTokens
<1>0. Kind(q) \in {"refresh", "logout"}
    BY DEF Fields, Enders, Tokens
<1>1. /\ f \in DOMAIN Command(q).with \cup DOMAIN Command(q).uses
      /\ IF f \in DOMAIN Command(q).uses
         THEN Kind(Command(q).uses[f]) \in {"login", "refresh"} ELSE Command(q).with[f] = None
  <2>1. f \in DOMAIN Command(q).with \cup DOMAIN Command(q).uses
      BY <1>0, WorkloadsAssumption DEF FlowType, Kind, Command, Asked, Fields, Enders
  <2> QED BY <2>1, WorkloadsAssumption DEF FlowType, Kind, Command, Asked, Tokens
<1>2. CASE f \in DOMAIN Command(q).uses
  <2>1. PICK x : x = Command(q).uses[f]
      OBVIOUS
  <2>2. x \in Asked /\ Answered(x) /\ Kind(x) \in {"login", "refresh"}
      BY <1>1, <1>2, <2>1, BuildsOnAnswers
  <2>3. outcome[x].value = context[x] /\ Holds(x, f)
      BY <2>2 DEF FlowInv, Route, IssuedInv, Told, Tokens
  <2>4. f \in DOMAIN Commanded(q) /\ Commanded(q)[f] = outcome[x].value[f]
      BY <1>2, <2>1 DEF Commanded, Joined
  <2> QED BY <2>3, <2>4 DEF Holds
<1>3. CASE f \notin DOMAIN Command(q).uses
    BY <1>1, <1>3 DEF Commanded, Joined
<1> QED BY <1>2, <1>3

LEMMA HeldOn ==
    ASSUME TokensGrow, NEW q, NEW f, Keeps(q, f)
    PROVE  (Holds(q, f) => Holds(q, f)') /\ (Shows(q, f) => Shows(q, f)')
BY DEF TokensGrow, TokenGrows, Keeps, Holds, Shows

\* A login has the tokens that it made.
LEMMA LoginHolds ==
    ASSUME FlowType, NEW q \in Asked, CreateAdminSessionStep(q), stage'[q] # "done"
    PROVE  Holds(q, "access")' /\ Holds(q, "refresh")'
<1>1. PICK c, s, csrf :
          /\ c = context[q]
          /\ Returns(q, Issued(q, s, csrf))
          /\ adminTokens' = Joined(adminTokens, TokenPair(q, s, 1, c.at + AccessTTL, c.at + RefreshTTL))
    BY DEF CreateAdminSessionStep, CreateAdminSession
<1>2. context'[q] = Joined(Got(q), context[q])
    BY GoesOnWith DEF CreateAdminSessionStep
<1>3. Got(q) = Issued(q, s, csrf)
    BY <1>1, AnsweredWith
<1>4. /\ "access" \in DOMAIN context'[q] /\ context'[q].access = AccessToken(q)
      /\ "refresh" \in DOMAIN context'[q] /\ context'[q].refresh = RefreshToken(q)
    BY <1>2, <1>3 DEF Joined, Issued
<1>5. {AccessToken(q), RefreshToken(q)} \subseteq DOMAIN adminTokens'
    BY <1>1 DEF Joined, TokenPair
<1> QED BY <1>4, <1>5 DEF Holds

\* A refresh has the tokens that it made.
LEMMA RefreshHolds ==
    ASSUME FlowType, TokenInv, NEW q \in Asked, Rotating(q), stage'[q] # "done"
    PROVE  Holds(q, "access")' /\ Holds(q, "refresh")'
<1>1. /\ {"session", "access", "refresh"} \subseteq DOMAIN context'[q]
      /\ context'[q].access = AccessToken(q) /\ context'[q].refresh = RefreshToken(q)
    BY RenewsSession
<1>2. PICK f, s, n, a, b : adminTokens' = Joined(f, TokenPair(q, s, n, a, b))
    BY DEF Rotating, RotatesTokens
<1>3. {AccessToken(q), RefreshToken(q)} \subseteq DOMAIN adminTokens'
    BY <1>2 DEF Joined, TokenPair
<1> QED BY <1>1, <1>3 DEF Holds

\* The answer of a refresh is that of its rotation.
LEMMA RefreshIsTold ==
    ASSUME FlowType, FlowInv, [Next]_vars, NEW q \in Asked, Kind(q) = "refresh", Told(q)'
    PROVE  \/ Told(q) /\ context'[q] = context[q]
           \/ Rotating(q) /\ stage'[q] = "answer"
<1>1. CASE (SoftwareStep(q) \/ AdminStep(q)) /\ stage'[q] = "answer"
  <2>1. ~Past(q)
    <3>1. stage[q] \notin {"idle", "done", "answer"}
        BY <1>1, StepsBegin
    <3> QED BY <3>1 DEF Past, Told, FlowInv
  <2>2. Past(q)'
      BY StepMoves DEF Past, Kind, Command
  <2>3. ~FindSessionStep(q)
      BY DEF FindSessionStep, OnIdentity, At, FlowInv, OnRoute, RouteOf, Route, Locking
  <2> QED BY <1>1, <2>1, <2>2, <2>3, PastMoves
<1> QED BY <1>1, ToldMoves

LEMMA IssuedStep ==
    FlowType /\ FlowInv /\ TimedInv /\ HasInv /\ TokenInv /\ IssuedInv /\ [Next]_vars => IssuedInv'
<1> SUFFICES ASSUME FlowType, FlowInv, TimedInv, HasInv, TokenInv, IssuedInv, [Next]_vars
             PROVE  IssuedInv'
    OBVIOUS
<1>0. workload' = workload /\ Asked' = Asked /\ \A q \in Asked : Kind(q)' = Kind(q)
    BY StepMoves DEF Asked, Kind, Command
<1>1. TokensGrow
    BY TokensStaySound
<1>2. ASSUME NEW q, context'[q] = context[q] PROVE \A f : Keeps(q, f)
    BY <1>2 DEF Keeps
<1>3. ASSUME NEW q \in Asked, Kind(q) = "refresh", Told(q)'
      PROVE  Holds(q, "access")' /\ Holds(q, "refresh")'
  <2>1. CASE Told(q) /\ context'[q] = context[q]
      BY <1>1, <1>2, <1>3, <2>1, HeldOn DEF IssuedInv
  <2>2. CASE Rotating(q) /\ stage'[q] = "answer"
      BY <2>2, RefreshHolds
  <2> QED BY <1>3, <2>1, <2>2, RefreshIsTold
<1>4. ASSUME NEW q \in Asked, Kind(q) = "login", Told(q)' \/ stage'[q] = "clear_failures"
      PROVE  Holds(q, "access")' /\ Holds(q, "refresh")'
  <2>0. Kind(q) \in Handled
      BY <1>4 DEF Handled
  <2>1. CASE (Told(q) \/ stage[q] = "clear_failures") /\ Keeps(q, "access") /\ Keeps(q, "refresh")
      BY <1>1, <1>4, <2>1, HeldOn DEF IssuedInv
  <2>2. CASE Told(q) /\ context'[q] = context[q]
      BY <1>2, <2>1, <2>2
  <2>3. CASE Same(q)
      BY <1>2, <1>4, <2>1, <2>3 DEF Same, Told, Answered
  <2>4. CASE AdminStep(q) /\ stage'[q] \in {"answer", "clear_failures"}
    <3>1. <<stage[q], stage'[q]>> \in Ways /\ stage[q] \in RouteOf("login")
        BY <1>4, <2>4, RouteStep
    <3>2. stage[q] \in {"create_admin_session", "clear_failures"}
        BY <2>4, <3>1 DEF Ways, RouteOf, Route
    <3>3. CASE stage[q] = "create_admin_session"
        BY <2>4, <3>3, StepAt, LoginHolds
    <3>4. CASE stage[q] = "clear_failures"
      <4>1. "access" \notin Writes(stage[q]) /\ "refresh" \notin Writes(stage[q])
          BY <3>4 DEF Writes
      <4> QED BY <2>1, <2>4, <3>4, <4>1, AdminKeeps
    <3> QED BY <3>2, <3>3, <3>4
  <2>5. CASE Told(q)' /\ ~(Told(q) /\ context'[q] = context[q])
    <3>1. (SoftwareStep(q) \/ AdminStep(q)) /\ stage'[q] = "answer"
        BY <2>5, ToldMoves
    <3> QED BY <2>0, <2>4, <3>1, RouteStep, HandledAre
  <2>6. CASE stage'[q] = "clear_failures"
    <3>1. ~Send(q)
      <4>1. Send(q) => stage'[q] \in {"done", FirstStep[Kind(q)]}
          BY DEF Send, FlowType
      <4> QED BY <1>4, <2>6, <4>1 DEF FirstStep
    <3>2. ~Deliver(q) /\ ~Fail(q)
        BY <2>6 DEF Deliver, Fail, FlowType
    <3>3. ~SoftwareStep(q)
        BY <2>0, <2>6, RouteStep, HandledAre
    <3> QED BY <2>3, <2>4, <2>6, <3>1, <3>2, <3>3, Turns
  <2> QED BY <1>4, <2>2, <2>5, <2>6
<1>5. ASSUME NEW q \in Asked, NEW f \in Tokens, f \in Fields(Kind(q)), Kind(q) \in {"logout", "refresh"},
             stage'[q] # "idle"
      PROVE  Shows(q, f)'
  <2>0. Kind(q) \in Handled /\ Kind(q) \in Timed /\ (Kind(q) = "refresh" => f = "refresh")
    <3>1. Kind(q) = "refresh" => Fields(Kind(q)) = {"refresh", "transport"}
        BY DEF Fields, Enders
    <3> QED BY <1>5, <3>1 DEF Handled, Timed, Tokens
  <2>1. CASE Send(q)
    <3>1. /\ f \in DOMAIN Commanded(q)
          /\ Commanded(q)[f] \in {None} \cup DOMAIN adminTokens
        BY <1>5, <2>1, CommandShows
    <3>2. context'[q] = Joined([at |-> now], Commanded(q)) /\ UNCHANGED adminTokens
        BY <2>0, <2>1, SentAs, PreparedIs DEF identityVars, identityRows
    <3>3. f # "at"
        BY DEF Tokens
    <3>4. f \in DOMAIN context'[q] /\ context'[q][f] = Commanded(q)[f]
        BY <3>1, <3>2, <3>3 DEF Joined
    <3> QED BY <3>1, <3>2, <3>4 DEF Shows
  <2>2. ASSUME ~Send(q), Keeps(q, f) PROVE Shows(q, f)'
    <3>1. stage[q] # "idle"
        BY <1>5, <2>2, HasStays
    <3>2. Shows(q, f)
        BY <1>5, <2>0, <3>1 DEF IssuedInv, Tokens
    <3> QED BY <1>1, <2>2, <3>2, HeldOn
  <2>3. CASE ~Send(q) /\ (stage[q] \notin {"locked", "create_admin_session"} \/ stage'[q] = "done")
    <3>1. f \notin Writes(stage[q]) \/ stage'[q] = "done"
        BY <2>3 DEF Writes, Tokens
    <3> QED BY <2>0, <2>2, <2>3, <3>1, Keeping
  <2>4. stage[q] # "create_admin_session"
      BY <1>5 DEF FlowInv, OnRoute, RouteOf, Route, Locking
  <2>5. CASE ~Send(q) /\ stage[q] = "locked" /\ stage'[q] # "done"
    <3>1. CASE Same(q)
        BY <1>2, <2>2, <2>5, <3>1 DEF Same
    <3>2. ~Deliver(q) /\ ~Fail(q)
        BY <2>5 DEF Deliver, Fail, FlowType, At
    <3>3. ~SoftwareStep(q)
        BY <2>0, <2>5, RouteStep, HandledAre
    <3>4. CASE AdminStep(q)
      <4>1. \/ Kind(q) = "logout" /\ LogoutStep(q)
            \/ Kind(q) = "refresh" /\ (RotateRefreshStep(q) \/ RevokeScopelessStep(q))
          BY <2>5, <3>4, StepAt
      <4>2. ASSUME LogoutStep(q) \/ RevokeScopelessStep(q) PROVE Keeps(q, f)
        <5>1. context'[q] = Joined(<< >>, context[q])
            BY <2>5, <4>2, GoesOnWith DEF LogoutStep, RevokeScopelessStep
        <5> QED BY <5>1, NothingKept DEF Keeps, Joined
      <4>3. CASE Kind(q) = "refresh" /\ RotateRefreshStep(q)
        <5>1. stage'[q] = "answer"
            BY <2>5, <4>3, GoesOnWith DEF RotateRefreshStep
        <5>2. Told(q)'
            BY <5>1 DEF Told
        <5> QED BY <1>3, <2>0, <4>3, <5>2 DEF Holds, Shows
      <4> QED BY <2>2, <2>5, <4>1, <4>2, <4>3
    <3> QED BY <2>5, <3>1, <3>2, <3>3, <3>4, Turns
  <2> QED BY <2>1, <2>3, <2>4, <2>5
<1>6. Fields("logout") = {"access", "refresh", "transport"} /\ Fields("refresh") = {"refresh", "transport"}
    BY DEF Fields, Enders
<1>7. \A q \in Asked : stage'[q] # "idle" =>
         /\ Kind(q) = "logout" => Shows(q, "access")' /\ Shows(q, "refresh")'
         /\ Kind(q) = "refresh" => Shows(q, "refresh")'
    BY <1>5, <1>6 DEF Tokens
<1>8. \A q \in Asked : Kind(q) \in {"login", "refresh"} /\ (Told(q)' \/ stage'[q] = "clear_failures") =>
         Holds(q, "access")' /\ Holds(q, "refresh")'
  <2> SUFFICES ASSUME NEW q \in Asked, Kind(q) \in {"login", "refresh"},
                      Told(q)' \/ stage'[q] = "clear_failures"
               PROVE  Holds(q, "access")' /\ Holds(q, "refresh")'
      OBVIOUS
  <2>1. CASE Kind(q) = "login"
      BY <1>4, <2>1
  <2>2. CASE Kind(q) = "refresh"
    <3>1. stage'[q] \in {"idle", "done", "answer"} \cup RouteOf("refresh")
        BY <1>0, <2>2, FlowStep DEF FlowInv, OnRoute
    <3>2. Told(q)'
        BY <3>1 DEF RouteOf, Route, Locking
    <3> QED BY <1>3, <2>2, <3>2
  <2> QED BY <2>1, <2>2
<1> QED BY <1>0, <1>7, <1>8 DEF IssuedInv

\* The token is of no use any more: revoked, used up or too old, or its session is.
Gone(kind, t) ==
    /\ t \in DOMAIN adminTokens
    /\ adminTokens[t].type = kind
    /\ \/ SessionOf(t).revoked \/ adminTokens[t].revoked
       \/ adminTokens[t].expires <= now \/ SessionOf(t).absoluteExpires <= now
       \/ kind = "access" /\ SessionOf(t).accessExpires <= now
       \/ kind = "refresh" /\ (SessionOf(t).refreshExpires <= now \/ adminTokens[t].consumed)

LogoutInv ==
    \A q \in Asked : Kind(q) = "logout" /\ Told(q) /\ context[q].transport = "cookie" =>
        \A f \in Tokens : context[q][f] # None => Gone(f, context[q][f])

LEMMA GoneStays ==
    ASSUME FlowType, TimedInv, TokenInv, [Next]_vars, TokensGrow, NEW f \in Tokens, NEW t, Gone(f, t)
    PROVE  Gone(f, t)'
<1>1. PICK s : s = adminTokens[t].session
    OBVIOUS
<1>2. /\ t \in DOMAIN adminTokens /\ s \in DOMAIN adminSessions
      /\ TokenTyped(adminTokens[t]) /\ SessionTyped(adminSessions[s])
    BY <1>1 DEF Gone, TokenInv, Sound
<1>3. /\ t \in DOMAIN adminTokens'
      /\ adminTokens'[t].session = s
      /\ adminTokens'[t].type = adminTokens[t].type
      /\ adminTokens'[t].expires = adminTokens[t].expires
      /\ adminTokens[t].revoked => adminTokens'[t].revoked
      /\ adminTokens[t].consumed => adminTokens'[t].consumed
      /\ adminTokens[t].type = "access" /\ ~adminTokens'[t].revoked =>
            adminSessions'[s].accessExpires = adminSessions[s].accessExpires
      /\ adminTokens[t].type = "refresh" /\ ~adminTokens'[t].revoked /\ ~adminTokens'[t].consumed =>
            adminSessions'[s].refreshExpires = adminSessions[s].refreshExpires
    BY <1>1, <1>2 DEF TokensGrow, TokenGrows, Usable
<1>4. /\ adminSessions'[s].absoluteExpires = adminSessions[s].absoluteExpires
      /\ adminSessions[s].revoked => adminSessions'[s].revoked
    BY <1>2 DEF TokensGrow, SessionGrows
<1>5. \A n \in Nat : n <= now => n <= now'
    BY ClockStep DEF TimedInv
<1>6. /\ adminTokens[t].expires \in Nat
      /\ {adminSessions[s].accessExpires, adminSessions[s].refreshExpires,
          adminSessions[s].absoluteExpires} \subseteq Nat
    BY <1>2 DEF TokenTyped, SessionTyped
<1>7. adminTokens[t].type = f
    BY DEF Gone
<1>8. CASE \/ adminSessions[s].revoked \/ adminTokens[t].revoked
           \/ adminTokens[t].expires <= now \/ adminSessions[s].absoluteExpires <= now
    BY <1>3, <1>4, <1>5, <1>6, <1>7, <1>8 DEF Gone, SessionOf
<1>9. CASE f = "access" /\ adminSessions[s].accessExpires <= now
    BY <1>3, <1>5, <1>6, <1>7, <1>9 DEF Gone, SessionOf
<1>10. CASE f = "refresh" /\ (adminSessions[s].refreshExpires <= now \/ adminTokens[t].consumed)
    BY <1>3, <1>5, <1>6, <1>7, <1>10 DEF Gone, SessionOf
<1> QED BY <1>1, <1>8, <1>9, <1>10 DEF Gone, SessionOf

\* What a logout that succeeds does to the tokens that it was shown.
LEMMA LogoutEnds ==
    ASSUME FlowType, TimedInv, HasInv, TokenInv, IssuedInv, NEW q \in Asked, Kind(q) = "logout",
           LogoutStep(q), stage'[q] # "done", context[q].transport = "cookie",
           NEW f \in Tokens, NEW x, x = context[q][f], x # None
    PROVE  Gone(f, x)'
<1> DEFINE c == context[q]
           t == context[q][f]
<1>0. stage[q] = "locked" /\ UNCHANGED now
    BY DEF LogoutStep, OnIdentity, At, Continues
<1>1. /\ RevokeCookieSession(q, c, c.at)
      /\ \A e : ~Refuses(q, e)
    BY GoesOnWith, NotRefused DEF LogoutStep
<1>2. /\ LogoutRefusal(c, c.at) = Accepted
      /\ f \in Requested(c)
    BY <1>1 DEF RevokeCookieSession, GivesUp, Requested, Tokens
<1>3. t \in DOMAIN adminTokens
    BY <1>0 DEF IssuedInv, Shows, Tokens
<1>4. Mistaken(c) = {} /\ ~Unrelated(c)
    BY <1>2 DEF LogoutRefusal, Accepted
<1>5. adminTokens[t].type = f
    BY <1>2, <1>3, <1>4 DEF Mistaken, Known
<1>6. PICK s : s = adminTokens[x].session
    OBVIOUS
<1>7. /\ s \in DOMAIN adminSessions /\ TokenTyped(adminTokens[x]) /\ SessionTyped(adminSessions[s])
      /\ context[q].at \in Nat /\ context[q].at <= now
    BY <1>0, <1>3, <1>6 DEF TokenInv, Sound, TimedInv, Timed, Dated
<1>8. CASE ActiveAccess(c, c.at) \/ ActiveRefresh(c, c.at)
  <2>1. PICK u : /\ u = IF ActiveAccess(c, c.at) THEN c.access ELSE c.refresh
                 /\ RevokeFamily(q, adminTokens[u].session, "session_revoked", c.at)
      BY <1>1, <1>2, <1>8 DEF RevokeCookieSession, Accepted
  <2>2. adminTokens[u].session = s
    <3>1. "access" \in Requested(c) /\ "refresh" \in Requested(c) =>
             adminTokens[c.access].session = adminTokens[c.refresh].session
        BY <1>4 DEF Unrelated, Requested
    <3>2. CASE ActiveAccess(c, c.at)
        BY <1>2, <1>6, <2>1, <3>1, <3>2 DEF ActiveAccess, Tokens
    <3>3. CASE ~ActiveAccess(c, c.at)
        BY <1>2, <1>6, <1>8, <2>1, <3>1, <3>3 DEF ActiveRefresh, Tokens
    <3> QED BY <3>2, <3>3
  <2>3. adminSessions' = RevokedSessions({s}) /\ adminTokens' = RevokedTokens(TokensOf({s}))
      BY <2>1, <2>2 DEF RevokeFamily
  <2>4. adminSessions'[s].revoked
      BY <1>7, <2>3 DEF RevokedSessions, SessionTyped
  <2>5. /\ x \in DOMAIN adminTokens' /\ adminTokens'[x].type = f /\ adminTokens'[x].session = s
      BY <1>3, <1>5, <1>6, <1>7, <2>3 DEF RevokedTokens, TokenTyped
  <2> QED BY <1>6, <2>4, <2>5 DEF Gone, SessionOf
<1>9. CASE ~ActiveAccess(c, c.at) /\ ~ActiveRefresh(c, c.at)
  <2>1. UNCHANGED identityRows
      BY <1>1, <1>2, <1>9 DEF RevokeCookieSession, Accepted
  <2>2. adminSessions' = adminSessions /\ adminTokens' = adminTokens
      BY <2>1 DEF identityRows
  <2>3. /\ adminTokens[x].expires \in Nat
        /\ adminSessions[s].accessExpires \in Nat /\ adminSessions[s].refreshExpires \in Nat
        /\ adminSessions[s].absoluteExpires \in Nat
      BY <1>7 DEF TokenTyped, SessionTyped
  <2>4. \A n \in Nat : ~(n > context[q].at) => n <= now
      BY <1>0, <1>7 DEF TimedInv
  <2>5. CASE f = "access"
    <3>1. ~(ActiveToken(x, context[q].at) /\ adminSessions[s].accessExpires > context[q].at)
        BY <1>2, <1>3, <1>6, <1>9, <2>5 DEF ActiveAccess, Known, SessionOf
    <3>2. \/ adminSessions[s].revoked \/ adminTokens[x].revoked
          \/ adminTokens[x].expires <= now \/ adminSessions[s].absoluteExpires <= now
          \/ adminSessions[s].accessExpires <= now
        BY <1>6, <2>3, <2>4, <3>1 DEF ActiveToken, SessionOf
    <3>3. Gone(f, x)
        BY <1>3, <1>5, <1>6, <2>5, <3>2 DEF Gone, SessionOf
    <3> QED BY <1>0, <1>6, <2>2, <3>3 DEF Gone, SessionOf
  <2>6. CASE f = "refresh"
    <3>1. ~(/\ ActiveToken(x, context[q].at) /\ adminSessions[s].refreshExpires > context[q].at
            /\ ~adminTokens[x].consumed)
        BY <1>2, <1>3, <1>6, <1>9, <2>6 DEF ActiveRefresh, Known, SessionOf
    <3>2. \/ adminSessions[s].revoked \/ adminTokens[x].revoked
          \/ adminTokens[x].expires <= now \/ adminSessions[s].absoluteExpires <= now
          \/ adminSessions[s].refreshExpires <= now \/ adminTokens[x].consumed
        BY <1>6, <2>3, <2>4, <3>1 DEF ActiveToken, SessionOf
    <3>3. Gone(f, x)
        BY <1>3, <1>5, <1>6, <2>6, <3>2 DEF Gone, SessionOf
    <3> QED BY <1>0, <1>6, <2>2, <3>3 DEF Gone, SessionOf
  <2> QED BY <2>5, <2>6 DEF Tokens
<1> QED BY <1>8, <1>9

LEMMA LogoutKeepsStep ==
    FlowType /\ FlowInv /\ TimedInv /\ HasInv /\ TokenInv /\ IssuedInv /\ LogoutInv /\ [Next]_vars
    => LogoutInv'
<1> SUFFICES ASSUME FlowType, FlowInv, TimedInv, HasInv, TokenInv, IssuedInv, LogoutInv, [Next]_vars
             PROVE  LogoutInv'
    OBVIOUS
<1> SUFFICES ASSUME NEW q \in Asked, Kind(q) = "logout", Told(q)', context'[q].transport = "cookie",
                    NEW f \in Tokens, context'[q][f] # None
             PROVE  \E x : x = context'[q][f] /\ Gone(f, x)'
  <2>1. Asked' = Asked /\ \A q \in Asked : Kind(q)' = Kind(q)
      BY StepMoves DEF Asked, Kind, Command
  <2>2. LogoutInv' <=> \A q \in Asked : Kind(q) = "logout" /\ Told(q)' /\ context'[q].transport = "cookie" =>
                          \A f \in Tokens : context'[q][f] # None => \E x : x = context'[q][f] /\ Gone(f, x)'
      BY <2>1 DEF LogoutInv, Gone, SessionOf
  <2> QED BY <2>2
<1>1. TokensGrow
    BY TokensStaySound
<1>2. CASE Told(q) /\ context'[q] = context[q]
  <2>1. PICK x : x = context[q][f]
      OBVIOUS
  <2>2. Gone(f, x)
      BY <1>2, <2>1 DEF LogoutInv
  <2> QED BY <1>1, <1>2, <2>1, <2>2, GoneStays
<1>3. CASE (SoftwareStep(q) \/ AdminStep(q)) /\ stage'[q] = "answer"
  <2>0. Kind(q) \in Handled
      BY DEF Handled
  <2>1. AdminStep(q) /\ <<stage[q], "answer">> \in Ways /\ stage[q] \in RouteOf("logout")
      BY <1>3, <2>0, RouteStep, HandledAre
  <2>2. stage[q] \in {"read_proofs", "locked"}
      BY <2>1 DEF Ways, RouteOf, Route, Locking
  <2>3. Fields(Kind(q)) \subseteq DOMAIN context[q]
      BY <2>0, <2>2 DEF HasInv
  <2>4. {"access", "refresh", "transport"} \subseteq DOMAIN context[q]
      BY <2>3 DEF Fields, Enders
  <2>5. ASSUME NEW kept, context'[q] = Joined(kept, context[q]), DOMAIN kept \subseteq {"queue"}
        PROVE  context'[q][f] = context[q][f] /\ context'[q].transport = context[q].transport
      BY <2>4, <2>5 DEF Joined, Tokens
  <2>6. CASE stage[q] = "read_proofs"
    <3>1. ReadProofsStep(q)
        BY <1>3, <2>1, <2>6, StepAt
    <3>2. PICK proofs :
              /\ proofs = Proofs(context[q])
              /\ Continues(q, IF proofs = << >> THEN "answer" ELSE "lock_token", [queue |-> proofs])
        BY <3>1 DEF ReadProofsStep
    <3>3. proofs = << >> /\ context'[q] = Joined([queue |-> proofs], context[q])
        BY <1>3, <3>2, GoesOnWith
    <3>4. Requested(context[q]) \subseteq Tokens
        BY DEF Requested, Tokens
    <3>5. Requested(context[q]) = {}
        BY <3>2, <3>3, <3>4 DEF Proofs, Tokens
    <3>6. context[q][f] = None
        BY <3>5 DEF Requested, Tokens
    <3> QED BY <2>5, <3>3, <3>6
  <2>7. CASE stage[q] = "locked"
    <3>1. LogoutStep(q)
        BY <1>3, <2>1, <2>7, StepAt
    <3>2. context'[q] = Joined(<< >>, context[q])
        BY <1>3, <3>1, GoesOnWith DEF LogoutStep
    <3>3. PICK x : x = context[q][f]
        OBVIOUS
    <3>4. context'[q][f] = x /\ context[q].transport = "cookie"
        BY <2>5, <3>2, <3>3, NothingKept
    <3> QED BY <1>3, <3>1, <3>3, <3>4, LogoutEnds
  <2> QED BY <2>2, <2>6, <2>7
<1> QED BY <1>2, <1>3, ToldMoves

\* Tokens were issued to those that have them, and a logout leaves none of use.
THEOREM LogoutCorrect == Spec => [](IssuedInv /\ LogoutInv)
<1>1. Init => IssuedInv /\ LogoutInv
  <2> SUFFICES ASSUME Init PROVE IssuedInv /\ LogoutInv
      OBVIOUS
  <2>1. \A q \in Asked : stage[q] = "idle" /\ ~Told(q)
      BY DEF Init, Asked, Told, Answered, NoResult
  <2> QED BY <2>1 DEF IssuedInv, LogoutInv
<1> QED BY <1>1, IssuedStep, LogoutKeepsStep, FlowCorrect, TokensCorrect, PTL DEF Spec

\* After a logout that a browser was told has succeeded, the tokens it showed are of no
\* more use.
THEOREM LogoutsEndSessions == Spec => []LogoutEndsSession
<1>1. ASSUME LogoutInv, NEW r \in Asked, Kind(r) = "logout", Answered(r), context[r].transport = "cookie",
             NEW kind \in Tokens, context[r][kind] # None
      PROVE  IF kind = "access"
             THEN \/ AccessRefusal(context[r].access, now) # Accepted
                  \/ SessionOf(context[r].access).absoluteExpires <= now
             ELSE \/ adminTokens[context[r].refresh].consumed
                  \/ RefreshRefusal(context[r].refresh, now) # Accepted
  <2>1. Gone(kind, context[r][kind])
      BY <1>1 DEF LogoutInv, Told
  <2>2. CASE kind = "access"
      BY <2>1, <2>2 DEF Gone, AccessRefusal, Known, Accepted
  <2>3. CASE kind = "refresh"
      BY <2>1, <2>3 DEF Gone, RefreshRefusal, Accepted
  <2> QED BY <1>1, <2>2, <2>3 DEF Tokens
<1>2. LogoutInv => LogoutEndsSession
    BY <1>1 DEF LogoutEndsSession, Requested, Tokens
<1> QED BY <1>2, LogoutCorrect, PTL

-----------------------------------------------------------------------------
(* Scope bindings and snapshots.                                           *)

BindingTyped(row) == {"admin", "role", "scope", "from", "active"} \subseteq DOMAIN row

\* What the answer of a binding says: the binding is there, of a scope that is not the
\* platform's, and its version is one that its administrator has or had.
Said == {"binding", "admin", "scope", "version"}
Bound(a) ==
    /\ Said \subseteq DOMAIN a
    /\ a.binding \in DOMAIN scopeBindings
    /\ scopeBindings[a.binding].admin = a.admin
    /\ scopeBindings[a.binding].scope = a.scope
    /\ scopeBindings[a.binding].from \in Nat /\ scopeBindings[a.binding].from <= now
    /\ a.scope.type # "platform"
    /\ a.admin \in DOMAIN authorizationVersions
    /\ a.version \in Nat /\ a.version <= authorizationVersions[a.admin]

AccessInv ==
    /\ \A b \in DOMAIN scopeBindings : BindingTyped(scopeBindings[b])
    /\ Fresh(DOMAIN scopeBindings, MakesBinding)
    /\ \A admin \in DOMAIN authorizationVersions : authorizationVersions[admin] \in Nat
    /\ \A k \in DOMAIN bindingReceipts : Bound(bindingReceipts[k].response)

\* Bindings stay, and only the platform's are given back; versions grow, with every
\* binding that is made.
BindingsGrow ==
    \A b \in DOMAIN scopeBindings :
        LET was == scopeBindings[b]
            is == scopeBindings'[b]
        IN  /\ b \in DOMAIN scopeBindings'
            /\ is.admin = was.admin /\ is.scope = was.scope /\ is.from = was.from
            /\ was.scope.type # "platform" /\ is.active => was.active

VersionsGrow ==
    \A admin \in DOMAIN authorizationVersions :
        /\ admin \in DOMAIN authorizationVersions'
        /\ authorizationVersions[admin] \in Nat /\ authorizationVersions'[admin] \in Nat
        /\ authorizationVersions[admin] <= authorizationVersions'[admin]

ReceiptsGrow ==
    /\ \A k \in DOMAIN bindingReceipts :
          k \in DOMAIN bindingReceipts' /\ bindingReceipts'[k] = bindingReceipts[k]
    /\ \A k \in DOMAIN bindingReceipts' \ DOMAIN bindingReceipts :
          LET a == bindingReceipts'[k].response
          IN  a.admin \in DOMAIN authorizationVersions => authorizationVersions[a.admin] < a.version

AccessGrows == BindingsGrow /\ VersionsGrow /\ ReceiptsGrow

LEMMA AccessWriters ==
    ASSUME FlowType, [Next]_vars
    PROVE  \/ UNCHANGED accessVars
           \/ \E r \in Asked : BootstrapStep(r) \/ WithdrawStep(r) \/ BindScopeStep(r)
<1>1. CASE UNCHANGED vars \/ Tick
    BY <1>1 DEF vars, Tick
<1>2. ASSUME NEW r \in Asked, Send(r) \/ Deliver(r) \/ Fail(r) PROVE UNCHANGED accessVars
    BY <1>2 DEF Send, Deliver, Fail
<1>3. ASSUME NEW r \in Asked, SoftwareStep(r)
      PROVE  UNCHANGED accessVars \/ (r \in Asked /\ BindScopeStep(r))
    BY <1>3, SoftwareMoves
<1>4. ASSUME NEW r \in Asked, AdminStep(r)
      PROVE  UNCHANGED accessVars \/ (r \in Asked /\ (BootstrapStep(r) \/ WithdrawStep(r)))
  <2>0. r \in Asked
      BY <1>4, AdminMoves
  <2> USE DEF OnIdentity, OnAccess
  <2>1. CASE BootstrapIdentityStep(r) \/ BootstrapAuditStep(r) \/ ThrottleStep(r) \/ VerifyStep(r)
      BY <2>1 DEF BootstrapIdentityStep, BootstrapAuditStep, ThrottleStep, VerifyStep
  <2>2. CASE \/ LoginVersionStep(r) \/ LoginBindingsStep(r) \/ SessionVersionStep(r)
             \/ SessionBindingsStep(r) \/ AuthorizeVersionStep(r) \/ AuthorizeBindingsStep(r)
             \/ RefreshVersionStep(r) \/ RefreshBindingsStep(r)
      BY <2>2 DEF LoginVersionStep, LoginBindingsStep, SessionVersionStep, SessionBindingsStep,
          AuthorizeVersionStep, AuthorizeBindingsStep, RefreshVersionStep, RefreshBindingsStep,
          ReadsVersion, ReadsBindings, ReadAuthorizationVersion, ResolveSnapshot
  <2>3. CASE RecordFailureStep(r) \/ CreateAdminSessionStep(r) \/ ClearFailuresStep(r) \/ FindSessionStep(r)
      BY <2>3 DEF RecordFailureStep, CreateAdminSessionStep, ClearFailuresStep, FindSessionStep
  <2>4. CASE SessionEndedStep(r) \/ DecideStep(r) \/ LockTokenStep(r) \/ LockSessionStep(r) \/ DeadlockStep(r)
      BY <2>4 DEF SessionEndedStep, DecideStep, LockTokenStep, LockSessionStep, DeadlockStep
  <2>5. CASE \/ ResolveClientStep(r) \/ InspectStep(r) \/ RotateRefreshStep(r) \/ RevokeScopelessStep(r)
             \/ ReadProofsStep(r) \/ LogoutStep(r)
      BY <2>5 DEF ResolveClientStep, InspectStep, RotateRefreshStep, RevokeScopelessStep,
          ReadProofsStep, LogoutStep
  <2>6. CASE \/ RegisterAdminClientStep(r) \/ AddAdminCredentialStep(r) \/ DisableSessionsStep(r)
             \/ EndClientStep(r)
      BY <2>6 DEF RegisterAdminClientStep, AddAdminCredentialStep, DisableSessionsStep, EndClientStep
  <2> QED BY <1>4, <2>0, <2>1, <2>2, <2>3, <2>4, <2>5, <2>6 DEF AdminStep
<1> QED BY <1>1, <1>2, <1>3, <1>4 DEF Next, GoesOn

LEMMA BoundStays ==
    ASSUME FlowType, TimedInv, [Next]_vars, BindingsGrow, VersionsGrow, NEW a, Bound(a)
    PROVE  Bound(a)'
<1>1. now \in Nat /\ now' \in Nat /\ now <= now'
    BY ClockStep DEF TimedInv
<1>2. /\ a.admin \in DOMAIN authorizationVersions'
      /\ a.version <= authorizationVersions'[a.admin]
    BY DEF Bound, VersionsGrow
<1>3. /\ a.binding \in DOMAIN scopeBindings'
      /\ scopeBindings'[a.binding].admin = a.admin
      /\ scopeBindings'[a.binding].scope = a.scope
      /\ scopeBindings'[a.binding].from \in Nat /\ scopeBindings'[a.binding].from <= now
    BY DEF Bound, BindingsGrow
<1> QED BY <1>1, <1>2, <1>3 DEF Bound

\* The next version of an administrator.
LEMMA AdvanceEffect ==
    ASSUME \A a \in DOMAIN authorizationVersions : authorizationVersions[a] \in Nat,
           NEW admin, AdvanceVersion(admin)
    PROVE  /\ \A a \in DOMAIN authorizationVersions' : authorizationVersions'[a] \in Nat
           /\ VersionsGrow
           /\ NextVersion(admin) \in Nat
           /\ admin \in DOMAIN authorizationVersions'
           /\ authorizationVersions'[admin] = NextVersion(admin)
           /\ admin \in DOMAIN authorizationVersions => authorizationVersions[admin] < NextVersion(admin)
<1>1. NextVersion(admin) \in Nat /\ (admin \in DOMAIN authorizationVersions =>
                                        NextVersion(admin) = authorizationVersions[admin] + 1)
    BY DEF NextVersion, VersionOf
<1>2. PICK n : n = NextVersion(admin)
    OBVIOUS
<1>3. authorizationVersions' = Put(authorizationVersions, admin, n)
    BY <1>2 DEF AdvanceVersion
<1>4. DOMAIN authorizationVersions' = DOMAIN authorizationVersions \cup {admin}
    BY <1>3 DEF Put
<1>5. \A a \in DOMAIN authorizationVersions' :
         authorizationVersions'[a] = IF a = admin THEN n ELSE authorizationVersions[a]
    BY <1>3 DEF Put
<1> QED BY <1>1, <1>2, <1>4, <1>5 DEF VersionsGrow

\* A bootstrap makes one binding or gives back those of the platform.
LEMMA BootstrapEffect ==
    ASSUME FlowType, TimedInv, AccessInv, [Next]_vars, NEW r \in Asked, BootstrapStep(r)
    PROVE  AccessInv' /\ AccessGrows
<1>1. /\ stage[r] \in MakesBinding /\ stage'[r] \notin MakesBinding
      /\ BootstrapPlatformAdmin(r, context[r].admin)
    BY ContinuesMoves DEF BootstrapStep, OnAccess, At, MovesOn, MovesTo, MakesBinding, FlowType
<1>2. PICK admin, id : admin = context[r].admin /\ id = NewId(r)
    OBVIOUS
<1>3. /\ \A a \in DOMAIN authorizationVersions' : authorizationVersions'[a] \in Nat
      /\ VersionsGrow
    BY <1>1, AdvanceEffect DEF BootstrapPlatformAdmin, AccessInv
<1>4. /\ NewId(r) \notin DOMAIN scopeBindings
      /\ StaysFresh(DOMAIN scopeBindings, MakesBinding)
      /\ StaysFresh(DOMAIN scopeBindings \cup {NewId(r)}, MakesBinding)
  <2>1. MakesBinding \in Drawing /\ (SoftwareStep(r) \/ AdminStep(r))
      BY DEF Drawing, AdminStep
  <2> QED BY <1>1, <2>1, DrawnAddedFresh, DrawnStayFresh DEF AccessInv
<1>5. /\ BindingsGrow
      /\ \A b \in DOMAIN scopeBindings' : BindingTyped(scopeBindings'[b])
      /\ StaysFresh(DOMAIN scopeBindings', MakesBinding)
  <2>1. CASE BoundAlready(admin, "super_admin", PlatformScope)
    <3>1. scopeBindings' =
             [b \in DOMAIN scopeBindings |->
                 IF scopeBindings[b].admin = admin /\ scopeBindings[b].scope = PlatformScope
                 THEN [scopeBindings[b] EXCEPT !.active = TRUE] ELSE scopeBindings[b]]
        BY <1>1, <1>2, <2>1 DEF BootstrapPlatformAdmin
    <3>2. DOMAIN scopeBindings' = DOMAIN scopeBindings
        BY <3>1
    <3>3. PlatformScope.type = "platform"
        BY DEF PlatformScope, Scope
    <3>4. ASSUME NEW b \in DOMAIN scopeBindings
          PROVE  /\ scopeBindings'[b].admin = scopeBindings[b].admin
                 /\ scopeBindings'[b].scope = scopeBindings[b].scope
                 /\ scopeBindings'[b].from = scopeBindings[b].from
                 /\ scopeBindings[b].scope.type # "platform" => scopeBindings'[b] = scopeBindings[b]
                 /\ BindingTyped(scopeBindings'[b])
      <4>1. BindingTyped(scopeBindings[b])
          BY DEF AccessInv
      <4> QED BY <3>1, <3>3, <4>1 DEF BindingTyped
    <3> QED BY <1>4, <3>2, <3>4 DEF BindingsGrow
  <2>2. CASE ~BoundAlready(admin, "super_admin", PlatformScope)
    <3>1. PICK row : row = Binding(admin, "super_admin", PlatformScope)
        OBVIOUS
    <3>2. scopeBindings' = Added(scopeBindings, id, row)
        BY <1>1, <1>2, <2>2, <3>1 DEF BootstrapPlatformAdmin
    <3>3. /\ DOMAIN scopeBindings' = DOMAIN scopeBindings \cup {id}
          /\ scopeBindings'[id] = row
          /\ \A b \in DOMAIN scopeBindings : scopeBindings'[b] = scopeBindings[b]
        BY <1>2, <1>4, <3>2 DEF Added
    <3>4. BindingTyped(row)
        BY <3>1 DEF Binding, BindingTyped
    <3> QED BY <1>2, <1>4, <3>3, <3>4 DEF BindingsGrow, AccessInv
  <2> QED BY <2>1, <2>2
<1>6. bindingReceipts' = bindingReceipts
    BY <1>1 DEF BootstrapPlatformAdmin
<1>7. \A k \in DOMAIN bindingReceipts : Bound(bindingReceipts[k].response)'
  <2> SUFFICES ASSUME NEW k \in DOMAIN bindingReceipts, NEW a, a = bindingReceipts[k].response
               PROVE  Bound(a)'
      BY <1>6 DEF Bound
  <2>1. Bound(a)
      BY DEF AccessInv
  <2> QED BY <1>3, <1>5, <2>1, BoundStays
<1> QED BY <1>3, <1>5, <1>6, <1>7 DEF AccessInv, AccessGrows, ReceiptsGrow, Fresh, StaysFresh

LEMMA WithdrawEffect ==
    ASSUME FlowType, TimedInv, AccessInv, [Next]_vars, NEW r \in Asked, WithdrawStep(r)
    PROVE  AccessInv' /\ AccessGrows
<1>1. PICK admin : WithdrawScopes(r, admin)
    BY DEF WithdrawStep
<1>2. /\ scopeBindings' = [b \in DOMAIN scopeBindings |->
                              IF scopeBindings[b].admin = admin
                              THEN [scopeBindings[b] EXCEPT !.active = FALSE] ELSE scopeBindings[b]]
      /\ authorizationVersions' = authorizationVersions /\ bindingReceipts' = bindingReceipts
    BY <1>1 DEF WithdrawScopes
<1>3. DOMAIN scopeBindings' = DOMAIN scopeBindings
    BY <1>2
<1>4. ASSUME NEW b \in DOMAIN scopeBindings
      PROVE  /\ scopeBindings'[b].admin = scopeBindings[b].admin
             /\ scopeBindings'[b].scope = scopeBindings[b].scope
             /\ scopeBindings'[b].from = scopeBindings[b].from
             /\ scopeBindings'[b].active => scopeBindings[b].active
             /\ BindingTyped(scopeBindings'[b])
  <2>1. BindingTyped(scopeBindings[b])
      BY DEF AccessInv
  <2> QED BY <1>2, <2>1 DEF BindingTyped
<1>5. BindingsGrow
    BY <1>3, <1>4 DEF BindingsGrow
<1>6. VersionsGrow
    BY <1>2 DEF VersionsGrow, AccessInv
<1>7. StaysFresh(DOMAIN scopeBindings, MakesBinding)
    BY DrawnStayFresh DEF Drawing, AccessInv
<1>8. \A k \in DOMAIN bindingReceipts : Bound(bindingReceipts[k].response)'
  <2> SUFFICES ASSUME NEW k \in DOMAIN bindingReceipts, NEW a, a = bindingReceipts[k].response
               PROVE  Bound(a)'
      BY <1>2 DEF Bound
  <2>1. Bound(a)
      BY DEF AccessInv
  <2> QED BY <1>5, <1>6, <2>1, BoundStays
<1> QED BY <1>2, <1>3, <1>4, <1>5, <1>6, <1>7, <1>8 DEF AccessInv, AccessGrows, ReceiptsGrow, Fresh, StaysFresh

\* A binding that is made has an identifier, and a version, of its own.
LEMMA BindEffect ==
    ASSUME FlowType, TimedInv, AccessInv, [Next]_vars, NEW r \in Asked, BindScopeStep(r)
    PROVE  /\ AccessInv' /\ AccessGrows
           /\ stage'[r] # "done" =>
                 \E k \in DOMAIN bindingReceipts' :
                    \A f \in Said : context'[r][f] = bindingReceipts'[k].response[f]
<1>1. PICK c, scope, admin, id, n :
          /\ c = context[r] /\ scope = Scope("tenant", c.product, c.tenant)
          /\ admin = c.admin /\ id = NewId(r) /\ n = NextVersion(admin)
    OBVIOUS
<1>2. PICK idem, refusal, answer :
          /\ idem = ScopeBindingRequest(c, scope)
          /\ answer = [binding |-> id, admin |-> admin, scope |-> scope, version |-> n]
          /\ \/ Settled(r, bindingReceipts, idem, refusal) /\ UNCHANGED accessVars
             \/ /\ Proceeds(bindingReceipts, idem, refusal)
                /\ scopeBindings' = Added(scopeBindings, id, Binding(admin, c.role, scope))
                /\ AdvanceVersion(admin)
                /\ bindingReceipts' = Receipted(bindingReceipts, idem, answer)
                /\ Returns(r, answer)
          /\ Continues(r, "answer", Got(r))
    BY <1>1 DEF BindScopeStep, BindAdminScope
<1>3. stage[r] \in MakesBinding /\ stage'[r] \notin MakesBinding
    BY ContinuesMoves DEF BindScopeStep, OnAccess, At, MovesOn, MovesTo, MakesBinding, FlowType
<1>4. /\ id \notin DOMAIN scopeBindings
      /\ StaysFresh(DOMAIN scopeBindings, MakesBinding)
      /\ StaysFresh(DOMAIN scopeBindings \cup {id}, MakesBinding)
  <2>1. MakesBinding \in Drawing /\ (SoftwareStep(r) \/ AdminStep(r))
      BY DEF Drawing, SoftwareStep
  <2> QED BY <1>1, <1>3, <2>1, DrawnAddedFresh, DrawnStayFresh DEF AccessInv
<1>5. stage'[r] # "done" => /\ context'[r] = Joined(Got(r), context[r])
                            /\ \A e : ~Refuses(r, e)
    BY <1>2, GoesOnWith, NotRefused
<1>6. CASE Settled(r, bindingReceipts, idem, refusal) /\ UNCHANGED accessVars
  <2>1. /\ scopeBindings' = scopeBindings /\ authorizationVersions' = authorizationVersions
        /\ bindingReceipts' = bindingReceipts
      BY <1>6 DEF accessVars
  <2>2. BindingsGrow /\ VersionsGrow /\ ReceiptsGrow
      BY <2>1 DEF BindingsGrow, VersionsGrow, ReceiptsGrow, AccessInv
  <2>3. \A k \in DOMAIN bindingReceipts : Bound(bindingReceipts[k].response)'
    <3> SUFFICES ASSUME NEW k \in DOMAIN bindingReceipts, NEW a, a = bindingReceipts[k].response
                 PROVE  Bound(a)'
        BY <2>1 DEF Bound
    <3>1. Bound(a)
        BY DEF AccessInv
    <3> QED BY <2>2, <3>1, BoundStays
  <2>4. AccessInv'
      BY <1>4, <2>1, <2>3 DEF AccessInv, Fresh, StaysFresh
  <2>5. ASSUME stage'[r] # "done"
        PROVE  \E k \in DOMAIN bindingReceipts' :
                  \A f \in Said : context'[r][f] = bindingReceipts'[k].response[f]
    <3>1. PICK k \in DOMAIN bindingReceipts : Returns(r, bindingReceipts[k].response)
        BY <1>5, <1>6, <2>5 DEF Settled
    <3>2. Got(r) = bindingReceipts[k].response
        BY <3>1, AnsweredWith
    <3>3. Said \subseteq DOMAIN Got(r)
        BY <3>2 DEF AccessInv, Bound
    <3>4. \A f \in Said : context'[r][f] = Got(r)[f]
        BY <1>5, <2>5, <3>3, JoinedIs
    <3> QED BY <2>1, <3>2, <3>4
  <2> QED BY <2>2, <2>4, <2>5 DEF AccessGrows
<1>7. CASE /\ Proceeds(bindingReceipts, idem, refusal)
           /\ scopeBindings' = Added(scopeBindings, id, Binding(admin, c.role, scope))
           /\ AdvanceVersion(admin)
           /\ bindingReceipts' = Receipted(bindingReceipts, idem, answer)
           /\ Returns(r, answer)
  <2>1. PICK row : row = Binding(admin, c.role, scope)
      OBVIOUS
  <2>2. /\ BindingTyped(row) /\ row.admin = admin /\ row.scope = scope /\ row.from = now
      BY <2>1 DEF Binding, BindingTyped
  <2>3. /\ DOMAIN scopeBindings' = DOMAIN scopeBindings \cup {id}
        /\ scopeBindings'[id] = row
        /\ \A b \in DOMAIN scopeBindings : scopeBindings'[b] = scopeBindings[b]
      BY <1>4, <1>7, <2>1 DEF Added
  <2>4. BindingsGrow
      BY <2>3 DEF BindingsGrow
  <2>5. /\ \A a \in DOMAIN authorizationVersions' : authorizationVersions'[a] \in Nat
        /\ VersionsGrow
        /\ n \in Nat /\ admin \in DOMAIN authorizationVersions' /\ authorizationVersions'[admin] = n
        /\ admin \in DOMAIN authorizationVersions => authorizationVersions[admin] < n
      BY <1>1, <1>7, AdvanceEffect DEF AccessInv
  <2>6. PICK k : k = idem.key
      OBVIOUS
  <2>7. /\ k \notin DOMAIN bindingReceipts
        /\ DOMAIN bindingReceipts' = DOMAIN bindingReceipts \cup {k}
        /\ bindingReceipts'[k].response = answer
        /\ \A j \in DOMAIN bindingReceipts : bindingReceipts'[j] = bindingReceipts[j]
      BY <1>7, <2>6 DEF Proceeds, Receipted, Added
  <2>8. answer.admin = admin /\ answer.version = n /\ answer.binding = id /\ answer.scope = scope
        /\ DOMAIN answer = Said
      BY <1>2 DEF Said
  <2>9. ReceiptsGrow
      BY <2>5, <2>7, <2>8 DEF ReceiptsGrow
  <2>10. Bound(answer)'
    <3>1. now \in Nat /\ now' \in Nat /\ now <= now'
        BY ClockStep DEF TimedInv
    <3>2. scope.type # "platform"
        BY <1>1 DEF Scope
    <3> QED BY <2>2, <2>3, <2>5, <2>8, <3>1, <3>2 DEF Bound
  <2>11. \A j \in DOMAIN bindingReceipts : \A a : a = bindingReceipts[j].response => Bound(a)'
    <3> SUFFICES ASSUME NEW j \in DOMAIN bindingReceipts, NEW a, a = bindingReceipts[j].response
                 PROVE  Bound(a)'
        OBVIOUS
    <3>1. Bound(a)
        BY DEF AccessInv
    <3> QED BY <2>4, <2>5, <3>1, BoundStays
  <2>12. \A j \in DOMAIN bindingReceipts' : Bound(bindingReceipts[j].response)'
    <3> SUFFICES ASSUME NEW j \in DOMAIN bindingReceipts', NEW a, a = bindingReceipts'[j].response
                 PROVE  Bound(a)'
        BY DEF Bound
    <3> QED BY <2>7, <2>10, <2>11
  <2>13. AccessInv'
      BY <1>4, <2>2, <2>3, <2>5, <2>12 DEF AccessInv, Fresh, StaysFresh
  <2>14. ASSUME stage'[r] # "done"
         PROVE  \E j \in DOMAIN bindingReceipts' :
                   \A f \in Said : context'[r][f] = bindingReceipts'[j].response[f]
    <3>1. Got(r) = answer
        BY <1>7, AnsweredWith
    <3>2. \A f \in Said : context'[r][f] = answer[f]
        BY <1>5, <2>8, <2>14, <3>1, JoinedIs
    <3> QED BY <2>7, <3>2
  <2> QED BY <2>4, <2>5, <2>9, <2>13, <2>14 DEF AccessGrows
<1> QED BY <1>2, <1>6, <1>7

LEMMA AccessStep == FlowType /\ TimedInv /\ AccessInv /\ [Next]_vars => AccessInv' /\ AccessGrows
<1> SUFFICES ASSUME FlowType, TimedInv, AccessInv, [Next]_vars PROVE AccessInv' /\ AccessGrows
    OBVIOUS
<1>1. CASE UNCHANGED accessVars
  <2>1. /\ scopeBindings' = scopeBindings /\ authorizationVersions' = authorizationVersions
        /\ bindingReceipts' = bindingReceipts
      BY <1>1 DEF accessVars
  <2>2. BindingsGrow /\ VersionsGrow /\ ReceiptsGrow
      BY <2>1 DEF BindingsGrow, VersionsGrow, ReceiptsGrow, AccessInv
  <2>3. \A k \in DOMAIN bindingReceipts : Bound(bindingReceipts[k].response)'
    <3> SUFFICES ASSUME NEW k \in DOMAIN bindingReceipts, NEW a, a = bindingReceipts[k].response
                 PROVE  Bound(a)'
        BY <2>1 DEF Bound
    <3>1. Bound(a)
        BY DEF AccessInv
    <3> QED BY <2>2, <3>1, BoundStays
  <2>4. StaysFresh(DOMAIN scopeBindings, MakesBinding)
      BY DrawnStayFresh DEF Drawing, AccessInv
  <2> QED BY <2>1, <2>2, <2>3, <2>4 DEF AccessInv, AccessGrows, Fresh, StaysFresh
<1> QED BY <1>1, AccessWriters, BootstrapEffect, WithdrawEffect, BindEffect
-----------------------------------------------------------------------------
(* What a snapshot says.                                                   *)

Snapping == {"login", "current", "authorize", "refresh"}

\* The steps up to the one that finds out whose snapshot is wanted, and those of a
\* snapshot.
Unnamed == {"login_throttle", "verify_login", "find_session", "resolve_client", "inspect_refresh"}
FirstReads == {"login_version", "session_version", "authorize_version", "refresh_version"}
SecondReads == {"login_bindings", "session_bindings", "authorize_bindings", "refresh_bindings"}

\* The version that was read is one that the administrator has or had.
ReadOf(c) ==
    /\ {"user", "read"} \subseteq DOMAIN c
    /\ c.user \in DOMAIN authorizationVersions
    /\ c.read \in Nat /\ c.read <= authorizationVersions[c.user]

\* A snapshot has the scope of every binding that it ought to have.
Covers(c) ==
    /\ {"user", "version", "scopes"} \subseteq DOMAIN c
    /\ c.user \in DOMAIN authorizationVersions
    /\ c.version \in Nat /\ c.version <= authorizationVersions[c.user]
    /\ \A k \in DOMAIN bindingReceipts :
          LET a == bindingReceipts[k].response
          IN  a.admin = c.user /\ a.version <= c.version /\ scopeBindings[a.binding].active
              => a.scope \in c.scopes

\* What is known of a request that takes a snapshot.
Snaps(q) ==
    /\ stage[q] \in Unnamed => "scopes" \notin DOMAIN context[q]
    /\ stage[q] \in FirstReads => "user" \in DOMAIN context[q]
    /\ stage[q] \in SecondReads => ReadOf(context[q])
    /\ "scopes" \in DOMAIN context[q] => Covers(context[q])

\* The answer to a binding is that of its receipt.
Receipt(c) == \E k \in DOMAIN bindingReceipts : \A f \in Said : c[f] = bindingReceipts[k].response[f]

SnapInv ==
    /\ \A q \in Asked : Kind(q) = "bind_tenant_admin" /\ Told(q) => Receipt(context[q])
    /\ \A q \in Asked : Kind(q) \in Snapping => Snaps(q)
\* A snapshot stays as good as it is, as versions grow with every binding.
LEMMA CoversStays ==
    ASSUME AccessInv, AccessInv', AccessGrows, NEW c, Covers(c)
    PROVE  Covers(c)'
<1>1. /\ c.user \in DOMAIN authorizationVersions'
      /\ authorizationVersions[c.user] \in Nat /\ authorizationVersions'[c.user] \in Nat
      /\ authorizationVersions[c.user] <= authorizationVersions'[c.user]
      /\ c.version \in Nat /\ c.version <= authorizationVersions[c.user]
    BY DEF Covers, AccessGrows, VersionsGrow
<1>2. ASSUME NEW k \in DOMAIN bindingReceipts', NEW a, a = bindingReceipts'[k].response,
             a.admin = c.user, a.version <= c.version, scopeBindings'[a.binding].active
      PROVE  a.scope \in c.scopes
  <2>1. CASE k \in DOMAIN bindingReceipts
    <3>1. a = bindingReceipts[k].response
        BY <1>2, <2>1 DEF AccessGrows, ReceiptsGrow
    <3>2. /\ a.binding \in DOMAIN scopeBindings
          /\ scopeBindings[a.binding].scope = a.scope /\ a.scope.type # "platform"
        BY <2>1, <3>1 DEF AccessInv, Bound
    <3>3. scopeBindings[a.binding].active
        BY <1>2, <3>2 DEF AccessGrows, BindingsGrow
    <3> QED BY <1>2, <2>1, <3>1, <3>3 DEF Covers
  <2>2. CASE k \notin DOMAIN bindingReceipts
    <3>1. authorizationVersions[c.user] < a.version
        BY <1>2, <2>2 DEF AccessGrows, ReceiptsGrow, Covers
    <3>2. a.version \in Nat
        BY <1>2 DEF AccessInv, Bound
    <3> QED BY <1>1, <1>2, <3>1, <3>2
  <2> QED BY <2>1, <2>2
<1> QED BY <1>1, <1>2 DEF Covers

LEMMA CoversAlike ==
    ASSUME NEW c, NEW d, Covers(c), {"user", "version", "scopes"} \subseteq DOMAIN d,
           d.user = c.user, d.version = c.version, d.scopes = c.scopes
    PROVE  Covers(d)
BY DEF Covers

\* What a request keeps of its snapshot stays as good.
LEMMA KeepsCovers ==
    ASSUME AccessInv, AccessInv', AccessGrows, NEW q, Keeps(q, "user"), Keeps(q, "version"),
           Keeps(q, "scopes"), "scopes" \in DOMAIN context[q] => Covers(context[q])
    PROVE  "scopes" \in DOMAIN context'[q] => Covers(context[q])'
<1> SUFFICES ASSUME "scopes" \in DOMAIN context'[q] PROVE Covers(context[q])'
    OBVIOUS
<1>1. PICK c, d : c = context[q] /\ d = context'[q]
    OBVIOUS
<1>2. Covers(c)
    BY <1>1 DEF Keeps
<1>3. /\ {"user", "version", "scopes"} \subseteq DOMAIN d
      /\ d.user = c.user /\ d.version = c.version /\ d.scopes = c.scopes
    BY <1>1, <1>2 DEF Keeps, Covers
<1>4. Covers(d)
    BY <1>2, <1>3, CoversAlike
<1>5. Covers(d)'
    BY <1>4, CoversStays
<1> QED BY <1>1, <1>5 DEF Covers

\* The first reading tells the version that the administrator has.
LEMMA VersionRead ==
    ASSUME FlowType, AccessInv, NEW q \in Asked, "user" \in DOMAIN context[q],
           ReadAuthorizationVersion(q, context[q].user),
           \/ result'[q].kind = "ok" /\ context'[q] = Joined(Got(q), context[q])
           \/ result'[q].kind # "ok" /\ (\A f : Keeps(q, f))
    PROVE  /\ Keeps(q, "user") /\ Keeps(q, "version") /\ Keeps(q, "scopes")
           /\ result'[q].kind = "ok" => ReadOf(context[q])'
           /\ UNCHANGED accessVars
<1>1. UNCHANGED accessVars /\ authorizationVersions' = authorizationVersions
    BY DEF ReadAuthorizationVersion, accessVars
<1>2. CASE result'[q].kind # "ok"
    BY <1>1, <1>2
<1>3. CASE result'[q].kind = "ok"
  <2>1. PICK user, n : user = context[q].user /\ n = authorizationVersions[user]
      OBVIOUS
  <2>2. user \in DOMAIN authorizationVersions /\ Returns(q, [read |-> n])
      BY <1>3, <2>1, NotRefused DEF ReadAuthorizationVersion
  <2>3. Got(q) = [read |-> n]
      BY <2>2, AnsweredWith
  <2>4. /\ DOMAIN context'[q] = DOMAIN context[q] \cup {"read"}
        /\ context'[q].read = n
        /\ \A f \in DOMAIN context[q] : f # "read" => context'[q][f] = context[q][f]
      BY <1>3, <2>3 DEF Joined
  <2>5. n \in Nat /\ n <= authorizationVersions[user]
      BY <2>1, <2>2 DEF AccessInv
  <2> QED BY <1>1, <2>1, <2>2, <2>4, <2>5 DEF Keeps, ReadOf
<1> QED BY <1>2, <1>3

\* The second reading finds the bindings made until then, those of that version among
\* them.
LEMMA BindingsRead ==
    ASSUME FlowType, AccessInv, NEW q \in Asked, ReadOf(context[q]),
           ResolveSnapshot(q, context[q].user, context[q].read),
           \/ result'[q].kind = "ok" /\ context'[q] = Joined(Got(q), context[q])
           \/ result'[q].kind # "ok" /\ (\A f : Keeps(q, f)),
           AccessInv', AccessGrows, "scopes" \in DOMAIN context[q] => Covers(context[q])
    PROVE  /\ "scopes" \in DOMAIN context'[q] => Covers(context[q])'
           /\ Keeps(q, "user")
<1>1. UNCHANGED accessVars
    BY DEF ResolveSnapshot
<1>2. CASE result'[q].kind # "ok"
    BY <1>2, KeepsCovers
<1>3. CASE result'[q].kind = "ok"
  <2>1. PICK user, n, scopes : user = context[q].user /\ n = context[q].read /\ scopes = ScopesOf(user)
      OBVIOUS
  <2>2. PICK p : Returns(q, [version |-> n, scopes |-> scopes, permissions |-> p])
      BY <1>3, <2>1, NotRefused DEF ResolveSnapshot
  <2>3. Got(q) = [version |-> n, scopes |-> scopes, permissions |-> p]
      BY <2>2, AnsweredWith
  <2>4. PICK d : d = context'[q]
      OBVIOUS
  <2>5. /\ DOMAIN d = DOMAIN context[q] \cup {"version", "scopes", "permissions"}
        /\ d.version = n /\ d.scopes = scopes /\ d.user = user
        /\ Keeps(q, "user")
      BY <1>3, <2>1, <2>3, <2>4 DEF Joined, ReadOf, Keeps
  <2>6. ASSUME NEW k \in DOMAIN bindingReceipts, NEW a, a = bindingReceipts[k].response,
               a.admin = user, scopeBindings[a.binding].active
        PROVE  a.scope \in scopes
    <3>1. /\ a.binding \in DOMAIN scopeBindings
          /\ scopeBindings[a.binding].admin = user /\ scopeBindings[a.binding].scope = a.scope
          /\ scopeBindings[a.binding].from <= now
        BY <2>6 DEF AccessInv, Bound
    <3> QED BY <2>1, <2>6, <3>1 DEF ScopesOf, ActiveBindings
  <2>7. Covers(d)
      BY <2>1, <2>5, <2>6 DEF Covers, ReadOf
  <2>8. Covers(d)'
      BY <2>7, CoversStays
  <2> QED BY <2>4, <2>5, <2>8 DEF Covers
<1> QED BY <1>2, <1>3
LEMMA ReadingGoes ==
    ASSUME FlowType, NEW q \in Asked, NEW next, NEW otherwise,
           IF result'[q].kind = "ok" THEN Goes(q, next, Got(q)) ELSE Goes(q, otherwise, << >>)
    PROVE  \/ result'[q].kind = "ok" /\ context'[q] = Joined(Got(q), context[q]) /\ stage'[q] = next
           \/ result'[q].kind # "ok" /\ (\A f : Keeps(q, f)) /\ stage'[q] = otherwise
<1>1. CASE result'[q].kind = "ok"
    BY <1>1 DEF Goes, FlowType
<1>2. CASE result'[q].kind # "ok"
  <2>1. \A f : Keeps(q, f)
      BY <1>2, GoesKeeps, NothingKept
  <2> QED BY <1>2, <2>1 DEF Goes, FlowType
<1> QED BY <1>1, <1>2

\* A request of these kinds that goes on, step by step.
LEMMA SnapsGo ==
    ASSUME FlowType, FlowInv, AccessInv, [Next]_vars, AccessInv', AccessGrows,
           NEW q \in Asked, Kind(q) \in Snapping, Snaps(q), AdminStep(q), stage'[q] # "done"
    PROVE  Snaps(q)'
<1>0. /\ <<stage[q], stage'[q]>> \in Ways
      /\ \A f : f \notin Writes(stage[q]) => Keeps(q, f)
    BY RouteStep, AdminKeeps
<1>1. CASE stage[q] \in Unnamed
  <2>1. stage'[q] \in Unnamed \cup FirstReads \cup {"record_failure", "lock_token"}
      BY <1>0, <1>1 DEF Ways, Unnamed, FirstReads
  <2>2. "scopes" \notin DOMAIN context'[q]
    <3>1. "scopes" \notin Writes(stage[q])
        BY <1>1 DEF Writes, Unnamed
    <3> QED BY <1>0, <1>1, <3>1 DEF Keeps, Snaps
  <2>3. stage'[q] \notin SecondReads
      BY <2>1 DEF Unnamed, FirstReads, SecondReads
  <2>4. stage'[q] \in FirstReads => "user" \in DOMAIN context'[q]
    <3>1. SUFFICES ASSUME stage'[q] \in FirstReads PROVE "user" \in DOMAIN context'[q]
        OBVIOUS
    <3>2. CASE stage[q] = "verify_login"
      <4>1. VerifyStep(q)
          BY <3>2, StepAt
      <4>2. PICK verified \in BOOLEAN :
               Continues(q, IF verified THEN "login_version" ELSE "record_failure",
                            IF verified THEN [user |-> users[context[q].identifier].user] ELSE << >>)
          BY <4>1 DEF VerifyStep
      <4>3. verified
          BY <3>1, <4>2, GoesOnWith DEF FirstReads
      <4>4. context'[q] = Joined([user |-> users[context[q].identifier].user], context[q])
          BY <4>2, <4>3, GoesOnWith
      <4> QED BY <4>4 DEF Joined
    <3>3. CASE stage[q] = "find_session"
      <4>1. FindSessionStep(q)
          BY <3>3, StepAt
      <4>2. /\ FindByAccessDigest(q, context[q], context[q].at)
            /\ context'[q] = Joined(Got(q), context[q])
            /\ \A e : ~Refuses(q, e)
          BY <4>1, GoesOnWith, NotRefused DEF FindSessionStep
      <4>3. PICK s, u, a, c : Returns(q, [session |-> s, user |-> u, authTime |-> a, csrf |-> c])
          BY <4>2 DEF FindByAccessDigest
      <4>4. Got(q) = [session |-> s, user |-> u, authTime |-> a, csrf |-> c]
          BY <4>3, AnsweredWith
      <4> QED BY <4>2, <4>4 DEF Joined
    <3>4. CASE stage[q] = "inspect_refresh"
      <4>1. InspectStep(q)
          BY <3>4, StepAt
      <4>2. /\ InspectRefresh(q, context[q], context[q].at)
            /\ Continues(q, IF Got(q).replayed THEN "lock_token" ELSE "refresh_version",
                         Joined([queue |-> <<context[q].refresh>>], Got(q)))
          BY <4>1 DEF InspectStep
      <4>3. /\ ~Got(q).replayed
            /\ context'[q] = Joined(Joined([queue |-> <<context[q].refresh>>], Got(q)), context[q])
            /\ \A e : ~Refuses(q, e)
          BY <3>1, <4>2, GoesOnWith, NotRefused DEF FirstReads
      <4>4. ~Returns(q, [replayed |-> TRUE])
          BY <4>3, AnsweredWith
      <4>5. "user" \in DOMAIN Got(q)
          BY <4>2, <4>3, <4>4, AnsweredWith DEF InspectRefresh
      <4> QED BY <4>3, <4>5 DEF Joined
    <3> QED BY <1>0, <1>1, <3>1, <3>2, <3>3, <3>4 DEF Ways, Unnamed, FirstReads
  <2> QED BY <2>2, <2>3, <2>4 DEF Snaps
<1>2. CASE stage[q] \in FirstReads
  <2>1. stage'[q] \in SecondReads \cup {"record_failure", "session_ended", "lock_token"}
      BY <1>0, <1>2 DEF Ways, FirstReads, SecondReads
  <2>2. /\ ReadAuthorizationVersion(q, context[q].user)
        /\ \/ result'[q].kind = "ok" /\ context'[q] = Joined(Got(q), context[q])
           \/ result'[q].kind # "ok" /\ (\A f : Keeps(q, f)) /\ stage'[q] \notin SecondReads
    <3>1. CASE \/ LoginVersionStep(q) \/ SessionVersionStep(q) \/ RefreshVersionStep(q)
      <4>1. PICK next, otherwise :
               /\ otherwise \notin SecondReads
               /\ ReadAuthorizationVersion(q, context[q].user)
               /\ IF result'[q].kind = "ok" THEN Goes(q, next, Got(q)) ELSE Goes(q, otherwise, << >>)
          BY <3>1 DEF LoginVersionStep, SessionVersionStep, RefreshVersionStep, ReadsVersion, SecondReads
      <4> QED BY <4>1, ReadingGoes
    <3>2. CASE AuthorizeVersionStep(q)
        BY <3>2, GoesOnWith DEF AuthorizeVersionStep
    <3> QED BY <1>2, <3>1, <3>2, StepAt DEF FirstReads
  <2>3. /\ Keeps(q, "user") /\ Keeps(q, "version") /\ Keeps(q, "scopes")
        /\ result'[q].kind = "ok" => ReadOf(context[q])'
      BY <1>2, <2>2, VersionRead DEF Snaps
  <2>4. "scopes" \in DOMAIN context'[q] => Covers(context[q])'
      BY <2>3, KeepsCovers DEF Snaps
  <2>5. stage'[q] \notin Unnamed \cup FirstReads
      BY <2>1 DEF Unnamed, FirstReads, SecondReads
  <2> QED BY <2>2, <2>3, <2>4, <2>5 DEF Snaps
<1>3. CASE stage[q] \in SecondReads
  <2>1. /\ stage'[q] \notin Unnamed \cup SecondReads
        /\ stage'[q] \in FirstReads => stage'[q] = "authorize_version"
      BY <1>0, <1>3 DEF Ways, Unnamed, FirstReads, SecondReads
  <2>2. /\ ResolveSnapshot(q, context[q].user, context[q].read)
        /\ \/ result'[q].kind = "ok" /\ context'[q] = Joined(Got(q), context[q])
           \/ result'[q].kind # "ok" /\ (\A f : Keeps(q, f))
    <3>1. CASE \/ LoginBindingsStep(q) \/ SessionBindingsStep(q) \/ RefreshBindingsStep(q)
      <4>1. PICK next, otherwise :
               /\ ResolveSnapshot(q, context[q].user, context[q].read)
               /\ IF result'[q].kind = "ok" THEN Goes(q, next, Got(q)) ELSE Goes(q, otherwise, << >>)
          BY <3>1 DEF LoginBindingsStep, SessionBindingsStep, RefreshBindingsStep, ReadsBindings
      <4> QED BY <4>1, ReadingGoes
    <3>2. CASE AuthorizeBindingsStep(q)
        BY <3>2, GoesOnWith DEF AuthorizeBindingsStep
    <3> QED BY <1>3, <3>1, <3>2, StepAt DEF SecondReads
  <2>3. /\ "scopes" \in DOMAIN context'[q] => Covers(context[q])'
        /\ Keeps(q, "user")
      BY <1>3, <2>2, BindingsRead DEF Snaps
  <2>4. "user" \in DOMAIN context'[q]
      BY <1>3, <2>3 DEF Snaps, ReadOf, Keeps
  <2> QED BY <2>1, <2>3, <2>4 DEF Snaps
<1>4. CASE stage[q] \notin Unnamed \cup FirstReads \cup SecondReads
  <2>1. stage'[q] \notin Unnamed \cup FirstReads \cup SecondReads
    <3>1. stage[q] \in RouteOf(Kind(q))
        BY RouteStep
    <3>2. stage[q] # "login_throttle" /\ Kind(q) \in DOMAIN Route
        BY <1>4 DEF Unnamed, Snapping, Route
    <3> QED BY <1>0, <1>4, <3>2 DEF Ways, Unnamed, FirstReads, SecondReads
  <2>3. "user" \notin Writes(stage[q]) /\ "version" \notin Writes(stage[q]) /\ "scopes" \notin Writes(stage[q])
      BY <1>4 DEF Writes, Unnamed, FirstReads, SecondReads
  <2>4. "scopes" \in DOMAIN context'[q] => Covers(context[q])'
      BY <1>0, <2>3, KeepsCovers DEF Snaps
  <2> QED BY <2>1, <2>4 DEF Snaps
<1> QED BY <1>1, <1>2, <1>3, <1>4

LEMMA SnapsStay ==
    ASSUME FlowType, FlowInv, AccessInv, [Next]_vars, AccessInv', AccessGrows,
           NEW q \in Asked, Kind(q) \in Snapping, Snaps(q)
    PROVE  Snaps(q)'
<1>0. Kind(q) \in Handled /\ Kind(q) # "bind_tenant_admin"
    BY DEF Handled, Snapping
<1>1. ASSUME context'[q] = context[q], stage'[q] \in {stage[q], "done"} PROVE Snaps(q)'
  <2>1. PICK c : c = context[q]
      OBVIOUS
  <2>2. "scopes" \in DOMAIN c => Covers(c)'
      BY <2>1, CoversStays DEF Snaps
  <2>3. stage'[q] \in SecondReads => ReadOf(c)'
    <3>1. SUFFICES ASSUME stage'[q] \in SecondReads PROVE ReadOf(c)'
        OBVIOUS
    <3>2. ReadOf(c)
        BY <1>1, <2>1, <3>1 DEF Snaps, SecondReads
    <3>3. /\ c.user \in DOMAIN authorizationVersions'
          /\ authorizationVersions[c.user] \in Nat /\ authorizationVersions'[c.user] \in Nat
          /\ authorizationVersions[c.user] <= authorizationVersions'[c.user]
        BY <3>2 DEF ReadOf, AccessGrows, VersionsGrow
    <3> QED BY <3>2, <3>3 DEF ReadOf
  <2> QED BY <1>1, <2>1, <2>2, <2>3 DEF Snaps, Covers, ReadOf, Unnamed, FirstReads, SecondReads
<1>2. CASE Same(q)
    BY <1>1, <1>2 DEF Same
<1>3. CASE Deliver(q) \/ Fail(q)
    BY <1>1, <1>3 DEF Deliver, Fail, FlowType
<1>4. CASE Send(q)
  <2>1. stage'[q] = FirstStep[Kind(q)] /\ context'[q] = Prepared(q)
      BY <1>0, <1>4, SentAs
  <2>2. stage'[q] \in Unnamed
      BY <2>1 DEF Snapping, FirstStep, Unnamed
  <2>3. "scopes" \notin DOMAIN Commanded(q)
    <3>1. "scopes" \notin DOMAIN Command(q).with \cup DOMAIN Command(q).uses
        BY WorkloadsAssumption DEF FlowType, Kind, Command, Asked
    <3> QED BY <3>1 DEF Commanded, Joined
  <2>4. "scopes" \notin DOMAIN context'[q]
      BY <1>0, <2>1, <2>3, PreparedIs DEF Joined
  <2> QED BY <2>2, <2>4 DEF Snaps, Unnamed, FirstReads, SecondReads
<1>5. CASE (SoftwareStep(q) \/ AdminStep(q)) /\ stage'[q] = "done"
    BY <1>1, <1>5, StepsGo DEF Refused
<1>6. CASE (SoftwareStep(q) \/ AdminStep(q)) /\ stage'[q] # "done"
  <2>1. AdminStep(q)
      BY <1>0, <1>6, RouteStep, HandledAre
  <2> QED BY <1>6, <2>1, SnapsGo
<1> QED BY <1>2, <1>3, <1>4, <1>5, <1>6, Turns

\* The answer to a binding is that of its receipt, and stays it.
LEMMA ReceiptStays ==
    ASSUME FlowType, FlowInv, TimedInv, AccessInv, [Next]_vars, AccessGrows,
           NEW q \in Asked, Kind(q) = "bind_tenant_admin", Told(q) => Receipt(context[q]), Told(q)'
    PROVE  Receipt(context[q])'
<1>1. CASE Told(q) /\ context'[q] = context[q]
  <2>1. PICK k \in DOMAIN bindingReceipts : \A f \in Said : context[q][f] = bindingReceipts[k].response[f]
      BY <1>1 DEF Receipt
  <2>2. k \in DOMAIN bindingReceipts' /\ bindingReceipts'[k] = bindingReceipts[k]
      BY DEF AccessGrows, ReceiptsGrow
  <2> QED BY <1>1, <2>1, <2>2 DEF Receipt
<1>2. CASE (SoftwareStep(q) \/ AdminStep(q)) /\ stage'[q] = "answer"
  <2>1. /\ stage[q] \in RouteOf("bind_tenant_admin")
        /\ AdminStep(q) => <<stage[q], "answer">> \in Ways
      BY <1>2, RouteStep
  <2>2. stage[q] \in {"list_tenants", "bind_scope"}
      BY <2>1 DEF RouteOf, Route
  <2>3. SoftwareStep(q)
      BY <1>2, <2>1, <2>2 DEF Ways
  <2>4. stage[q] = "bind_scope"
      BY <1>2, <2>2, <2>3, SoftwareWays
  <2>5. BindScopeStep(q)
      BY <2>3, <2>4, SoftwareWays
  <2>6. \E k \in DOMAIN bindingReceipts' : \A f \in Said : context'[q][f] = bindingReceipts'[k].response[f]
      BY <1>2, <2>5, BindEffect
  <2> QED BY <2>6 DEF Receipt
<1> QED BY <1>1, <1>2, ToldMoves

LEMMA SnapStep ==
    FlowType /\ FlowInv /\ TimedInv /\ AccessInv /\ SnapInv /\ [Next]_vars => AccessInv' /\ SnapInv'
<1> SUFFICES ASSUME FlowType, FlowInv, TimedInv, AccessInv, SnapInv, [Next]_vars
             PROVE  AccessInv' /\ SnapInv'
    OBVIOUS
<1>1. workload' = workload /\ Asked' = Asked /\ \A q \in Asked : Kind(q)' = Kind(q)
    BY StepMoves DEF Asked, Kind, Command
<1>2. AccessInv' /\ AccessGrows
    BY AccessStep
<1>3. \A q \in Asked : Kind(q) \in Snapping => Snaps(q)'
    BY <1>2, SnapsStay DEF SnapInv
<1>4. \A q \in Asked : Kind(q) = "bind_tenant_admin" /\ Told(q)' => Receipt(context[q])'
    BY <1>2, ReceiptStays DEF SnapInv
<1> QED BY <1>1, <1>2, <1>3, <1>4 DEF SnapInv

\* Scope bindings, their receipts and what is read of them are as the invariants say.
THEOREM SnapshotsCorrect == Spec => [](AccessInv /\ SnapInv)
<1>1. Init => AccessInv /\ SnapInv
  <2> SUFFICES ASSUME Init PROVE AccessInv /\ SnapInv
      OBVIOUS
  <2>1. \A q \in Asked : stage[q] = "idle" /\ ~Told(q) /\ DOMAIN context[q] = {}
      BY DEF Init, Asked, Told, Answered, NoResult
  <2>2. /\ DOMAIN scopeBindings = {} /\ DOMAIN authorizationVersions = {} /\ DOMAIN bindingReceipts = {}
      BY DEF Init, AccessInit
  <2>3. AccessInv
      BY <2>2 DEF AccessInv, Fresh
  <2>4. SnapInv
      BY <2>1 DEF SnapInv, Snaps, Unnamed, FirstReads, SecondReads
  <2> QED BY <2>3, <2>4
<1> QED BY <1>1, SnapStep, FlowCorrect, TokensCorrect, PTL DEF Spec

\* A snapshot has every scope that was bound at its version or before and is still
\* there, though the version is read before the bindings.
THEOREM SnapshotsCoverVersions == Spec => []SnapshotCoversVersion
<1>1. FlowInv /\ AccessInv /\ SnapInv => SnapshotCoversVersion
  <2> SUFFICES ASSUME FlowInv, AccessInv, SnapInv, NEW r \in Asked, NEW q \in Asked,
                      Kind(q) = "bind_tenant_admin", Answered(q), Kind(r) \in Snapping,
                      "scopes" \in DOMAIN context[r], context[r].user = outcome[q].value.admin,
                      outcome[q].value.version <= context[r].version,
                      scopeBindings[outcome[q].value.binding].active
               PROVE  outcome[q].value.scope \in context[r].scopes
      BY DEF SnapshotCoversVersion, Snapping
  <2>1. outcome[q].value = context[q]
      BY DEF FlowInv, Route
  <2>2. PICK k \in DOMAIN bindingReceipts : \A f \in Said : context[q][f] = bindingReceipts[k].response[f]
      BY DEF SnapInv, Told, Receipt
  <2>3. PICK a : a = bindingReceipts[k].response
      OBVIOUS
  <2>4. /\ context[q].admin = a.admin /\ context[q].version = a.version
        /\ context[q].binding = a.binding /\ context[q].scope = a.scope
      BY <2>2, <2>3 DEF Said
  <2>5. Covers(context[r])
      BY DEF SnapInv, Snaps
  <2> QED BY <2>1, <2>3, <2>4, <2>5 DEF Covers
<1> QED BY <1>1, FlowCorrect, TokensCorrect, SnapshotsCorrect, PTL
-----------------------------------------------------------------------------
(* Refresh tokens that are used again.                                     *)

\* The token, and the transport, that a refresh was sent with.
Used(q) == Commanded(q).refresh
Via(q) == Commanded(q).transport

\* The token is of a session that was revoked; or there is none such that could still
\* be renewed with it.
Replayed(t) == t \in DOMAIN adminTokens /\ SessionOf(t).revoked
Spoilt(t, transport) ==
    t # None =>
        /\ t \in DOMAIN adminTokens
        /\ adminTokens[t].type = "refresh" /\ SessionOf(t).transport = transport => SessionOf(t).revoked

\* The refresh has renewed the session of its token, which is used up.
Renewed(t, transport) ==
    /\ t \in DOMAIN adminTokens
    /\ adminTokens[t].type = "refresh" /\ adminTokens[t].consumed
    /\ SessionOf(t).transport = transport

\* Why a refresh is refused.
Refusal(answer, t, transport) ==
    \/ answer \in {Error("internal_error"), Error("session_expired"), Error("unavailable")}
    \/ answer = Error("refresh_replayed") /\ Replayed(t)
    \/ answer = Error("session_revoked") /\ (transport # "bearer" => Spoilt(t, transport))

Renews(q) ==
    /\ Told(q) => Renewed(Used(q), Via(q))
    /\ ~Told(q) /\ (stage[q] # "done" \/ outcome[q] # Error("unavailable")) =>
          context[q].refresh = Used(q) /\ context[q].transport = Via(q)
    /\ stage[q] = "session_ended" => Spoilt(Used(q), Via(q))
    /\ stage[q] = "done" /\ ~Answered(q) => Refusal(outcome[q], Used(q), Via(q))

\* The refresh tokens of a browser are revoked with their session only.
FamilyInv ==
    /\ None \notin DOMAIN adminTokens
    /\ \A t \in DOMAIN adminTokens :
          adminTokens[t].type = "refresh" /\ adminTokens[t].revoked /\ SessionOf(t).transport # "bearer"
          => SessionOf(t).revoked

RenewInv ==
    /\ \A q \in Asked : Kind(q) = "refresh" /\ stage[q] # "idle" => Renews(q)
    /\ \A q, r \in Asked : /\ Kind(q) = "refresh" /\ Told(q) /\ Kind(r) = "refresh" /\ Told(r)
                           /\ Used(q) = Used(r)
                           => q = r
    /\ \A q \in Asked : Kind(q) = "logout" /\ outcome[q] = Error("refresh_replayed") =>
          Replayed(context[q].refresh)
    /\ \A q \in Asked : stage[q] # "done" => outcome[q] = NoResult

\* What a request was sent with is known as long as it is under way, and after.
LEMMA CommandedStays ==
    ASSUME FlowType, FlowInv, [Next]_vars, NEW q \in Asked, stage[q] # "idle" \/ Send(q)
    PROVE  Commanded(q)' = Commanded(q)
<1>1. Command(q)' = Command(q)
    BY StepMoves DEF Command
<1>2. PICK uses, with : uses = Command(q).uses /\ with = Command(q).with
    OBVIOUS
<1>3. \A f \in DOMAIN uses : outcome'[uses[f]] = outcome[uses[f]]
    BY <1>2, BuildsOnAnswers, AnsweredStays DEF Same
<1>4. [f \in DOMAIN uses |-> outcome'[uses[f]].value[f]] = [f \in DOMAIN uses |-> outcome[uses[f]].value[f]]
    BY <1>3
<1>5. Commanded(q) = Joined([f \in DOMAIN uses |-> outcome[uses[f]].value[f]], with)
    BY <1>2 DEF Commanded
<1>6. Commanded(q)' = Joined([f \in DOMAIN uses |-> outcome'[uses[f]].value[f]], with)
    BY <1>1, <1>2 DEF Commanded
<1> QED BY <1>4, <1>5, <1>6

\* The tokens of a browser are not those of an ended client.
LEMMA FamilyStep ==
    FlowType /\ FlowInv /\ TimedInv /\ TokenInv /\ ServedInv /\ FamilyInv /\ [Next]_vars => FamilyInv'
<1> SUFFICES ASSUME FlowType, FlowInv, TimedInv, TokenInv, ServedInv, FamilyInv, [Next]_vars
             PROVE  FamilyInv'
    OBVIOUS
<1>1. /\ TokensGrow
      /\ Sound(adminSessions', adminTokens')
    BY TokensStaySound
<1>2. CASE UNCHANGED <<adminSessions, adminTokens>>
    BY <1>2 DEF FamilyInv, SessionOf
<1>3. ASSUME NEW t \in DOMAIN adminTokens, NEW s, s = adminTokens[t].session
      PROVE  /\ s \in DOMAIN adminSessions /\ TokenTyped(adminTokens[t])
             /\ adminTokens'[t].session = s /\ adminTokens'[t].type = adminTokens[t].type
             /\ adminSessions'[s].transport = adminSessions[s].transport
             /\ adminSessions[s].revoked => adminSessions'[s].revoked
             /\ (adminTokens[t].type = "refresh" /\ adminTokens[t].revoked
                 /\ adminSessions[s].transport # "bearer") => adminSessions[s].revoked
  <2>1. s \in DOMAIN adminSessions /\ TokenTyped(adminTokens[t])
      BY <1>3 DEF TokenInv, Sound
  <2> QED BY <1>1, <1>3, <2>1 DEF TokensGrow, TokenGrows, SessionGrows, FamilyInv, SessionOf
<1>4. ASSUME DOMAIN adminTokens' = DOMAIN adminTokens,
             \A t \in DOMAIN adminTokens :
                adminTokens'[t].revoked /\ ~adminTokens[t].revoked =>
                   \/ adminSessions'[adminTokens[t].session].revoked
                   \/ adminSessions[adminTokens[t].session].transport = "bearer"
      PROVE  FamilyInv'
    BY <1>1, <1>3, <1>4 DEF FamilyInv, SessionOf
<1>5. ASSUME NEW S, Revoking(S, TokensOf(S)) PROVE FamilyInv'
  <2>1. adminSessions' = RevokedSessions(S) /\ adminTokens' = RevokedTokens(TokensOf(S))
      BY <1>5 DEF Revoking
  <2>2. DOMAIN adminTokens' = DOMAIN adminTokens
      BY <2>1 DEF RevokedTokens
  <2>3. ASSUME NEW t \in DOMAIN adminTokens, adminTokens'[t].revoked, ~adminTokens[t].revoked
        PROVE  adminSessions'[adminTokens[t].session].revoked
    <3>1. PICK s : s = adminTokens[t].session
        OBVIOUS
    <3>2. s \in DOMAIN adminSessions /\ SessionTyped(adminSessions[s])
        BY <1>3, <3>1 DEF TokenInv, Sound
    <3>3. s \in S
        BY <2>1, <2>3, <3>1 DEF RevokedTokens, TokensOf
    <3> QED BY <2>1, <3>1, <3>2, <3>3 DEF RevokedSessions, SessionTyped
  <2> QED BY <1>4, <2>2, <2>3
<1>6. ASSUME NEW r, EndClientStep(r) PROVE FamilyInv'
  <2>1. PICK c : c = context[r]
      OBVIOUS
  <2>2. adminTokens' = RevokedTokens(TokensOfClient(c))
      BY <1>6, <2>1 DEF EndClientStep, DisableControlledClient, RevokeControlledClientCredential
  <2>3. c.client # None
    <3>1. r \in Asked /\ stage[r] = "end_client"
        BY <1>6 DEF EndClientStep, OnIdentity, At
    <3>2. Ending(c)
        BY <2>1, <3>1 DEF TokenInv
    <3> QED BY <3>2 DEF Ending, EndedExists, TokenInv, ClientsSound
  <2>4. DOMAIN adminTokens' = DOMAIN adminTokens
      BY <2>2 DEF RevokedTokens
  <2>5. ASSUME NEW t \in DOMAIN adminTokens, adminTokens'[t].revoked, ~adminTokens[t].revoked
        PROVE  adminSessions[adminTokens[t].session].transport = "bearer"
    <3>1. PICK s : s = adminTokens[t].session
        OBVIOUS
    <3>2. s \in SessionsOfClient(c.client, c.credential)
        BY <2>2, <2>5, <3>1 DEF RevokedTokens, TokensOfClient, TokensOf
    <3>3. s \in DOMAIN adminSessions /\ adminSessions[s].client = c.client
        BY <3>2 DEF SessionsOfClient
    <3> QED BY <2>3, <3>1, <3>3 DEF ServedInv, SessionMade
  <2> QED BY <1>4, <2>4, <2>5
<1>7. ASSUME NEW f, NEW r, NEW s, NEW n, NEW a, NEW b,
             adminTokens' = Joined(f, TokenPair(r, s, n, a, b)),
             DOMAIN f = DOMAIN adminTokens,
             \A t \in DOMAIN adminTokens : adminTokens[t].type = "refresh" => f[t].revoked = adminTokens[t].revoked
      PROVE  FamilyInv'
  <2>1. /\ DOMAIN adminTokens' = DOMAIN adminTokens \cup {AccessToken(r), RefreshToken(r)}
        /\ \A t \in DOMAIN adminTokens : adminTokens'[t] = f[t]
        /\ \A t \in DOMAIN adminTokens' \ DOMAIN adminTokens : adminTokens'[t] = TokenPair(r, s, n, a, b)[t]
      BY <1>7 DEF Joined, TokenPair
  <2>2. \A t \in {AccessToken(r), RefreshToken(r)} : t # None /\ ~TokenPair(r, s, n, a, b)[t].revoked
      BY DEF TokenPair, NewToken, AccessToken, RefreshToken, None
  <2>3. None \notin DOMAIN adminTokens'
      BY <2>1, <2>2 DEF FamilyInv
  <2>4. ASSUME NEW t \in DOMAIN adminTokens', adminTokens'[t].type = "refresh", adminTokens'[t].revoked,
               adminSessions'[adminTokens'[t].session].transport # "bearer"
        PROVE  adminSessions'[adminTokens'[t].session].revoked
    <3>1. t \in DOMAIN adminTokens
        BY <2>1, <2>2, <2>4
    <3>2. adminTokens[t].type = "refresh" /\ adminTokens[t].revoked
        BY <1>3, <1>7, <2>1, <2>4, <3>1
    <3> QED BY <1>3, <2>4, <3>1, <3>2
  <2> QED BY <2>3, <2>4 DEF FamilyInv, SessionOf
<1>8. ASSUME NEW r, Rotating(r) PROVE FamilyInv'
  <2>1. PICK t, s, n, a, b : adminTokens' = Joined(SpentTokens(t), TokenPair(r, s, n, a, b))
      BY <1>8 DEF Rotating, RotatesTokens
  <2>2. DOMAIN SpentTokens(t) = DOMAIN adminTokens
      BY DEF SpentTokens
  <2>3. ASSUME NEW u \in DOMAIN adminTokens, adminTokens[u].type = "refresh"
        PROVE  SpentTokens(t)[u].revoked = adminTokens[u].revoked
    <3>1. u \notin LiveAccessTokens(adminTokens[t].session)
        BY <2>3 DEF LiveAccessTokens
    <3>2. TokenTyped(adminTokens[u])
        BY <1>3
    <3> QED BY <3>1, <3>2 DEF SpentTokens, TokenTyped
  <2> QED BY <1>7, <2>1, <2>2, <2>3
<1>9. ASSUME NEW r, CreateAdminSessionStep(r) PROVE FamilyInv'
  <2>1. PICK s, n, a, b : adminTokens' = Joined(adminTokens, TokenPair(r, s, n, a, b))
      BY <1>9 DEF CreateAdminSessionStep, CreateAdminSession
  <2> QED BY <1>7, <2>1
<1> QED BY <1>2, <1>5, <1>6, <1>8, <1>9, IdentityWriters, TokenWriters DEF identityRows
\* What is known of tokens stays so.
LEMMA TokensKnownStay ==
    ASSUME TokenInv, TokensGrow, NEW t, NEW transport
    PROVE  /\ Replayed(t) => Replayed(t)'
           /\ Spoilt(t, transport) => Spoilt(t, transport)'
           /\ Renewed(t, transport) => Renewed(t, transport)'
<1>1. CASE t \notin DOMAIN adminTokens
    BY <1>1 DEF Replayed, Spoilt, Renewed
<1>2. CASE t \in DOMAIN adminTokens
  <2>1. PICK s : s = adminTokens[t].session
      OBVIOUS
  <2>2. s \in DOMAIN adminSessions
      BY <1>2, <2>1 DEF TokenInv, Sound
  <2>3. /\ t \in DOMAIN adminTokens'
        /\ adminTokens'[t].session = s /\ adminTokens'[t].type = adminTokens[t].type
        /\ adminTokens[t].consumed => adminTokens'[t].consumed
        /\ adminSessions'[s].transport = adminSessions[s].transport
        /\ adminSessions[s].revoked => adminSessions'[s].revoked
      BY <1>2, <2>1, <2>2 DEF TokensGrow, TokenGrows, SessionGrows
  <2> QED BY <1>2, <2>1, <2>3 DEF Replayed, Spoilt, Renewed, SessionOf
<1> QED BY <1>1, <1>2

LEMMA RefusalStays ==
    ASSUME TokenInv, TokensGrow, NEW answer, NEW t, NEW transport, Refusal(answer, t, transport)
    PROVE  Refusal(answer, t, transport)'
BY TokensKnownStay DEF Refusal

\* What revokes a session leaves its tokens of no use.
LEMMA FamilyReplayed ==
    ASSUME TokenInv, NEW r, NEW s, NEW type, NEW at, RevokeFamily(r, s, type, at),
           NEW t \in DOMAIN adminTokens, s = adminTokens[t].session
    PROVE  Replayed(t)'
<1>1. s \in DOMAIN adminSessions /\ SessionTyped(adminSessions[s]) /\ TokenTyped(adminTokens[t])
    BY DEF TokenInv, Sound
<1>2. adminSessions' = RevokedSessions({s}) /\ adminTokens' = RevokedTokens(TokensOf({s}))
    BY DEF RevokeFamily
<1>3. s \in DOMAIN adminSessions' /\ adminSessions'[s].revoked
    BY <1>1, <1>2 DEF RevokedSessions, SessionTyped
<1>4. t \in DOMAIN adminTokens' /\ adminTokens'[t].session = s
    BY <1>1, <1>2 DEF RevokedTokens, TokenTyped
<1> QED BY <1>3, <1>4 DEF Replayed, SessionOf

\* Why a token is refused by the inspection and by the rotation.
LEMMA TokenRefused ==
    ASSUME FamilyInv, NEW c, NEW at, c.refresh \in {None} \cup DOMAIN adminTokens
    PROVE  /\ RefreshBindingRefusal(c, at) # Accepted =>
                 Refusal(Error(RefreshBindingRefusal(c, at)), c.refresh, c.transport)
           /\ RefreshBindingRefusal(c, at) = Accepted =>
                 /\ c.refresh \in DOMAIN adminTokens
                 /\ adminTokens[c.refresh].type = "refresh"
                 /\ SessionOf(c.refresh).transport = c.transport
                 /\ RefreshRefusal(c.refresh, at) # Accepted =>
                       Refusal(Error(RefreshRefusal(c.refresh, at)), c.refresh, c.transport)
<1> USE DEF Refusal
<1>1. PICK t : t = c.refresh
    OBVIOUS
<1>2. RefreshBindingRefusal(c, at) \in {"session_expired", "session_revoked", Accepted}
    BY DEF RefreshBindingRefusal
<1>3. RefreshBindingRefusal(c, at) = "session_revoked" =>
         (c.transport # "bearer" => Spoilt(c.refresh, c.transport))
    BY DEF RefreshBindingRefusal, Spoilt, Known, Accepted
<1>4. RefreshBindingRefusal(c, at) = Accepted =>
         /\ c.refresh \in DOMAIN adminTokens
         /\ adminTokens[c.refresh].type = "refresh"
         /\ SessionOf(c.refresh).transport = c.transport
    BY DEF RefreshBindingRefusal, Known, Accepted
<1>5. RefreshRefusal(t, at) \in {"session_expired", "session_revoked", Accepted}
    BY DEF RefreshRefusal
<1>6. RefreshRefusal(t, at) = "session_revoked" => SessionOf(t).revoked \/ adminTokens[t].revoked
    BY DEF RefreshRefusal, Accepted
<1>7. RefreshBindingRefusal(c, at) = Accepted /\ RefreshRefusal(t, at) = "session_revoked" =>
         (c.transport # "bearer" => Spoilt(c.refresh, c.transport))
    BY <1>1, <1>4, <1>6 DEF Spoilt, FamilyInv
<1> QED BY <1>1, <1>2, <1>3, <1>4, <1>5, <1>7

\* Why a refresh is refused, at each of its steps.
LEMMA RefreshRefused ==
    ASSUME FlowType, FlowInv, TokenInv, IssuedInv, FamilyInv, RenewInv,
           NEW q \in Asked, Kind(q) = "refresh", AdminStep(q), stage'[q] = "done",
           NEW t, t = context[q].refresh, NEW transport, transport = context[q].transport,
           NEW answer, answer = outcome'[q]
    PROVE  Refusal(answer, t, transport)'
<1>0. stage[q] \notin {"idle", "done", "answer"} /\ stage[q] \in RouteOf("refresh")
    BY StepsBegin DEF FlowInv, OnRoute
<1>1. answer = result'[q] /\ result'[q].kind # "ok"
    BY StepsGo DEF Refused, FlowType
<1>2. \A e : Refuses(q, e) => answer = Error(e)
    BY <1>1 DEF Refuses, FlowType
<1>3. \A v : ~Returns(q, v)
    BY <1>1 DEF Returns, Answer, FlowType
<1>4. t \in {None} \cup DOMAIN adminTokens
    BY <1>0 DEF IssuedInv, Shows
<1>5. ASSUME UNCHANGED <<adminSessions, adminTokens>>, Refusal(answer, t, transport)
      PROVE  Refusal(answer, t, transport)'
    BY <1>5 DEF Refusal, Replayed, Spoilt, SessionOf
<1>6. CASE DeadlockStep(q)
    BY <1>2, <1>6 DEF DeadlockStep, GivesUp, Refusal
<1>7. ASSUME NEW at, LET c == context[q] IN
                 RefreshBindingRefusal(c, at) # Accepted /\ Refuses(q, RefreshBindingRefusal(c, at))
      PROVE  Refusal(answer, t, transport)
  <2>1. PICK c : c = context[q]
      OBVIOUS
  <2>2. /\ RefreshBindingRefusal(c, at) # Accepted /\ Refuses(q, RefreshBindingRefusal(c, at))
        /\ c.refresh = t /\ c.transport = transport
      BY <1>7, <2>1
  <2>3. Refusal(Error(RefreshBindingRefusal(c, at)), c.refresh, c.transport)
      BY <1>4, <2>2, TokenRefused
  <2> QED BY <1>2, <2>2, <2>3
<1>8. ASSUME NEW at, LET c == context[q] IN
                 /\ RefreshBindingRefusal(c, at) = Accepted /\ RefreshRefusal(t, at) # Accepted
                 /\ Refuses(q, RefreshRefusal(t, at))
      PROVE  Refusal(answer, t, transport)
  <2>1. PICK c : c = context[q]
      OBVIOUS
  <2>2. /\ RefreshBindingRefusal(c, at) = Accepted /\ RefreshRefusal(c.refresh, at) # Accepted
        /\ Refuses(q, RefreshRefusal(c.refresh, at))
        /\ c.refresh = t /\ c.transport = transport
      BY <1>8, <2>1
  <2>3. Refusal(Error(RefreshRefusal(c.refresh, at)), c.refresh, c.transport)
      BY <1>4, <2>2, TokenRefused
  <2> QED BY <1>2, <2>2, <2>3
<1>9. CASE ~DeadlockStep(q) /\ stage[q] = "resolve_client"
  <2>1. ResolveClientStep(q)
      BY <1>9, StepAt
  <2>2. transport = "bearer" /\ Refuses(q, "session_revoked")
      BY <1>3, <2>1 DEF ResolveClientStep
  <2> QED BY <1>2, <2>2 DEF Refusal
<1>10. CASE ~DeadlockStep(q) /\ stage[q] = "inspect_refresh"
  <2>1. InspectRefresh(q, context[q], context[q].at)
      BY <1>10, StepAt DEF InspectStep
  <2>2. UNCHANGED <<adminSessions, adminTokens>>
      BY <2>1 DEF InspectRefresh, Reads, identityVars, identityRows
  <2>3. PICK at : at = context[q].at
      OBVIOUS
  <2>4. CASE RefreshBindingRefusal(context[q], at) # Accepted
      BY <1>5, <1>7, <2>1, <2>2, <2>3, <2>4 DEF InspectRefresh
  <2>5. CASE RefreshBindingRefusal(context[q], at) = Accepted
      BY <1>3, <1>5, <1>8, <2>1, <2>2, <2>3, <2>5 DEF InspectRefresh
  <2> QED BY <2>4, <2>5
<1>11. stage[q] \notin {"refresh_version", "refresh_bindings"}
  <2>1. ~DeadlockStep(q) => ~ (stage[q] \in {"refresh_version", "refresh_bindings"})
    <3>1. ASSUME NEW next, next # "done", NEW kept, Goes(q, next, kept) PROVE FALSE
        BY <3>1 DEF Goes, FlowType
    <3> QED BY <3>1, StepAt DEF RefreshVersionStep, RefreshBindingsStep, ReadsVersion, ReadsBindings
  <2>2. ~DeadlockStep(q) \/ stage[q] \notin {"refresh_version", "refresh_bindings"}
    <3>1. DeadlockStep(q) => WantedRows(q) # {}
        BY DEF DeadlockStep, Deadlocked, WaitingFor, Holders
    <3> QED BY <3>1 DEF WantedRows
  <2> QED BY <2>1, <2>2
<1>12. CASE ~DeadlockStep(q) /\ stage[q] \in {"lock_token", "lock_session"}
  <2>1. \E rows, kept : LocksRows(q, rows, kept)
      BY <1>12, StepAt DEF LockTokenStep, LockSessionStep
  <2> QED BY <1>3, <2>1 DEF LocksRows
<1>13. CASE ~DeadlockStep(q) /\ stage[q] = "session_ended"
  <2>1. Refuses(q, "session_revoked") /\ UNCHANGED <<adminSessions, adminTokens>>
      BY <1>13, StepAt DEF SessionEndedStep, Reads, identityVars, identityRows
  <2>2. Spoilt(Used(q), Via(q)) /\ ~Told(q)
    <3>1. ~Told(q)
        BY <1>13 DEF Told, FlowInv
    <3> QED BY <1>13, <3>1 DEF RenewInv, Renews
  <2>3. t = Used(q) /\ transport = Via(q)
      BY <1>13, <2>2 DEF RenewInv, Renews
  <2> QED BY <1>2, <1>5, <2>1, <2>2, <2>3 DEF Refusal
<1>14. CASE ~DeadlockStep(q) /\ stage[q] = "locked" /\ RotateRefreshStep(q)
  <2>1. PICK c, at : c = context[q] /\ at = context[q].at
      OBVIOUS
  <2>2. RotateRefresh(q, c, at, RenewedCsrf(q)) /\ c.refresh = t /\ c.transport = transport
      BY <1>14, <2>1 DEF RotateRefreshStep
  <2>3. CASE RefreshBindingRefusal(c, at) # Accepted
    <3>1. GivesUp(q, RefreshBindingRefusal(c, at))
        BY <2>2, <2>3 DEF RotateRefresh
    <3> QED BY <1>5, <1>7, <2>1, <2>3, <3>1 DEF GivesUp, identityRows
  <2>4. CASE RefreshBindingRefusal(c, at) = Accepted /\ adminTokens[t].consumed
    <3>1. PICK s : s = adminTokens[t].session
        OBVIOUS
    <3>2. RevokesReplayed(q, s, at) /\ Refuses(q, "refresh_replayed")
        BY <2>2, <2>4, <3>1 DEF RotateRefresh
    <3>3. t \in DOMAIN adminTokens
        BY <1>4, <2>2, <2>4, TokenRefused
    <3>5. Replayed(t)'
      <4>1. CASE adminSessions[s].revoked
          BY <3>1, <3>2, <3>3, <4>1 DEF RevokesReplayed, identityRows, Replayed, SessionOf
      <4>2. CASE ~adminSessions[s].revoked
        <5>1. RevokeFamily(q, s, "refresh_replayed", at)
            BY <3>2, <4>2 DEF RevokesReplayed
        <5> QED BY <3>1, <3>3, <5>1, FamilyReplayed
      <4> QED BY <4>1, <4>2
    <3> QED BY <1>2, <3>2, <3>5 DEF Refusal
  <2>5. CASE RefreshBindingRefusal(c, at) = Accepted /\ ~adminTokens[t].consumed
    <3>1. RefreshRefusal(t, at) # Accepted
        BY <1>3, <2>2, <2>5 DEF RotateRefresh, RotatesTokens
    <3>2. GivesUp(q, RefreshRefusal(t, at))
        BY <2>2, <2>5, <3>1 DEF RotateRefresh
    <3> QED BY <1>5, <1>8, <2>1, <2>5, <3>1, <3>2 DEF GivesUp, identityRows
  <2> QED BY <2>3, <2>4, <2>5
<1>15. CASE ~DeadlockStep(q) /\ stage[q] = "locked" /\ RevokeScopelessStep(q)
  <2>1. RevokeByToken(q, t, transport, "refresh", context[q].at)
      BY <1>15 DEF RevokeScopelessStep
  <2>2. /\ t \in DOMAIN adminTokens
        /\ SessionOf(t).transport # transport \/ adminTokens[t].type # "refresh"
        /\ GivesUp(q, "session_revoked")
      BY <1>3, <2>1 DEF RevokeByToken, Known
  <2> QED BY <1>2, <1>5, <2>2 DEF GivesUp, identityRows, Refusal, Spoilt
<1> QED
  <2>1. stage[q] \in {"resolve_client", "inspect_refresh", "refresh_version", "refresh_bindings",
                      "session_ended", "lock_token", "lock_session", "locked"}
      BY <1>0 DEF RouteOf, Route, Locking
  <2>2. ~DeadlockStep(q) /\ stage[q] = "locked" => RotateRefreshStep(q) \/ RevokeScopelessStep(q)
      BY StepAt
  <2> QED BY <1>6, <1>9, <1>10, <1>11, <1>12, <1>13, <1>14, <1>15, <2>1, <2>2
\* What a rotation does to its token.
LEMMA RotationUses ==
    ASSUME FlowType, TokenInv, TokensGrow, NEW q \in Asked, Rotating(q), NEW t, t = context[q].refresh,
           NEW transport, transport = context[q].transport
    PROVE  Renewed(t, transport)' /\ ~adminTokens[t].consumed
<1>1. PICK s : s = adminTokens[t].session
    OBVIOUS
<1>2. /\ t \in DOMAIN adminTokens /\ adminTokens[t].type = "refresh" /\ ~adminTokens[t].consumed
      /\ adminSessions[s].transport = transport
    BY <1>1 DEF Rotating, RefreshBindingRefusal, Known, SessionOf, Accepted
<1>3. s \in DOMAIN adminSessions /\ TokenTyped(adminTokens[t])
    BY <1>1, <1>2 DEF TokenInv, Sound
<1>4. PICK r, n, a, b : adminTokens' = Joined(SpentTokens(t), TokenPair(r, s, n, a, b))
    BY <1>1 DEF Rotating, RotatesTokens
<1>5. t \in DOMAIN SpentTokens(t) /\ SpentTokens(t)[t] = [adminTokens[t] EXCEPT !.consumed = Consumed(t)]
    BY <1>2 DEF SpentTokens
<1>6. adminTokens'[t].consumed
  <2>1. adminTokens'[t] = SpentTokens(t)[t]
      BY <1>4, <1>5 DEF Joined
  <2> QED BY <1>2, <1>3, <1>5, <2>1 DEF Consumed, TokenTyped
<1>7. /\ t \in DOMAIN adminTokens' /\ adminTokens'[t].session = s /\ adminTokens'[t].type = "refresh"
      /\ adminSessions'[s].transport = transport
    BY <1>1, <1>2, <1>3 DEF TokensGrow, TokenGrows, SessionGrows
<1> QED BY <1>2, <1>6, <1>7 DEF Renewed, SessionOf

\* The answer of a refresh was that of the rotation that used its token up.
LEMMA RenewedStays ==
    ASSUME FlowType, FlowInv, TimedInv, TokenInv, RenewInv, [Next]_vars, TokensGrow,
           NEW q \in Asked, Kind(q) = "refresh", Told(q)',
           NEW t, t = Used(q), NEW transport, transport = Via(q)
    PROVE  /\ Renewed(t, transport)'
           /\ \/ Told(q) /\ adminTokens[t].consumed
              \/ Rotating(q) /\ ~adminTokens[t].consumed
<1>1. CASE Told(q) /\ context'[q] = context[q]
  <2>1. stage[q] # "idle"
      BY <1>1 DEF Told, FlowInv
  <2>2. Renewed(t, transport)
      BY <1>1, <2>1 DEF RenewInv, Renews
  <2> QED BY <1>1, <2>2, TokensKnownStay DEF Renewed
<1>2. CASE Rotating(q)
  <2>1. stage[q] = "locked" /\ ~Told(q)
      BY <1>2 DEF Rotating, Told, FlowInv
  <2>2. context[q].refresh = t /\ context[q].transport = transport
      BY <2>1 DEF RenewInv, Renews
  <2> QED BY <1>2, <2>2, RotationUses
<1> QED BY <1>1, <1>2, RefreshIsTold

\* A refresh without a scope ends the session of its token.
LEMMA ScopelessSpoils ==
    ASSUME FlowType, TokenInv, IssuedInv, NEW q \in Asked, Kind(q) = "refresh", stage[q] = "locked",
           RevokeScopelessStep(q), stage'[q] # "done",
           NEW t, t = context[q].refresh, NEW transport, transport = context[q].transport
    PROVE  Spoilt(t, transport)'
<1>1. /\ RevokeByToken(q, t, transport, "refresh", context[q].at)
      /\ \A e : ~Refuses(q, e)
    BY GoesOnWith, NotRefused DEF RevokeScopelessStep
<1>2. t \in {None} \cup DOMAIN adminTokens
    BY DEF IssuedInv, Shows
<1>3. CASE t \in DOMAIN adminTokens
  <2>1. PICK s : s = adminTokens[t].session
      OBVIOUS
  <2>3. CASE adminSessions[s].revoked
      BY <1>1, <1>3, <2>1, <2>3 DEF RevokeByToken, GivesUp, Known, SessionOf, identityRows, Spoilt
  <2>4. CASE ~adminSessions[s].revoked
    <3>1. RevokeFamily(q, s, "session_revoked", context[q].at)
        BY <1>1, <1>3, <2>1, <2>4 DEF RevokeByToken, GivesUp, Known, SessionOf
    <3> QED BY <1>3, <2>1, <3>1, FamilyReplayed DEF Replayed, Spoilt
  <2> QED BY <2>3, <2>4
<1> QED BY <1>2, <1>3 DEF Spoilt
\* What is known of a refresh stays so.
LEMMA RenewsStay ==
    ASSUME FlowType, FlowInv, TimedInv, HasInv, TokenInv, IssuedInv, FamilyInv, RenewInv, [Next]_vars,
           TokensGrow, NEW q \in Asked, Kind(q) = "refresh", stage'[q] # "idle"
    PROVE  Renews(q)'
<1>0. /\ Kind(q) \in Handled /\ Kind(q) \in Timed
      /\ Fields(Kind(q)) = {"refresh", "transport"}
    BY DEF Handled, Timed, Fields, Enders
<1>1. PICK t, transport : t = Used(q) /\ transport = Via(q)
    OBVIOUS
<1>2. stage[q] # "idle" \/ Send(q)
    BY HasStays
<1>3. Used(q)' = t /\ Via(q)' = transport
    BY <1>1, <1>2, CommandedStays DEF Used, Via
<1>4. ASSUME ~Send(q)
      PROVE  /\ stage[q] # "idle" /\ Renews(q)
             /\ "refresh" \in DOMAIN context[q] /\ "transport" \in DOMAIN context[q]
    BY <1>0, <1>2, <1>4 DEF RenewInv, HasInv
<1>5. CASE Send(q)
  <2>0. stage'[q] = "resolve_client" /\ context'[q] = Prepared(q)
      BY <1>0, <1>5, SentAs DEF FirstStep
  <2>4. outcome'[q] \in {NoResult, Error("invalid_request")}
      BY <1>5 DEF Send, FlowType
  <2>1. /\ stage'[q] = "resolve_client" /\ context'[q] = Prepared(q)
        /\ ~Answered(q)'
      BY <2>0, <2>4 DEF Answered, NoResult, Error
  <2>2. Prepared(q) = Joined([at |-> now], Commanded(q)) /\ {"refresh", "transport"} \subseteq DOMAIN Prepared(q)
      BY <1>0, CommandHas, PreparedIs
  <2>3. context'[q].refresh = t /\ context'[q].transport = transport
      BY <1>1, <2>1, <2>2 DEF Joined, Used, Via
  <2> QED BY <1>3, <2>1, <2>3 DEF Renews, Told
<1>6. CASE Same(q)
  <2>1. Renews(q)
      BY <1>2, <1>4, <1>6 DEF Same, Send, FlowType
  <2>2. PICK answer : answer = outcome[q]
      OBVIOUS
  <2>3. Told(q)' <=> Told(q)
      BY <1>6 DEF Same, Told, Answered
  <2>4. Told(q)' => Renewed(t, transport)'
      BY <1>1, <2>1, <2>3, TokensKnownStay DEF Renews
  <2>5. stage'[q] = "session_ended" => Spoilt(t, transport)'
      BY <1>1, <1>6, <2>1, TokensKnownStay DEF Renews, Same
  <2>6. stage'[q] = "done" /\ ~Answered(q)' => Refusal(answer, t, transport)'
      BY <1>1, <1>6, <2>1, <2>2, RefusalStays DEF Renews, Same, Answered
  <2>7. ~Told(q)' /\ (stage'[q] # "done" \/ outcome'[q] # Error("unavailable")) =>
           context'[q].refresh = t /\ context'[q].transport = transport
      BY <1>1, <1>6, <2>1, <2>3 DEF Renews, Same
  <2>8. outcome'[q] = answer
      BY <1>6, <2>2 DEF Same
  <2> QED BY <1>3, <2>4, <2>5, <2>6, <2>7, <2>8 DEF Renews
<1>7. Told(q)' => Renewed(t, transport)'
    BY <1>1, RenewedStays
<1>8. CASE Deliver(q)
  <2>1. stage'[q] = "done" /\ Answered(q)'
      BY <1>8 DEF Deliver, Shown, Answer, Answered, FlowType
  <2> QED BY <1>3, <1>7, <2>1 DEF Renews, Told
<1>9. CASE Fail(q)
  <2>1. stage'[q] = "done" /\ outcome'[q] = Error("unavailable")
      BY <1>9 DEF Fail, FlowType
  <2>2. Refusal(outcome[q], t, transport)'
      BY <2>1 DEF Refusal
  <2> QED BY <1>3, <1>7, <2>1, <2>2 DEF Renews
<1>10. ASSUME SoftwareStep(q) \/ AdminStep(q)
       PROVE  /\ ~Send(q) /\ ~Told(q) /\ stage[q] # "done"
              /\ context[q].refresh = t /\ context[q].transport = transport
  <2>1. stage[q] \notin {"idle", "done", "answer"}
      BY <1>10, StepsBegin
  <2>2. ~Send(q) /\ ~Told(q)
      BY <2>1 DEF Send, Told, FlowInv
  <2> QED BY <1>1, <1>4, <2>1, <2>2 DEF Renews
<1>11. CASE (SoftwareStep(q) \/ AdminStep(q)) /\ stage'[q] = "done"
  <2>1. Refused(q)
      BY <1>11, StepsGo
  <2>2. context'[q] = context[q]
      BY <2>1 DEF Refused
  <2>3. PICK answer : answer = outcome'[q]
      OBVIOUS
  <2>4. AdminStep(q)
    <3>1. stage[q] \in RouteOf("refresh")
        BY <1>11, StepsBegin DEF FlowInv, OnRoute
    <3> QED BY <1>11, <3>1, SoftwareWays DEF SoftwareStages, RouteOf, Route, Locking
  <2>5. Refusal(answer, t, transport)'
      BY <1>10, <1>11, <2>3, <2>4, RefreshRefused
  <2> QED BY <1>3, <1>7, <1>10, <1>11, <2>2, <2>3, <2>5 DEF Renews
<1>12. CASE AdminStep(q) /\ stage'[q] # "done"
  <2>0. <<stage[q], stage'[q]>> \in Ways /\ stage[q] \in RouteOf("refresh")
      BY <1>12, RouteStep
  <2>1. CASE stage[q] # "locked"
    <3>1. "refresh" \notin Writes(stage[q]) /\ "transport" \notin Writes(stage[q])
        BY <2>0, <2>1 DEF Writes, RouteOf, Route, Locking
    <3>2. Keeps(q, "refresh") /\ Keeps(q, "transport")
        BY <1>12, <3>1, AdminKeeps
    <3>3. stage'[q] # "session_ended"
        BY <2>0, <2>1 DEF Ways, RouteOf, Route, Locking
    <3> QED BY <1>3, <1>4, <1>7, <1>10, <1>12, <3>2, <3>3 DEF Renews, Keeps
  <2>2. CASE stage[q] = "locked"
    <3>1. CASE RotateRefreshStep(q)
      <4>1. stage'[q] = "answer"
          BY <1>12, <3>1, GoesOnWith DEF RotateRefreshStep
      <4> QED BY <1>3, <1>7, <4>1 DEF Renews, Told
    <3>2. CASE RevokeScopelessStep(q)
      <4>1. Spoilt(t, transport)'
          BY <1>10, <1>12, <2>2, <3>2, ScopelessSpoils
      <4>2. Goes(q, "session_ended", << >>) /\ stage'[q] = "session_ended"
          BY <1>12, <3>2, GoesOnWith DEF RevokeScopelessStep, Continues
      <4>3. Keeps(q, "refresh") /\ Keeps(q, "transport")
          BY <4>2, GoesKeeps, NothingKept
      <4> QED BY <1>3, <1>4, <1>7, <1>10, <1>12, <4>1, <4>2, <4>3 DEF Renews, Keeps
    <3> QED BY <1>12, <2>2, <3>1, <3>2, StepAt
  <2> QED BY <2>1, <2>2
<1>13. SoftwareStep(q) /\ stage'[q] # "done" => FALSE
    BY <1>0, RouteStep, HandledAre
<1> QED BY <1>5, <1>6, <1>8, <1>9, <1>11, <1>12, <1>13, Turns

\* No two refreshes renew a session with the same token.
LEMMA OneRenewal ==
    ASSUME FlowType, FlowInv, TimedInv, TokenInv, RenewInv, [Next]_vars, TokensGrow,
           NEW q \in Asked, Kind(q) = "refresh", Told(q)',
           NEW r \in Asked, Kind(r) = "refresh", Told(r)', (Used(q) = Used(r))'
    PROVE  q = r
<1>1. ASSUME NEW p \in Asked, Kind(p) = "refresh", Told(p)'
      PROVE  /\ \/ Told(p) /\ adminTokens[Used(p)].consumed
                \/ Rotating(p) /\ ~adminTokens[Used(p)].consumed
             /\ Used(p)' = Used(p)
  <2>1. \/ Told(p) /\ adminTokens[Used(p)].consumed
        \/ Rotating(p) /\ ~adminTokens[Used(p)].consumed
      BY <1>1, RenewedStays
  <2>2. stage[p] # "idle"
      BY <1>1, <2>1 DEF Told, FlowInv, Rotating
  <2> QED BY <1>1, <2>1, <2>2, CommandedStays DEF Used
<1>2. Used(q) = Used(r)
    BY <1>1
<1>3. CASE Told(q) /\ Told(r)
    BY <1>2, <1>3 DEF RenewInv
<1>4. CASE Rotating(q) /\ Rotating(r)
  <2>1. ASSUME NEW p \in Asked, Rotating(p), Told(p)', NEW o \in Asked, o # p, Rotating(o), Told(o)'
        PROVE  FALSE
    <3>1. PICK next, kept : Continues(p, next, kept)
        BY <2>1 DEF Rotating
    <3>2. stage'[o] = stage[o] /\ outcome'[o] = outcome[o]
        BY <2>1, <3>1 DEF Continues, Goes, Refused, FlowType
    <3>3. stage[o] = "locked"
        BY <2>1 DEF Rotating
    <3> QED BY <2>1, <3>2, <3>3 DEF Told, Answered, FlowInv
  <2> QED BY <1>4, <2>1
<1> QED BY <1>1, <1>2, <1>3, <1>4

\* A logout that shows a used token ends its session.
LEMMA LogoutReplays ==
    ASSUME FlowType, FlowInv, TokenInv, RenewInv, [Next]_vars, TokensGrow,
           NEW q \in Asked, Kind(q) = "logout", outcome'[q] = Error("refresh_replayed")
    PROVE  Replayed(context[q].refresh)'
<1>1. CASE Same(q)
  <2>1. PICK t : t = context[q].refresh
      OBVIOUS
  <2>2. Replayed(t)
      BY <1>1, <2>1 DEF RenewInv, Same
  <2>3. Replayed(t)'
      BY <2>2, TokensKnownStay
  <2> QED BY <1>1, <2>1, <2>2, <2>3 DEF Same, Replayed, SessionOf
<1>2. ~Send(q)
    BY DEF Send, NoResult, Error, FlowType
<1>3. ~Deliver(q)
    BY DEF Deliver, Shown, Answer, Error, FlowType
<1>4. ~Fail(q)
    BY DEF Fail, Error, FlowType
<1>5. CASE SoftwareStep(q) \/ AdminStep(q)
  <2>0. stage[q] \notin {"idle", "done", "answer"}
      BY <1>5, StepsBegin
  <2>1. stage'[q] = "done" /\ Refused(q)
    <3>1. ASSUME NEW next, NEW kept, Goes(q, next, kept) PROVE FALSE
      <4>1. outcome[q] = Error("refresh_replayed")
          BY <3>1 DEF Goes
      <4> QED BY <2>0, <4>1 DEF RenewInv, NoResult, Error
    <3> QED BY <1>5, <3>1, StepsGo
  <2>2. result'[q] = Error("refresh_replayed") /\ context'[q] = context[q]
      BY <2>1 DEF Refused, FlowType
  <2>3. /\ \A e : Refuses(q, e) => e = "refresh_replayed"
        /\ \A v : ~Returns(q, v)
      BY <2>2 DEF Refuses, Returns, Error, Answer, FlowType
  <2>4. stage[q] \in RouteOf("logout") /\ AdminStep(q)
    <3>1. stage[q] \in RouteOf("logout")
        BY <2>0 DEF FlowInv, OnRoute
    <3> QED BY <1>5, <3>1, SoftwareWays DEF SoftwareStages, RouteOf, Route, Locking
  <2>5. ~DeadlockStep(q)
      BY <2>3 DEF DeadlockStep, GivesUp
  <2>6. stage[q] # "read_proofs"
      BY <2>3, <2>4, <2>5, StepAt DEF ReadProofsStep
  <2>7. stage[q] \notin {"lock_token", "lock_session"}
    <3>1. stage[q] \in {"lock_token", "lock_session"} => \E rows, kept : LocksRows(q, rows, kept)
        BY <2>4, <2>5, StepAt DEF LockTokenStep, LockSessionStep
    <3> QED BY <2>3, <3>1 DEF LocksRows
  <2>8. LogoutStep(q)
      BY <2>4, <2>5, <2>6, <2>7, StepAt DEF RouteOf, Route, Locking
  <2>9. PICK c, at : c = context[q] /\ at = context[q].at
      OBVIOUS
  <2>10. RevokeCookieSession(q, c, at)
    <3>1. ~RevokeByToken(q, c.access, "bearer", "access", at)
        BY <2>3 DEF RevokeByToken, GivesUp
    <3> QED BY <2>8, <2>9, <3>1 DEF LogoutStep
  <2>11. /\ LogoutRefusal(c, at) = "refresh_replayed"
         /\ RevokeFamily(q, adminTokens[c.refresh].session, "refresh_replayed", at)
      BY <2>3, <2>10 DEF RevokeCookieSession, GivesUp
  <2>12. c.refresh \in DOMAIN adminTokens
      BY <2>11 DEF LogoutRefusal, ReplaysRefresh, Known, Accepted
  <2>13. PICK t, s : t = c.refresh /\ s = adminTokens[c.refresh].session
      OBVIOUS
  <2>14. Replayed(t)'
      BY <2>11, <2>12, <2>13, FamilyReplayed
  <2> QED BY <2>1, <2>2, <2>9, <2>13, <2>14 DEF Replayed, SessionOf
<1> QED BY <1>1, <1>2, <1>3, <1>4, <1>5, Turns

\* A request has no outcome before its end.
LEMMA OpenHasNone ==
    ASSUME FlowType, [Next]_vars, NEW q \in Asked, stage[q] # "done" => outcome[q] = NoResult,
           stage'[q] # "done"
    PROVE  outcome'[q] = NoResult
<1>1. CASE Same(q)
    BY <1>1 DEF Same
<1>2. CASE Send(q)
    BY <1>2 DEF Send, FlowType
<1>3. CASE Deliver(q) \/ Fail(q)
    BY <1>3 DEF Deliver, Fail, FlowType
<1>4. CASE SoftwareStep(q) \/ AdminStep(q)
  <2>1. stage[q] # "done" /\ \E next, kept : Goes(q, next, kept)
      BY <1>4, StepsBegin, StepsGo
  <2> QED BY <2>1 DEF Goes
<1> QED BY <1>1, <1>2, <1>3, <1>4, Turns

\* What renews a session, and what is told of a token used again, stays true.
LEMMA RenewStep ==
    /\ FlowType /\ FlowInv /\ TimedInv /\ HasInv /\ TokenInv /\ ServedInv /\ IssuedInv
    /\ FamilyInv /\ RenewInv /\ [Next]_vars
    => FamilyInv' /\ RenewInv'
<1> SUFFICES ASSUME FlowType, FlowInv, TimedInv, HasInv, TokenInv, ServedInv, IssuedInv,
                    FamilyInv, RenewInv, [Next]_vars
             PROVE  FamilyInv' /\ RenewInv'
    OBVIOUS
<1>1. TokensGrow /\ Asked' = Asked /\ \A q : Kind(q)' = Kind(q)
    BY StepMoves, TokensStaySound DEF Asked, Kind, Command
<1>2. FamilyInv'
    BY FamilyStep
<1>3. ASSUME NEW q \in Asked, Kind(q) = "refresh", stage'[q] # "idle" PROVE Renews(q)'
    BY <1>1, <1>3, RenewsStay
<1>4. ASSUME NEW q \in Asked, Kind(q) = "refresh", Told(q)',
             NEW r \in Asked, Kind(r) = "refresh", Told(r)', (Used(q) = Used(r))'
      PROVE  q = r
    BY <1>1, <1>4, OneRenewal
<1>5. ASSUME NEW q \in Asked, Kind(q) = "logout", outcome'[q] = Error("refresh_replayed")
      PROVE  Replayed(context[q].refresh)'
    BY <1>1, <1>5, LogoutReplays
<1>6. ASSUME NEW q \in Asked, stage'[q] # "done" PROVE outcome'[q] = NoResult
    BY <1>6, OpenHasNone DEF RenewInv
<1> QED BY <1>1, <1>2, <1>3, <1>4, <1>5, <1>6 DEF RenewInv

\* The refresh tokens of browsers, and what refreshes came to, hold in every state.
THEOREM RenewalsCorrect == Spec => [](FamilyInv /\ RenewInv)
<1>1. Init => FamilyInv /\ RenewInv
  <2> SUFFICES ASSUME Init PROVE FamilyInv /\ RenewInv
      OBVIOUS
  <2>1. \A q \in Asked : stage[q] = "idle" /\ ~Told(q) /\ outcome[q] = NoResult
      BY DEF Init, Asked, Told, Answered, NoResult
  <2>2. DOMAIN adminTokens = {}
      BY DEF Init, IdentityInit
  <2> QED BY <2>1, <2>2 DEF FamilyInv, RenewInv, NoResult, Error
<1> QED BY <1>1, RenewStep, FlowCorrect, TokensCorrect, ServingCorrect, LogoutCorrect, PTL DEF Spec

\* When a refresh has renewed its session, every other one with the same token that was
\* refused has ended that session, but for those that came too late or were given up.
THEOREM ReplaysRevoke == Spec => []ReplayRevokes
<1>1. FlowInv /\ FamilyInv /\ RenewInv => ReplayRevokes
  <2> SUFFICES ASSUME FlowInv, FamilyInv, RenewInv, NEW q \in Asked
               PROVE  /\ Kind(q) \in {"refresh", "logout"} /\ outcome[q] = Error("refresh_replayed")
                         => SessionOf(context[q].refresh).revoked
                      /\ \A r \in Asked \ {q} :
                            (/\ Kind(q) = "refresh" /\ Command(r) = Command(q)
                             /\ Answered(r) /\ Over(q)
                             /\ outcome[q] \notin {Error("internal_error"), Error("session_expired")}
                             /\ context[q].transport = "bearer" => outcome[q] # Error("session_revoked"))
                            => SessionOf(context[q].refresh).revoked
      BY DEF ReplayRevokes
  <2>1. ASSUME Kind(q) = "refresh", stage[q] = "done", ~Answered(q), outcome[q] # Error("unavailable")
        PROVE  /\ Refusal(outcome[q], Used(q), Via(q))
               /\ context[q].refresh = Used(q) /\ context[q].transport = Via(q)
      BY <2>1 DEF RenewInv, Renews, Told
  <2>2. ASSUME Kind(q) \in {"refresh", "logout"}, outcome[q] = Error("refresh_replayed")
        PROVE  SessionOf(context[q].refresh).revoked
    <3>1. CASE Kind(q) = "logout"
        BY <2>2, <3>1 DEF RenewInv, Replayed
    <3>2. CASE Kind(q) = "refresh"
      <4>1. ~Answered(q) /\ outcome[q] # Error("unavailable")
          BY <2>2 DEF Answered, Error
      <4>2. stage[q] = "done"
          BY <2>2 DEF RenewInv, NoResult, Error
      <4> QED BY <2>1, <2>2, <3>2, <4>1, <4>2 DEF Refusal, Replayed, Error
    <3> QED BY <2>2, <3>1, <3>2
  <2>3. ASSUME NEW r \in Asked \ {q}, Kind(q) = "refresh", Command(r) = Command(q),
               Answered(r), Over(q),
               outcome[q] \notin {Error("internal_error"), Error("session_expired")},
               context[q].transport = "bearer" => outcome[q] # Error("session_revoked")
        PROVE  SessionOf(context[q].refresh).revoked
    <3>1. Kind(r) = "refresh" /\ Used(r) = Used(q) /\ Via(r) = Via(q)
        BY <2>3 DEF Kind, Used, Via, Commanded
    <3>2. Renewed(Used(q), Via(q)) /\ Told(r)
        BY <2>3, <3>1 DEF RenewInv, Renews, Told, FlowInv
    <3>3. ~Answered(q)
        BY <2>3, <3>1, <3>2 DEF RenewInv, Told
    <3>4. stage[q] = "done" /\ outcome[q] # Error("unavailable")
        BY <2>3 DEF Over
    <3>5. /\ Refusal(outcome[q], Used(q), Via(q))
          /\ context[q].refresh = Used(q) /\ context[q].transport = Via(q)
        BY <2>1, <2>3, <3>3, <3>4
    <3>6. Replayed(Used(q)) \/ Spoilt(Used(q), Via(q))
        BY <2>3, <3>4, <3>5 DEF Refusal
    <3> QED BY <3>2, <3>5, <3>6 DEF Replayed, Spoilt, Renewed, FamilyInv
  <2> QED BY <2>2, <2>3
<1> QED BY <1>1, FlowCorrect, TokensCorrect, RenewalsCorrect, PTL

-----------------------------------------------------------------------------
(* What a keyed request is answered.                                       *)

\* The steps of the keyed requests, each with the one it goes on to.
NextStep ==
    [begin_provisioning |-> "ensure_official_tenant",
     ensure_official_tenant |-> "complete_provisioning", complete_provisioning |-> "answer",
     register_client |-> "bind_client", bind_client |-> "answer",
     rotate_credential |-> "rotated_context", rotated_context |-> "answer",
     list_tenants |-> "bind_scope", bind_scope |-> "answer",
     revoke_credential |-> "answer", replace_capabilities |-> "answer",
     create_application |-> "answer", suspend_application |-> "answer", create_tenant |-> "answer"]

\* The receipts that a step looks at, and what it asks them for on the command c.
ReceiptsOf(step) ==
    CASE step \in {"ensure_official_tenant", "create_tenant"} -> tenantReceipts
      [] step \in {"bind_client", "create_application", "suspend_application"} -> applicationReceipts
      [] step = "bind_scope" -> bindingReceipts
      [] OTHER -> productReceipts

KeyedOf(c, call) == [c EXCEPT !.key = <<@, call>>]

IdemOf(step, c) ==
    CASE step = "begin_provisioning" -> BeginProvisioningRequest(KeyedOf(c, "product"))
      [] step = "ensure_official_tenant" -> EnsureOfficialTenantRequest(KeyedOf(c, "official-tenant"))
      [] step = "complete_provisioning" -> CompleteProvisioningRequest(KeyedOf(c, "complete"))
      [] step = "register_client" -> RegisterClientRequest(KeyedOf(c, "product-register"))
      [] step = "bind_client" -> BindClientRequest(KeyedOf(c, "application-bind"))
      [] step = "rotate_credential" -> RotateClientCredentialRequest(KeyedOf(c, "credential-rotate"))
      [] step = "revoke_credential" -> RevokeClientCredentialRequest(KeyedOf(c, "credential-revoke"))
      [] step = "replace_capabilities" -> ReplaceCapabilitySetRequest(c)
      [] step = "create_application" -> CreateApplicationRequest(c)
      [] step = "suspend_application" -> SuspendApplicationRequest(c)
      [] step = "create_tenant" -> CreateAgentTenantRequest(c)
      [] step = "bind_scope" -> Idempotency("bind_admin_scope", c.actor, None, c.key, None)

\* The step has an answer to the command c that makes it the command d: the answer of the
\* receipt, which is that of the first call with its key; or that of a row that no one changes.
Calls(step, c, d) ==
    LET idem == IdemOf(step, c)
        receipt == ReceiptsOf(step)[idem.key]
    IN  /\ idem.key \in DOMAIN ReceiptsOf(step)
        /\ step \in Proving => receipt.request = idem.request
        /\ d = Joined(IF step = "ensure_official_tenant" THEN [official |-> receipt.response.tenant]
                      ELSE receipt.response, c)

Makes(step, c, d) ==
    CASE step = "list_tenants" -> d = Joined(<< >>, c)
      [] step = "rotated_context" ->
            /\ c.client \in DOMAIN clients
            /\ d = Joined([environment |-> clients[c.client].environment], c)
      [] OTHER -> Calls(step, c, d)

\* A request of the kind with the command is sent as c.
StartsAs(kind, command, c) ==
    IF kind \in Proving
    THEN \E n : c = Joined([notBefore |-> n,
                            material |-> IF command.proofType = "hmac_sha256_v1"
                                         THEN SecretOf(kind, command) ELSE command.publicKey],
                           command)
    ELSE c = command

\* It is c at the step, its first, its second, its third and its fourth.
Reaches1(kind, command, step, c) ==
    kind \in KeyedKinds /\ step = FirstStep[kind] /\ StartsAs(kind, command, c)
Reaches2(kind, command, step, c) ==
    \E s, b : /\ Reaches1(kind, command, s, b) /\ s \in DOMAIN NextStep
              /\ step = NextStep[s] /\ Makes(s, b, c)
Reaches3(kind, command, step, c) ==
    \E s, b : /\ Reaches2(kind, command, s, b) /\ s \in DOMAIN NextStep
              /\ step = NextStep[s] /\ Makes(s, b, c)
Reaches4(kind, command, step, c) ==
    \E s, b : /\ Reaches3(kind, command, s, b) /\ s \in DOMAIN NextStep
              /\ step = NextStep[s] /\ Makes(s, b, c)

Reaches(kind, command, step, c) ==
    \/ Reaches1(kind, command, step, c) \/ Reaches2(kind, command, step, c)
    \/ Reaches3(kind, command, step, c) \/ Reaches4(kind, command, step, c)

\* A keyed request is what its command and the receipts make of it, and so is its answer.
Stands(q) ==
    \E kind, command, step, c :
        /\ kind = Kind(q) /\ command = Commanded(q) /\ step = stage[q] /\ c = context[q]
        /\ Reaches(kind, command, step, c)

Answers(q) ==
    \E kind, command, c :
        /\ kind = Kind(q) /\ command = Commanded(q) /\ outcome[q] = Answer(c)
        /\ Reaches(kind, command, "answer", c)

KeyedInv ==
    \A q \in Asked : Kind(q) \in KeyedKinds =>
        /\ stage[q] \notin {"idle", "done"} => Stands(q)
        /\ Answered(q) => Answers(q)

LEMMA MakesOne ==
    ASSUME NEW step, NEW c, NEW d, NEW e, Makes(step, c, d), Makes(step, c, e)
    PROVE  d = e
BY DEF Makes, Calls

\* Where the steps of a kind take it.
LEMMA ReachesTo ==
    ASSUME NEW kind, NEW command, NEW step, NEW c
    PROVE  /\ Reaches1(kind, command, step, c) => step \in DOMAIN NextStep
           /\ Reaches2(kind, command, step, c) =>
                 /\ step \in {"answer", "ensure_official_tenant", "bind_client", "rotated_context",
                              "bind_scope"}
                 /\ step = "answer" => kind \in {"create_application", "revoke_credential",
                       "replace_capabilities", "suspend_application", "create_tenant"}
                 /\ step = "ensure_official_tenant" => kind = "create_product"
                 /\ step \in {"bind_client", "rotated_context", "bind_scope"} =>
                       kind \in {"register_client", "rotate_credential", "bind_tenant_admin"}
           /\ Reaches3(kind, command, step, c) =>
                 /\ step \in {"answer", "complete_provisioning"}
                 /\ step = "answer" =>
                       kind \in {"register_client", "rotate_credential", "bind_tenant_admin"}
                 /\ step = "complete_provisioning" => kind = "create_product"
           /\ Reaches4(kind, command, step, c) => step = "answer" /\ kind = "create_product"
<1>1. ASSUME NEW s, NEW b, Reaches1(kind, command, s, b)
      PROVE  /\ s \in DOMAIN NextStep
             /\ NextStep[s] \in {"answer", "ensure_official_tenant", "bind_client", "rotated_context",
                              "bind_scope"}
             /\ NextStep[s] = "answer" => kind \in {"create_application", "revoke_credential",
                       "replace_capabilities", "suspend_application", "create_tenant"}
             /\ NextStep[s] = "ensure_official_tenant" => kind = "create_product"
             /\ NextStep[s] \in {"bind_client", "rotated_context", "bind_scope"} =>
                       kind \in {"register_client", "rotate_credential", "bind_tenant_admin"}
    BY <1>1 DEF Reaches1, KeyedKinds, FirstStep, NextStep
<1>2. ASSUME NEW s, NEW b, Reaches2(kind, command, s, b)
      PROVE  /\ s \in {"answer", "ensure_official_tenant", "bind_client", "rotated_context",
                              "bind_scope"}
             /\ s = "answer" => kind \in {"create_application", "revoke_credential",
                       "replace_capabilities", "suspend_application", "create_tenant"}
             /\ s = "ensure_official_tenant" => kind = "create_product"
             /\ s \in {"bind_client", "rotated_context", "bind_scope"} =>
                       kind \in {"register_client", "rotate_credential", "bind_tenant_admin"}
    BY <1>1, <1>2 DEF Reaches2
<1>3. ASSUME NEW s, NEW b, Reaches3(kind, command, s, b)
      PROVE  /\ s \in {"answer", "complete_provisioning"}
             /\ s = "answer" =>
                       kind \in {"register_client", "rotate_credential", "bind_tenant_admin"}
             /\ s = "complete_provisioning" => kind = "create_product"
    BY <1>2, <1>3 DEF Reaches3, NextStep
<1>4. ASSUME NEW s, NEW b, Reaches4(kind, command, s, b)
      PROVE  s = "answer" /\ kind = "create_product"
    BY <1>3, <1>4 DEF Reaches4, NextStep
<1> QED BY <1>1, <1>2, <1>3, <1>4

\* From one command a kind gets to a step in one way.
LEMMA StartsOne ==
    ASSUME NEW kind \in KeyedKinds, NEW command, {"actor", "key", "product"} \subseteq DOMAIN command,
           kind \in Proving, NEW b, NEW c, NEW d, NEW e,
           StartsAs(kind, command, b), Calls(FirstStep[kind], b, d),
           StartsAs(kind, command, c), Calls(FirstStep[kind], c, e)
    PROVE  d = e
<1>1. PICK m : m = (IF command.proofType = "hmac_sha256_v1" THEN SecretOf(kind, command)
                    ELSE command.publicKey)
    OBVIOUS
<1>2. PICK n : b = Joined([notBefore |-> n, material |-> m], command)
    BY <1>1 DEF StartsAs
<1>3. PICK o : c = Joined([notBefore |-> o, material |-> m], command)
    BY <1>1 DEF StartsAs
<1>4. FirstStep[kind] = kind
    BY DEF FirstStep, Proving
<1>5. /\ b.actor = c.actor /\ b.key = c.key /\ b.product = c.product
      /\ b.notBefore = n /\ c.notBefore = o
      /\ DOMAIN b = DOMAIN c /\ {"actor", "key", "product", "notBefore"} \subseteq DOMAIN b
    BY <1>2, <1>3 DEF Joined
<1>6. ASSUME NEW call
      PROVE  /\ KeyedOf(b, call).actor = KeyedOf(c, call).actor
             /\ KeyedOf(b, call).key = KeyedOf(c, call).key
             /\ KeyedOf(b, call).product = KeyedOf(c, call).product
             /\ KeyedOf(b, call).notBefore = n /\ KeyedOf(c, call).notBefore = o
  <2>1. DOMAIN KeyedOf(b, call) = DOMAIN b /\ DOMAIN KeyedOf(c, call) = DOMAIN c
      BY DEF KeyedOf
  <2>2. \A x \in DOMAIN b : x # "key" =>
            KeyedOf(b, call)[x] = b[x] /\ KeyedOf(c, call)[x] = c[x]
      BY <1>5 DEF KeyedOf
  <2>3. KeyedOf(b, call).key = <<b.key, call>> /\ KeyedOf(c, call).key = <<c.key, call>>
      BY <1>5 DEF KeyedOf
  <2> QED BY <1>5, <2>2, <2>3
<1>7. /\ IdemOf(kind, b).key = IdemOf(kind, c).key
      /\ IdemOf(kind, b).request = IdemOf(kind, c).request => n = o
  <2>1. CASE kind = "register_client"
    <3>1. PICK f, g : f = KeyedOf(b, "product-register") /\ g = KeyedOf(c, "product-register")
        OBVIOUS
    <3>2. /\ f.actor = g.actor /\ f.key = g.key /\ f.product = g.product
          /\ f.notBefore = n /\ g.notBefore = o
        BY <1>6, <3>1
    <3>3. IdemOf(kind, b) = RegisterClientRequest(f) /\ IdemOf(kind, c) = RegisterClientRequest(g)
        BY <2>1, <3>1 DEF IdemOf
    <3> QED BY <3>2, <3>3 DEF RegisterClientRequest, ProofMaterial, Idempotency
  <2>2. CASE kind = "rotate_credential"
    <3>1. PICK f, g : f = KeyedOf(b, "credential-rotate") /\ g = KeyedOf(c, "credential-rotate")
        OBVIOUS
    <3>2. /\ f.actor = g.actor /\ f.key = g.key /\ f.product = g.product
          /\ f.notBefore = n /\ g.notBefore = o
        BY <1>6, <3>1
    <3>3. /\ IdemOf(kind, b) = RotateClientCredentialRequest(f)
          /\ IdemOf(kind, c) = RotateClientCredentialRequest(g)
        BY <2>2, <3>1 DEF IdemOf
    <3> QED BY <3>2, <3>3 DEF RotateClientCredentialRequest, ProofMaterial, Idempotency
  <2> QED BY <2>1, <2>2 DEF Proving
<1>8. IdemOf(kind, b).request = IdemOf(kind, c).request
    BY <1>4, <1>7 DEF Calls
<1>9. b = c
    BY <1>2, <1>3, <1>7, <1>8
<1> QED BY <1>9 DEF Calls

LEMMA ReachesOne ==
    ASSUME NEW kind \in KeyedKinds, NEW command,
           kind \in Proving => {"actor", "key", "product"} \subseteq DOMAIN command,
           NEW c, NEW e, Reaches(kind, command, "answer", c), Reaches(kind, command, "answer", e)
    PROVE  c = e
<1>1. ASSUME NEW s, NEW b, NEW t, NEW d, Reaches1(kind, command, s, b), Reaches1(kind, command, t, d),
             kind \notin Proving
      PROVE  s = t /\ b = d
    BY <1>1 DEF Reaches1, StartsAs
<1>2. ASSUME NEW s, NEW b, NEW t, NEW d, Reaches2(kind, command, s, b), Reaches2(kind, command, t, d)
      PROVE  s = t /\ b = d
  <2>1. PICK v, x : Reaches1(kind, command, v, x) /\ s = NextStep[v] /\ Makes(v, x, b)
      BY <1>2 DEF Reaches2
  <2>2. PICK w, y : Reaches1(kind, command, w, y) /\ t = NextStep[w] /\ Makes(w, y, d)
      BY <1>2 DEF Reaches2
  <2>3. v = w
      BY <2>1, <2>2 DEF Reaches1
  <2>4. CASE kind \notin Proving
      BY <1>1, <2>1, <2>2, <2>3, <2>4, MakesOne
  <2>5. CASE kind \in Proving
    <3>1. v = FirstStep[kind] /\ StartsAs(kind, command, x) /\ StartsAs(kind, command, y)
        BY <2>1, <2>2 DEF Reaches1
    <3>2. Calls(v, x, b) /\ Calls(v, y, d)
        BY <2>1, <2>2, <2>3, <2>5, <3>1 DEF Makes, FirstStep, Proving
    <3> QED BY <2>1, <2>2, <2>3, <2>5, <3>1, <3>2, StartsOne
  <2> QED BY <2>4, <2>5
<1>3. ASSUME NEW s, NEW b, NEW t, NEW d, Reaches3(kind, command, s, b), Reaches3(kind, command, t, d)
      PROVE  s = t /\ b = d
  <2>1. PICK v, x : Reaches2(kind, command, v, x) /\ s = NextStep[v] /\ Makes(v, x, b)
      BY <1>3 DEF Reaches3
  <2>2. PICK w, y : Reaches2(kind, command, w, y) /\ t = NextStep[w] /\ Makes(w, y, d)
      BY <1>3 DEF Reaches3
  <2> QED BY <1>2, <2>1, <2>2, MakesOne
<1>4. ASSUME NEW s, NEW b, NEW t, NEW d, Reaches4(kind, command, s, b), Reaches4(kind, command, t, d)
      PROVE  s = t /\ b = d
  <2>1. PICK v, x : Reaches3(kind, command, v, x) /\ s = NextStep[v] /\ Makes(v, x, b)
      BY <1>4 DEF Reaches4
  <2>2. PICK w, y : Reaches3(kind, command, w, y) /\ t = NextStep[w] /\ Makes(w, y, d)
      BY <1>4 DEF Reaches4
  <2> QED BY <1>3, <2>1, <2>2, MakesOne
<1>5. "answer" \notin DOMAIN NextStep
    BY DEF NextStep
<1> QED BY <1>2, <1>3, <1>4, <1>5, ReachesTo DEF Reaches

\* Receipts stay, and so do the rows of clients: what a request got it would get again.
LEMMA ReceiptsStay ==
    ASSUME FlowType, [Next]_vars
    PROVE  /\ \A k \in DOMAIN applicationReceipts :
                 k \in DOMAIN applicationReceipts' /\ applicationReceipts'[k] = applicationReceipts[k]
           /\ \A x \in DOMAIN clients : x \in DOMAIN clients' /\ clients'[x] = clients[x]
<1>1. CASE UNCHANGED softwareVars
    BY <1>1 DEF softwareVars, productVars, applicationVars
<1>2. ASSUME NEW r \in Asked, SoftwareStep(r)
      PROVE  \A k \in DOMAIN applicationReceipts :
                 k \in DOMAIN applicationReceipts' /\ applicationReceipts'[k] = applicationReceipts[k]
  <2>1. \A idem, answer : applicationReceipts' = Receipted(applicationReceipts, idem, answer) =>
            \A k \in DOMAIN applicationReceipts :
                 k \in DOMAIN applicationReceipts' /\ applicationReceipts'[k] = applicationReceipts[k]
      BY DEF Receipted, Added
  <2>2. CASE CreateApplicationStep(r) \/ BindClientStep(r)
      BY <2>1, <2>2 DEF CreateApplicationStep, BindClientStep, CreateApplication, BindClient,
          ReserveIdempotency, StoresResponse, applicationVars
  <2>3. CASE SuspendApplicationStep(r)
      BY <2>1, <2>3 DEF SuspendApplicationStep, SuspendApplication, ReserveIdempotency, StoresResponse,
          applicationVars
  <2> QED BY <1>2, <2>1, <2>2, <2>3, Writers
<1>3. ASSUME NEW r \in Asked, SoftwareStep(r)
      PROVE  \A x \in DOMAIN clients : x \in DOMAIN clients' /\ clients'[x] = clients[x]
  <2>1. CASE RegisterStep(r)
      BY <2>1 DEF RegisterStep, RegisterClient, ClaimIdempotency, productVars, Added
  <2> QED BY <1>3, <2>1, Writers
<1> QED BY <1>1, <1>2, <1>3, StepMoves

LEMMA MakesStays ==
    ASSUME FlowType, [Next]_vars, ReceiptsGrow, NEW step, NEW c, NEW d, Makes(step, c, d)
    PROVE  Makes(step, c, d)'
<1>1. ASSUME NEW table, NEW later, \A k \in DOMAIN table : k \in DOMAIN later /\ later[k] = table[k],
             ReceiptsOf(step) = table, ReceiptsOf(step)' = later, Calls(step, c, d)
      PROVE  Calls(step, c, d)'
  <2>1. PICK idem : idem = IdemOf(step, c)
      OBVIOUS
  <2>2. idem = IdemOf(step, c)'
      BY <2>1 DEF IdemOf
  <2> QED BY <1>1, <2>1, <2>2 DEF Calls
<1>2. ASSUME Calls(step, c, d) PROVE Calls(step, c, d)'
  <2>1. CASE step \in {"ensure_official_tenant", "create_tenant"}
    <3>1. ReceiptsOf(step) = tenantReceipts /\ ReceiptsOf(step)' = tenantReceipts'
        BY <2>1 DEF ReceiptsOf
    <3> QED BY <1>1, <1>2, <3>1, RowsStay
  <2>2. CASE step \in {"bind_client", "create_application", "suspend_application"}
    <3>1. ReceiptsOf(step) = applicationReceipts /\ ReceiptsOf(step)' = applicationReceipts'
        BY <2>2 DEF ReceiptsOf
    <3> QED BY <1>1, <1>2, <3>1, ReceiptsStay
  <2>3. CASE step = "bind_scope"
    <3>1. ReceiptsOf(step) = bindingReceipts /\ ReceiptsOf(step)' = bindingReceipts'
        BY <2>3 DEF ReceiptsOf
    <3> QED BY <1>1, <1>2, <3>1 DEF ReceiptsGrow
  <2>4. CASE step \notin {"ensure_official_tenant", "create_tenant", "bind_client",
                          "create_application", "suspend_application", "bind_scope"}
    <3>1. ReceiptsOf(step) = productReceipts /\ ReceiptsOf(step)' = productReceipts'
        BY <2>4 DEF ReceiptsOf
    <3> QED BY <1>1, <1>2, <3>1, RowsStay
  <2> QED BY <2>1, <2>2, <2>3, <2>4
<1>3. CASE step = "list_tenants"
    BY <1>3 DEF Makes
<1>4. CASE step = "rotated_context"
    BY <1>4, ReceiptsStay DEF Makes
<1>5. CASE step \notin {"list_tenants", "rotated_context"}
    BY <1>2, <1>5 DEF Makes
<1> QED BY <1>3, <1>4, <1>5

\* What a keyed call that may go on makes of the receipts.
Settles(r, table, idem, later) ==
    \/ \E refusal : Settled(r, table, idem, refusal) /\ later = table
    \/ \E refusal, answer : /\ Proceeds(table, idem, refusal)
                            /\ later = Receipted(table, idem, answer)
                            /\ Returns(r, answer)

\* Such calls of the modules.
ProductCall(r, idem) ==
    \/ \E refusal : ClaimIdempotency(r, idem, refusal)
    \/ \E refusal, answer :
          Proceeds(productReceipts, idem, refusal) /\ CompleteIdempotency(r, idem, answer)
ApplicationCall(r, idem) ==
    \/ \E refusal : ReserveIdempotency(r, idem, refusal)
    \/ \E refusal, answer :
          Proceeds(applicationReceipts, idem, refusal) /\ StoresResponse(r, idem, answer)
TenantCall(r, idem) ==
    \/ \E refusal : LoadReceipt(r, idem, refusal)
    \/ \E refusal, answer :
          Proceeds(tenantReceipts, idem, refusal) /\ SaveReceipt(r, idem, answer)

\* If it goes on it has the answer of its receipt, which it found or has stored.
LEMMA CallEffect ==
    ASSUME FlowType, NEW r \in Asked, result'[r].kind = "ok", NEW table, NEW later, NEW idem,
           Settles(r, table, idem, later)
    PROVE  /\ idem.key \in DOMAIN later
           /\ later[idem.key].request = idem.request
           /\ later[idem.key].response = Got(r)
<1>1. \A e : ~Refuses(r, e)
    BY NotRefused
<1>2. ASSUME NEW refusal, Settled(r, table, idem, refusal), later = table
      PROVE  /\ idem.key \in DOMAIN later
             /\ later[idem.key].request = idem.request
             /\ later[idem.key].response = Got(r)
    BY <1>1, <1>2, AnsweredWith DEF Settled
<1>3. ASSUME NEW refusal, NEW answer, Proceeds(table, idem, refusal),
             later = Receipted(table, idem, answer), Returns(r, answer)
      PROVE  /\ idem.key \in DOMAIN later
             /\ later[idem.key].request = idem.request
             /\ later[idem.key].response = Got(r)
    BY <1>3, AnsweredWith DEF Proceeds, Receipted, Added
<1> QED BY <1>2, <1>3 DEF Settles

\* A step of a keyed request that goes on makes what it promises.
LEMMA StepMakes ==
    ASSUME FlowType, NEW r \in Asked, SoftwareStep(r), stage[r] \in DOMAIN NextStep,
           stage'[r] # "done", NEW c, c = context[r], NEW d, d = context'[r], NEW s, s = stage[r]
    PROVE  stage'[r] = NextStep[s] /\ Makes(s, c, d)'
<1> USE DEF OnProducts, OnApplications, OnTenants, OnAccess, At
<1>1. ASSUME NEW next, NEW kept, Continues(r, next, kept)
      PROVE  result'[r].kind = "ok" /\ stage'[r] = next /\ d = Joined(kept, c)
    BY <1>1, GoesOnWith
<1>2. ASSUME NEW idem, result'[r].kind = "ok", idem = IdemOf(s, c), idem = IdemOf(s, c)',
             s \notin {"list_tenants", "rotated_context"},
             idem.key \in DOMAIN ReceiptsOf(s)',
             s \in Proving => ReceiptsOf(s)'[idem.key].request = idem.request,
             d = Joined(IF s = "ensure_official_tenant"
                        THEN [official |-> ReceiptsOf(s)'[idem.key].response.tenant]
                        ELSE ReceiptsOf(s)'[idem.key].response, c)
      PROVE  Makes(s, c, d)'
    BY <1>2 DEF Makes, Calls
<1>3. ASSUME NEW idem, result'[r].kind = "ok", idem = IdemOf(s, c), idem = IdemOf(s, c)',
             s \notin {"list_tenants", "rotated_context", "ensure_official_tenant"},
             d = Joined(Got(r), c), NEW key, key = idem.key,
             key \in DOMAIN ReceiptsOf(s)', ReceiptsOf(s)'[key].request = idem.request,
             ReceiptsOf(s)'[key].response = Got(r)
      PROVE  Makes(s, c, d)'
    BY <1>2, <1>3
<1>5. ASSUME NEW idem, idem = IdemOf(s, c), ReceiptsOf(s)' = productReceipts',
             s \notin {"list_tenants", "rotated_context", "ensure_official_tenant"},
             ProductCall(r, idem),
             NEW next, Continues(r, next, Got(r))
      PROVE  Makes(s, c, d)' /\ stage'[r] = next
  <2>1. result'[r].kind = "ok" /\ stage'[r] = next /\ d = Joined(Got(r), c)
      BY <1>1, <1>5
  <2>2. idem = IdemOf(s, c)'
      BY <1>5 DEF IdemOf
  <2>3. Settles(r, productReceipts, idem, productReceipts')
      BY <1>5 DEF Settles, ProductCall, ClaimIdempotency, CompleteIdempotency, productVars
  <2> QED BY <1>3, CallEffect, <1>5, <2>1, <2>2, <2>3
<1>6. ASSUME NEW idem, idem = IdemOf(s, c), ReceiptsOf(s)' = applicationReceipts',
             s \notin {"list_tenants", "rotated_context", "ensure_official_tenant"},
             ApplicationCall(r, idem),
             NEW next, Continues(r, next, Got(r))
      PROVE  Makes(s, c, d)' /\ stage'[r] = next
  <2>1. result'[r].kind = "ok" /\ stage'[r] = next /\ d = Joined(Got(r), c)
      BY <1>1, <1>6
  <2>2. idem = IdemOf(s, c)'
      BY <1>6 DEF IdemOf
  <2>3. Settles(r, applicationReceipts, idem, applicationReceipts')
      BY <1>6 DEF Settles, ApplicationCall, ReserveIdempotency, StoresResponse, applicationVars
  <2> QED BY <1>3, CallEffect, <1>6, <2>1, <2>2, <2>3
<1>7. ASSUME NEW idem, idem = IdemOf(s, c), ReceiptsOf(s)' = tenantReceipts',
             TenantCall(r, idem),
             result'[r].kind = "ok"
      PROVE  /\ idem = IdemOf(s, c)' /\ idem.key \in DOMAIN ReceiptsOf(s)'
             /\ ReceiptsOf(s)'[idem.key].request = idem.request
             /\ ReceiptsOf(s)'[idem.key].response = Got(r)
  <2>2. idem = IdemOf(s, c)'
      BY <1>7 DEF IdemOf
  <2>3. Settles(r, tenantReceipts, idem, tenantReceipts')
      BY <1>7 DEF Settles, TenantCall, LoadReceipt, SaveReceipt, tenantVars
  <2> QED BY CallEffect, <1>7, <2>2, <2>3
<1>8. CASE BeginStep(r)
  <2>1. s = "begin_provisioning" /\ Keyed(r, "product") = KeyedOf(c, "product")
      BY <1>8 DEF BeginStep, Keyed, KeyedOf
  <2>2. PICK idem : idem = BeginProvisioningRequest(KeyedOf(c, "product"))
      OBVIOUS
  <2>3. /\ idem = IdemOf(s, c) /\ ReceiptsOf(s)' = productReceipts'
        /\ NextStep[s] = "ensure_official_tenant"
      BY <2>1, <2>2 DEF IdemOf, ReceiptsOf, NextStep
  <2>4. /\ Continues(r, "ensure_official_tenant", Got(r))
        /\ ProductCall(r, idem)
      BY <1>8, <2>1, <2>2 DEF BeginStep, BeginProvisioning, ProductCall
  <2> QED BY <1>5, <2>1, <2>3, <2>4
<1>9. CASE CompleteStep(r)
  <2>1. s = "complete_provisioning" /\ Keyed(r, "complete") = KeyedOf(c, "complete")
      BY <1>9 DEF CompleteStep, Keyed, KeyedOf
  <2>2. PICK idem : idem = CompleteProvisioningRequest(KeyedOf(c, "complete"))
      OBVIOUS
  <2>3. idem = IdemOf(s, c) /\ ReceiptsOf(s)' = productReceipts' /\ NextStep[s] = "answer"
      BY <2>1, <2>2 DEF IdemOf, ReceiptsOf, NextStep
  <2>4. /\ Continues(r, "answer", Got(r))
        /\ ProductCall(r, idem)
      BY <1>9, <2>1, <2>2 DEF CompleteStep, CompleteProvisioning, ProductCall
  <2> QED BY <1>5, <2>1, <2>3, <2>4
<1>10. CASE RegisterStep(r)
  <2>1. s = "register_client" /\ Keyed(r, "product-register") = KeyedOf(c, "product-register")
      BY <1>10 DEF RegisterStep, Keyed, KeyedOf
  <2>2. PICK idem : idem = RegisterClientRequest(KeyedOf(c, "product-register"))
      OBVIOUS
  <2>3. idem = IdemOf(s, c) /\ ReceiptsOf(s)' = productReceipts' /\ NextStep[s] = "bind_client"
      BY <2>1, <2>2 DEF IdemOf, ReceiptsOf, NextStep
  <2>4. /\ Continues(r, "bind_client", Got(r))
        /\ ProductCall(r, idem)
      BY <1>10, <2>1, <2>2 DEF RegisterStep, RegisterClient, ProductCall
  <2> QED BY <1>5, <2>1, <2>3, <2>4
<1>11. CASE RotateStep(r)
  <2>1. s = "rotate_credential" /\ Keyed(r, "credential-rotate") = KeyedOf(c, "credential-rotate")
      BY <1>11 DEF RotateStep, Keyed, KeyedOf
  <2>2. PICK idem : idem = RotateClientCredentialRequest(KeyedOf(c, "credential-rotate"))
      OBVIOUS
  <2>3. idem = IdemOf(s, c) /\ ReceiptsOf(s)' = productReceipts' /\ NextStep[s] = "rotated_context"
      BY <2>1, <2>2 DEF IdemOf, ReceiptsOf, NextStep
  <2>4. /\ Continues(r, "rotated_context", Got(r))
        /\ ProductCall(r, idem)
      BY <1>11, <2>1, <2>2 DEF RotateStep, RotateClientCredential, ProductCall
  <2> QED BY <1>5, <2>1, <2>3, <2>4
<1>12. CASE RevokeStep(r)
  <2>1. s = "revoke_credential" /\ Keyed(r, "credential-revoke") = KeyedOf(c, "credential-revoke")
      BY <1>12 DEF RevokeStep, Keyed, KeyedOf
  <2>2. PICK idem : idem = RevokeClientCredentialRequest(KeyedOf(c, "credential-revoke"))
      OBVIOUS
  <2>3. idem = IdemOf(s, c) /\ ReceiptsOf(s)' = productReceipts' /\ NextStep[s] = "answer"
      BY <2>1, <2>2 DEF IdemOf, ReceiptsOf, NextStep
  <2>4. /\ Continues(r, "answer", Got(r))
        /\ ProductCall(r, idem)
      BY <1>12, <2>1, <2>2 DEF RevokeStep, RevokeClientCredential, ProductCall
  <2> QED BY <1>5, <2>1, <2>3, <2>4
<1>13. CASE ReplaceCapabilitiesStep(r)
  <2>1. s = "replace_capabilities"
      BY <1>13 DEF ReplaceCapabilitiesStep
  <2>2. PICK idem : idem = ReplaceCapabilitySetRequest(c)
      OBVIOUS
  <2>3. idem = IdemOf(s, c) /\ ReceiptsOf(s)' = productReceipts' /\ NextStep[s] = "answer"
      BY <2>1, <2>2 DEF IdemOf, ReceiptsOf, NextStep
  <2>4. Continues(r, "answer", Got(r)) /\ \A e : ~Refuses(r, e)
      BY <1>1, <1>13, NotRefused DEF ReplaceCapabilitiesStep
  <2>5. ProductCall(r, idem)
      BY <1>13, <2>2, <2>4 DEF ReplaceCapabilitiesStep, ReplaceCapabilitySet, ProductCall
  <2> QED BY <1>5, <2>1, <2>3, <2>4, <2>5
<1>14. CASE BindClientStep(r)
  <2>1. s = "bind_client" /\ Keyed(r, "application-bind") = KeyedOf(c, "application-bind")
      BY <1>14 DEF BindClientStep, Keyed, KeyedOf
  <2>2. PICK idem : idem = BindClientRequest(KeyedOf(c, "application-bind"))
      OBVIOUS
  <2>3. idem = IdemOf(s, c) /\ ReceiptsOf(s)' = applicationReceipts' /\ NextStep[s] = "answer"
      BY <2>1, <2>2 DEF IdemOf, ReceiptsOf, NextStep
  <2>4. /\ Continues(r, "answer", Got(r))
        /\ ApplicationCall(r, idem)
      BY <1>14, <2>1, <2>2 DEF BindClientStep, BindClient, ApplicationCall
  <2> QED BY <1>6, <2>1, <2>3, <2>4
<1>15. CASE CreateApplicationStep(r)
  <2>1. s = "create_application"
      BY <1>15 DEF CreateApplicationStep
  <2>2. PICK idem : idem = CreateApplicationRequest(c)
      OBVIOUS
  <2>3. idem = IdemOf(s, c) /\ ReceiptsOf(s)' = applicationReceipts' /\ NextStep[s] = "answer"
      BY <2>1, <2>2 DEF IdemOf, ReceiptsOf, NextStep
  <2>4. /\ Continues(r, "answer", Got(r))
        /\ ApplicationCall(r, idem)
      BY <1>15, <2>1, <2>2 DEF CreateApplicationStep, CreateApplication, ApplicationCall
  <2> QED BY <1>6, <2>1, <2>3, <2>4
<1>16. CASE SuspendApplicationStep(r)
  <2>1. s = "suspend_application"
      BY <1>16 DEF SuspendApplicationStep
  <2>2. PICK idem : idem = SuspendApplicationRequest(c)
      OBVIOUS
  <2>3. idem = IdemOf(s, c) /\ ReceiptsOf(s)' = applicationReceipts' /\ NextStep[s] = "answer"
      BY <2>1, <2>2 DEF IdemOf, ReceiptsOf, NextStep
  <2>4. /\ Continues(r, "answer", Got(r))
        /\ ApplicationCall(r, idem)
      BY <1>16, <2>1, <2>2 DEF SuspendApplicationStep, SuspendApplication, ApplicationCall
  <2> QED BY <1>6, <2>1, <2>3, <2>4
<1>17. CASE EnsureStep(r)
  <2>1. s = "ensure_official_tenant" /\ Keyed(r, "official-tenant") = KeyedOf(c, "official-tenant")
      BY <1>17 DEF EnsureStep, Keyed, KeyedOf
  <2>2. PICK idem : idem = EnsureOfficialTenantRequest(KeyedOf(c, "official-tenant"))
      OBVIOUS
  <2>3. idem = IdemOf(s, c) /\ ReceiptsOf(s)' = tenantReceipts' /\ NextStep[s] = "complete_provisioning"
      BY <2>1, <2>2 DEF IdemOf, ReceiptsOf, NextStep
  <2>4. TenantCall(r, idem)
      BY <1>17, <2>1, <2>2 DEF EnsureStep, EnsureOfficialTenant, TenantCall
  <2>5. /\ result'[r].kind = "ok" /\ stage'[r] = "complete_provisioning"
        /\ d = Joined([official |-> Got(r).tenant], c)
      BY <1>1, <1>17 DEF EnsureStep
  <2>6. /\ idem = IdemOf(s, c)' /\ idem.key \in DOMAIN ReceiptsOf(s)'
        /\ ReceiptsOf(s)'[idem.key].request = idem.request
        /\ ReceiptsOf(s)'[idem.key].response = Got(r)
      BY <1>7, <2>3, <2>4, <2>5
  <2> QED BY <1>2, <2>1, <2>3, <2>5, <2>6
<1>18. CASE CreateTenantStep(r)
  <2>1. s = "create_tenant"
      BY <1>18 DEF CreateTenantStep
  <2>2. PICK idem : idem = CreateAgentTenantRequest(c)
      OBVIOUS
  <2>3. idem = IdemOf(s, c) /\ ReceiptsOf(s)' = tenantReceipts' /\ NextStep[s] = "answer"
      BY <2>1, <2>2 DEF IdemOf, ReceiptsOf, NextStep
  <2>4. /\ result'[r].kind = "ok" /\ stage'[r] = "answer" /\ d = Joined(Got(r), c)
        /\ \A e : ~Refuses(r, e)
      BY <1>1, <1>18, NotRefused DEF CreateTenantStep
  <2>5. TenantCall(r, idem)
      BY <1>18, <2>2, <2>4 DEF CreateTenantStep, CreateAgentTenant, TenantCall
  <2>6. /\ idem = IdemOf(s, c)' /\ idem.key \in DOMAIN ReceiptsOf(s)'
        /\ ReceiptsOf(s)'[idem.key].request = idem.request
        /\ ReceiptsOf(s)'[idem.key].response = Got(r)
      BY <1>7, <2>3, <2>4, <2>5
  <2> QED BY <1>3, <2>1, <2>3, <2>4, <2>6
<1>19. CASE BindScopeStep(r)
  <2>1. s = "bind_scope"
      BY <1>19 DEF BindScopeStep
  <2>2. PICK idem : idem = ScopeBindingRequest(c, Scope("tenant", c.product, c.tenant))
      OBVIOUS
  <2>3. /\ ReceiptsOf(s)' = bindingReceipts' /\ NextStep[s] = "answer"
        /\ idem.key = IdemOf(s, c).key /\ idem.key = IdemOf(s, c).key'
      BY <2>1, <2>2 DEF IdemOf, ReceiptsOf, NextStep, ScopeBindingRequest, Idempotency
  <2>4. result'[r].kind = "ok" /\ stage'[r] = "answer" /\ d = Joined(Got(r), c)
      BY <1>1, <1>19 DEF BindScopeStep
  <2>5. Settles(r, bindingReceipts, idem, bindingReceipts')
      BY <1>19, <2>2 DEF Settles, BindScopeStep, BindAdminScope, accessVars
  <2>6. /\ idem.key \in DOMAIN bindingReceipts'
        /\ bindingReceipts'[idem.key].response = Got(r)
      BY CallEffect, <2>4, <2>5
  <2>7. Calls(s, c, d)'
      BY <2>1, <2>3, <2>4, <2>6 DEF Calls, Proving
  <2> QED BY <2>1, <2>3, <2>4, <2>7 DEF Makes
<1>20. CASE RotatedContextStep(r)
  <2>1. /\ s = "rotated_context" /\ NextStep[s] = "answer" /\ clients' = clients
        /\ ResolveProductContext(r, c)
        /\ Continues(r, "answer", [environment |-> Got(r).environment])
      BY <1>20 DEF RotatedContextStep, NextStep, ResolveProductContext, productVars
  <2>2. /\ result'[r].kind = "ok" /\ stage'[r] = "answer" /\ \A e : ~Refuses(r, e)
        /\ d = Joined([environment |-> Got(r).environment], c)
      BY <1>1, <2>1, NotRefused
  <2>3. Authentic(c.client, c.credential, now) /\ Returns(r, ProductContext(c.client))
      BY <2>1, <2>2 DEF ResolveProductContext
  <2>4. c.client \in DOMAIN clients /\ Got(r).environment = clients[c.client].environment
      BY <2>3, AnsweredWith DEF Authentic, ProductContext
  <2> QED BY <2>1, <2>2, <2>4 DEF Makes
<1>21. CASE ListTenantsStep(r)
  <2>1. s = "list_tenants" /\ NextStep[s] = "bind_scope" /\ Continues(r, "bind_scope", << >>)
      BY <1>21 DEF ListTenantsStep, NextStep
  <2>2. stage'[r] = "bind_scope" /\ d = Joined(<< >>, c)
      BY <1>1, <2>1
  <2> QED BY <2>1, <2>2 DEF Makes
<1>22. CASE \/ ProductContextStep(r) \/ ApplicationContextStep(r) \/ TenantContextStep(r)
            \/ AuthenticateStep(r) \/ CheckStep(r) \/ CreateSessionStep(r) \/ ReplaceRedirectsStep(r)
    BY <1>22 DEF ProductContextStep, ApplicationContextStep, TenantContextStep, AuthenticateStep,
        CheckStep, CreateSessionStep, ReplaceRedirectsStep, NextStep
<1> QED
    BY <1>8, <1>9, <1>10, <1>11, <1>12, <1>13, <1>14, <1>15, <1>16, <1>17, <1>18, <1>19, <1>20, <1>21,
       <1>22 DEF SoftwareStep

\* Such a step takes the request one step further.
LEMMA ReachesOn ==
    ASSUME FlowType, [Next]_vars, ReceiptsGrow, NEW kind, NEW command, NEW step, NEW c
    PROVE  /\ Reaches(kind, command, step, c) => Reaches(kind, command, step, c)'
           /\ \A d : /\ Reaches(kind, command, step, c)
                     /\ step \in DOMAIN NextStep /\ Makes(step, c, d)'
                     => Reaches(kind, command, NextStep[step], d)'
<1>1. ASSUME NEW s, NEW b PROVE Reaches1(kind, command, s, b) => Reaches1(kind, command, s, b)'
    BY DEF Reaches1, StartsAs
<1>2. ASSUME NEW s, NEW b PROVE Reaches2(kind, command, s, b) => Reaches2(kind, command, s, b)'
    BY <1>1, MakesStays DEF Reaches2
<1>3. ASSUME NEW s, NEW b PROVE Reaches3(kind, command, s, b) => Reaches3(kind, command, s, b)'
    BY <1>2, MakesStays DEF Reaches3
<1>4. ASSUME NEW s, NEW b PROVE Reaches4(kind, command, s, b) => Reaches4(kind, command, s, b)'
    BY <1>3, MakesStays DEF Reaches4
<1>5. Reaches(kind, command, step, c) => Reaches(kind, command, step, c)'
    BY <1>1, <1>2, <1>3, <1>4 DEF Reaches
<1>6. ASSUME NEW d, Reaches(kind, command, step, c), step \in DOMAIN NextStep, Makes(step, c, d)'
      PROVE  Reaches(kind, command, NextStep[step], d)'
  <2>1. ~Reaches4(kind, command, step, c)
      BY <1>6, ReachesTo DEF NextStep
  <2>2. PICK next : next = NextStep[step]
      OBVIOUS
  <2>3. \/ Reaches2(kind, command, next, d)'
        \/ Reaches3(kind, command, next, d)'
        \/ Reaches4(kind, command, next, d)'
      BY <1>1, <1>2, <1>3, <1>6, <2>1, <2>2 DEF Reaches, Reaches2, Reaches3, Reaches4
  <2> QED BY <2>2, <2>3 DEF Reaches
<1> QED BY <1>5, <1>6

\* A keyed request starts with its command.
LEMMA KeyedSent ==
    ASSUME FlowType, FlowInv, [Next]_vars, NEW q \in Asked, Kind(q) \in KeyedKinds, Send(q),
           stage'[q] # "done"
    PROVE  Stands(q)'
<1>1. PICK kind, command, step, c :
          /\ kind = Kind(q) /\ command = Commanded(q) /\ step = stage'[q] /\ c = context'[q]
    OBVIOUS
<1>2. kind = Kind(q)' /\ command = Commanded(q)'
    BY <1>1, CommandedStays, StepMoves DEF Kind, Command
<1>3. step = FirstStep[kind] /\ c = Prepared(q)
    BY <1>1, Sent
<1>4. Kind(q) \notin Timed
    BY DEF KeyedKinds, Timed
<1>5. StartsAs(kind, command, c)
  <2>1. CASE kind \in Proving
    <3>1. Prepared(q) = Joined([notBefore |-> now,
                                material |-> IF command.proofType = "hmac_sha256_v1"
                                             THEN SecretOf(kind, command) ELSE command.publicKey],
                               command)
        BY <1>1, <1>4, <2>1 DEF Prepared, Commanded
    <3> QED BY <1>3, <2>1, <3>1 DEF StartsAs
  <2>2. CASE kind \notin Proving
    <3>1. Prepared(q) = command
        BY <1>1, <1>4, <2>2 DEF Prepared, Commanded
    <3> QED BY <1>3, <2>2, <3>1 DEF StartsAs
  <2> QED BY <2>1, <2>2
<1>6. Reaches1(kind, command, step, c)'
    BY <1>1, <1>3, <1>5 DEF Reaches1, StartsAs
<1>7. Reaches(kind, command, step, c)'
    BY <1>6 DEF Reaches
<1> QED BY <1>1, <1>2, <1>7 DEF Stands

LEMMA KeyedStep ==
    FlowType /\ FlowInv /\ TimedInv /\ AccessInv /\ KeyedInv /\ [Next]_vars => KeyedInv'
<1> SUFFICES ASSUME FlowType, FlowInv, TimedInv, AccessInv, KeyedInv, [Next]_vars PROVE KeyedInv'
    OBVIOUS
<1>1. workload' = workload /\ Asked' = Asked /\ \A q \in Asked : Kind(q)' = Kind(q)
    BY StepMoves DEF Asked, Kind, Command
<1>2. ReceiptsGrow
    BY AccessStep DEF AccessGrows
<1>3. ASSUME NEW q \in Asked, Kind(q) \in KeyedKinds, stage[q] \notin {"idle", "done"},
             stage'[q] = stage[q], context'[q] = context[q]
      PROVE  Stands(q)'
  <2>1. PICK kind, command, step, c :
            /\ kind = Kind(q) /\ command = Commanded(q) /\ step = stage[q] /\ c = context[q]
            /\ Reaches(kind, command, step, c)
      BY <1>3 DEF KeyedInv, Stands
  <2>2. command = Commanded(q)' /\ kind = Kind(q)'
      BY <1>1, <1>3, <2>1, CommandedStays
  <2>3. Reaches(kind, command, step, c)'
      BY <1>2, <2>1, ReachesOn
  <2> QED BY <1>3, <2>1, <2>2, <2>3 DEF Stands
<1>4. ASSUME NEW q \in Asked, Kind(q) \in KeyedKinds, Answered(q)
      PROVE  Answers(q)' /\ stage'[q] = "done"
  <2>1. PICK kind, command, c :
            /\ kind = Kind(q) /\ command = Commanded(q) /\ outcome[q] = Answer(c)
            /\ Reaches(kind, command, "answer", c)
      BY <1>4 DEF KeyedInv, Answers
  <2>2. stage[q] = "done" /\ Same(q)
      BY <1>4, AnsweredStays DEF FlowInv
  <2>3. command = Commanded(q)' /\ kind = Kind(q)' /\ outcome'[q] = Answer(c)
      BY <1>1, <2>1, <2>2, CommandedStays DEF Same
  <2>4. Reaches(kind, command, "answer", c)'
      BY <1>2, <2>1, ReachesOn
  <2> QED BY <2>1, <2>2, <2>3, <2>4 DEF Answers, Answer, Same
<1>5. ASSUME NEW q \in Asked, Kind(q) \in KeyedKinds, ~Answered(q)
      PROVE  /\ stage'[q] \notin {"idle", "done"} => Stands(q)'
             /\ Answered(q)' => Answers(q)'
  <2>1. CASE Same(q)
      BY <1>3, <1>5, <2>1 DEF Same, Answered
  <2>2. CASE Send(q)
    <3>1. ~Answered(q)'
        BY <2>2 DEF Send, Answered, NoResult, Error, FlowType
    <3> QED BY <1>5, <2>2, <3>1, KeyedSent
  <2>3. CASE Fail(q)
      BY <2>3 DEF Fail, Answered, Error, FlowType
  <2>4. CASE Deliver(q)
    <3>1. /\ stage[q] = "answer" /\ stage'[q] = "done"
          /\ outcome'[q] \in {Error("internal_error"), Answer(context[q])}
        BY <2>4 DEF Deliver, At, Shown, FlowType
    <3>2. PICK kind, command, c :
              /\ kind = Kind(q) /\ command = Commanded(q) /\ c = context[q]
              /\ Reaches(kind, command, "answer", c)
        BY <1>5, <3>1 DEF KeyedInv, Stands
    <3>3. command = Commanded(q)' /\ kind = Kind(q)'
        BY <1>1, <3>1, <3>2, CommandedStays
    <3>4. Reaches(kind, command, "answer", c)'
        BY <1>2, <3>2, ReachesOn
    <3>5. Answered(q)' => outcome'[q] = Answer(c)
        BY <3>1, <3>2 DEF Answered, Error
    <3> QED BY <3>1, <3>2, <3>3, <3>4, <3>5 DEF Answers
  <2>5. CASE (SoftwareStep(q) \/ AdminStep(q)) /\ stage'[q] = "done"
      BY <2>5, StepsGo DEF Refused, Answered, FlowType
  <2>6. CASE (SoftwareStep(q) \/ AdminStep(q)) /\ stage'[q] # "done"
    <3>1. stage[q] \notin {"idle", "done", "answer"}
        BY <2>6, StepsBegin
    <3>2. PICK kind, command, step, c :
              /\ kind = Kind(q) /\ command = Commanded(q) /\ step = stage[q] /\ c = context[q]
              /\ Reaches(kind, command, step, c)
        BY <1>5, <3>1 DEF KeyedInv, Stands
    <3>3. command = Commanded(q)' /\ kind = Kind(q)'
        BY <1>1, <3>1, <3>2, CommandedStays
    <3>4. step \in DOMAIN NextStep
        BY <3>1, <3>2, ReachesTo DEF Reaches, NextStep
    <3>5. SoftwareStep(q)
      <4>1. \A a, b : <<a, b>> \in Ways => a \notin DOMAIN NextStep
          BY DEF Ways, NextStep
      <4> QED BY <2>6, <3>2, <3>4, <4>1, AdminWays
    <3>6. PICK d : d = context'[q]
        OBVIOUS
    <3>7. stage'[q] = NextStep[step] /\ Makes(step, c, d)'
        BY <2>6, <3>2, <3>4, <3>5, <3>6, StepMakes
    <3>8. PICK next : next = NextStep[step]
        OBVIOUS
    <3>9. Reaches(kind, command, next, d)'
        BY <1>2, <3>2, <3>4, <3>7, <3>8, ReachesOn
    <3>10. Stands(q)'
        BY <3>2, <3>3, <3>6, <3>7, <3>8, <3>9 DEF Stands
    <3>11. ~Answered(q)'
        BY <1>5, <2>6, StepsGo DEF Goes, Answered
    <3> QED BY <3>10, <3>11
  <2> QED BY <2>1, <2>2, <2>3, <2>4, <2>5, <2>6, Turns
<1> QED BY <1>1, <1>4, <1>5 DEF KeyedInv

\* A keyed request, and its answer, are always what its command and the receipts make of it.
THEOREM KeyedCorrect == Spec => []KeyedInv
<1>1. Init => KeyedInv
  <2> SUFFICES ASSUME Init PROVE KeyedInv
      OBVIOUS
  <2>1. \A q \in Asked : stage[q] = "idle" /\ ~Answered(q)
      BY DEF Init, Asked, Answered, NoResult
  <2> QED BY <2>1 DEF KeyedInv
<1> QED BY <1>1, KeyedStep, FlowCorrect, TokensCorrect, SnapshotsCorrect, PTL DEF Spec

\* Requests with one key and one command are answered alike, down to the audit reference and
\* to the time a credential begins, however their calls, failures and repetitions interleave.
THEOREM KeyedRequestsAgree == Spec => []KeyedAnswersAgree
<1>1. FlowType /\ KeyedInv => KeyedAnswersAgree
  <2> SUFFICES ASSUME FlowType, KeyedInv, NEW r \in Asked, NEW q \in Asked,
                      Command(r) = Command(q), "key" \in DOMAIN Command(r).with,
                      Answered(r), Answered(q)
               PROVE  outcome[r] = outcome[q]
      BY DEF KeyedAnswersAgree
  <2>1. PICK kind, command : kind = Kind(r) /\ command = Commanded(r)
      OBVIOUS
  <2>2. kind = Kind(q) /\ command = Commanded(q)
      BY <2>1 DEF Kind, Commanded
  <2>3. kind \in KeyedKinds
      BY <2>1, WorkloadsAssumption DEF FlowType, Kind, Command, Asked
  <2>4. kind \in Proving => {"actor", "key", "product"} \subseteq DOMAIN command
    <3>1. kind \in Proving =>
              {"actor", "key", "product"} \subseteq DOMAIN Command(r).with \cup DOMAIN Command(r).uses
        BY <2>1, <2>3, WorkloadsAssumption DEF FlowType, Kind, Command, Asked, Proving
    <3> QED BY <2>1, <3>1 DEF Commanded, Joined
  <2>5. PICK c : outcome[r] = Answer(c) /\ Reaches(kind, command, "answer", c)
      BY <2>1, <2>3 DEF KeyedInv, Answers
  <2>6. PICK e : outcome[q] = Answer(e) /\ Reaches(kind, command, "answer", e)
      BY <2>2, <2>3 DEF KeyedInv, Answers
  <2> QED BY <2>3, <2>4, <2>5, <2>6, ReachesOne
<1> QED BY <1>1, FlowCorrect, KeyedCorrect, PTL

-----------------------------------------------------------------------------
(* Guesses of a password.                                                  *)

\* How many guesses one after another a window allows up to some time after it began: those
\* up to the first block, and one after each block that ran out.
Allowed(time) == MaximumAttempts + time \div BlockDuration

\* A counter that has counted is typed.
CounterTyped(row) == row.count \in Nat \ {0} /\ row.since \in Nat \ {0} /\ row.until \in Nat

\* So many guesses, d, more than the windows before it allow fit the window of a counter,
\* of which the last was sent at time t: they are those that it counts, and, once it has
\* blocked, no more than are allowed until then.  When they are as many, it blocks still.
Fits(row, d, t) ==
    /\ row.since <= t /\ t <= row.since + LoginWindow
    /\ d <= row.count
    /\ row.count >= MaximumAttempts =>
          /\ d <= Allowed(t - row.since)
          /\ d < Allowed(t - row.since) \/ row.until >= t + BlockDuration

\* A guess that was sent at some time and has, or has not, seen that the counter does not
\* block may be counted next: others were counted more often, or it came after the last
\* one, and when it saw the counter no block was left.
MayFollow(row, d, t, at, seen) ==
    \/ d <= -row.count
    \/ /\ t <= at
       /\ seen /\ row.count >= MaximumAttempts => d < Allowed(t - row.since) \/ row.until <= at

\* Quotients grow with what is divided.
LEMMA Quotients ==
    ASSUME NEW b \in Nat \ {0}, NEW x \in Nat, NEW y \in Nat
    PROVE  /\ x \div b \in Nat
           /\ x <= y => x \div b <= y \div b
           /\ x + b <= y => x \div b + 1 <= y \div b
<1>1. ASSUME NEW z \in Nat
      PROVE  z \div b \in Nat /\ b * (z \div b) <= z /\ z < b * (z \div b) + b
    OBVIOUS
<1>2. ASSUME NEW i \in Nat, NEW j \in Nat, NEW z \in Nat, b * i <= z, z <= y, y < b * j + b
      PROVE  i <= j
  <2>1. SUFFICES ASSUME i >= j + 1 PROVE FALSE
      BY <1>2
  <2>2. PICK e \in Nat : i = j + 1 + e
    <3>1. i - (j + 1) \in Nat
        BY <2>1
    <3> QED BY <3>1
  <2>3. b * i = b * j + b + b * e /\ b * e >= 0
      BY <2>2
  <2> QED BY <1>2, <2>3
<1>3. x <= y => x \div b <= y \div b
    BY <1>1, <1>2
<1>4. ASSUME x + b <= y PROVE x \div b + 1 <= y \div b
  <2>1. PICK i \in Nat : i = x \div b /\ b * i <= x
      BY <1>1
  <2>2. b * (i + 1) = b * i + b
      OBVIOUS
  <2>3. b * (i + 1) <= y
      BY <1>4, <2>1, <2>2
  <2>4. i + 1 <= y \div b
      BY <1>1, <1>2, <2>3
  <2> QED BY <2>1, <2>4
<1> QED BY <1>1, <1>3, <1>4

LEMMA AllowedIs ==
    /\ LoginWindow \in Nat \ {0} /\ BlockDuration \in Nat \ {0} /\ MaximumAttempts \in Nat \ {0, 1, 2}
    /\ \A x \in Nat : Allowed(x) \in Nat /\ MaximumAttempts <= Allowed(x)
    /\ \A x, y \in Nat : x <= y => Allowed(x) <= Allowed(y)
    /\ \A x, y \in Nat : x + BlockDuration <= y => Allowed(x) + 1 <= Allowed(y)
    /\ Allowed(LoginWindow) = GuessesPerWindow
<1>1. PICK b, m : b = BlockDuration /\ m = MaximumAttempts
    OBVIOUS
<1>2. LoginWindow \in Nat \ {0} /\ b \in Nat \ {0} /\ m \in Nat \ {0, 1, 2}
    BY <1>1, PolicyAssumption
<1>3. \A x, y \in Nat : /\ x \div b \in Nat
                        /\ x <= y => x \div b <= y \div b
                        /\ x + b <= y => x \div b + 1 <= y \div b
    BY <1>2, Quotients
<1> QED BY <1>1, <1>2, <1>3 DEF Allowed, GuessesPerWindow

\* Fewer guesses fit as well.
LEMMA FewerFit ==
    ASSUME NEW row, CounterTyped(row), NEW t \in Nat, NEW d \in Int, NEW e \in Int, e <= d,
           Fits(row, d, t)
    PROVE  /\ Fits(row, e, t)
           /\ \A at \in Nat, seen \in BOOLEAN :
                 MayFollow(row, d, t, at, seen) => MayFollow(row, e, t, at, seen)
<1>1. PICK a \in Nat : a = Allowed(t - row.since)
    BY AllowedIs DEF Fits, CounterTyped
<1>2. MaximumAttempts \in Nat
    BY PolicyAssumption
<1> QED BY <1>1, <1>2 DEF Fits, MayFollow, CounterTyped

\* A window is never given more than it allows.
LEMMA WindowAllows ==
    ASSUME NEW row, CounterTyped(row), NEW t \in Nat, NEW d \in Int, Fits(row, d, t)
    PROVE  d <= GuessesPerWindow
<1>1. PICK x \in Nat : x = t - row.since /\ x <= LoginWindow
    BY PolicyAssumption DEF Fits, CounterTyped
<1>2. Allowed(x) \in Nat /\ Allowed(x) <= GuessesPerWindow /\ MaximumAttempts <= Allowed(x)
    BY <1>1, AllowedIs
<1>3. MaximumAttempts \in Nat /\ GuessesPerWindow \in Nat
    BY AllowedIs
<1> QED BY <1>1, <1>2, <1>3 DEF Fits, CounterTyped

\* What is counted fits: the next guess, one of another, and the first of a window.
LEMMA NextFits ==
    ASSUME NEW row, CounterTyped(row), NEW t \in Nat, NEW at \in Nat, NEW d \in Int,
           Fits(row, d, t), MayFollow(row, d, t, at, TRUE), ~WindowOver(row, at),
           NEW new, new.count = row.count + 1, new.since = row.since,
           new.count >= MaximumAttempts => new.until = at + BlockDuration
    PROVE  Fits(new, d + 1, t) \/ Fits(new, d + 1, at)
<1>0. /\ MaximumAttempts \in Nat \ {0, 1, 2} /\ LoginWindow \in Nat /\ BlockDuration \in Nat \ {0}
      /\ row.count \in Nat \ {0} /\ row.since \in Nat /\ row.until \in Nat
    BY PolicyAssumption DEF CounterTyped
<1>1. at <= row.since + LoginWindow
    BY <1>0 DEF WindowOver
<1>2. PICK a \in Nat : a = Allowed(t - row.since) /\ MaximumAttempts <= a
    BY <1>0, AllowedIs DEF Fits
<1>3. CASE d <= -row.count
    BY <1>0, <1>2, <1>3 DEF Fits
<1>4. CASE ~(d <= -row.count)
  <2>1. t <= at /\ (row.count >= MaximumAttempts => d < a \/ row.until <= at)
      BY <1>2, <1>4 DEF MayFollow
  <2>2. PICK c \in Nat : c = Allowed(at - row.since) /\ MaximumAttempts <= c
      BY <1>0, <2>1, AllowedIs DEF Fits
  <2>3. a <= c /\ (t + BlockDuration <= at => a + 1 <= c)
    <3>1. PICK x \in Nat, y \in Nat : x = t - row.since /\ y = at - row.since
        BY <1>0, <2>1 DEF Fits
    <3>2. x <= y /\ (t + BlockDuration <= at => x + BlockDuration <= y)
        BY <1>0, <2>1, <3>1
    <3> QED BY <1>2, <2>2, <3>1, <3>2, AllowedIs
  <2>4. row.count >= MaximumAttempts => d + 1 <= c
      BY <1>0, <1>2, <2>1, <2>2, <2>3 DEF Fits
  <2>5. row.count < MaximumAttempts => d + 1 <= c
      BY <1>0, <2>2 DEF Fits
  <2>6. Fits(new, d + 1, at)
      BY <1>0, <1>1, <2>1, <2>2, <2>4, <2>5 DEF Fits
  <2> QED BY <2>6
<1> QED BY <1>3, <1>4

LEMMA OtherFits ==
    ASSUME NEW row, CounterTyped(row), NEW t \in Nat, NEW d \in Int, Fits(row, d, t),
           NEW new, new.count = row.count + 1, new.since = row.since
    PROVE  /\ Fits(new, d - 1, t)
           /\ \A at \in Nat, seen \in BOOLEAN :
                 MayFollow(row, d, t, at, seen) => MayFollow(new, d - 1, t, at, seen)
<1>0. /\ MaximumAttempts \in Nat \ {0, 1, 2} /\ LoginWindow \in Nat /\ BlockDuration \in Nat \ {0}
      /\ row.count \in Nat \ {0} /\ row.since \in Nat
    BY PolicyAssumption DEF CounterTyped
<1>1. PICK a \in Nat : a = Allowed(t - row.since) /\ MaximumAttempts <= a
    BY <1>0, AllowedIs DEF Fits
<1>2. new.count >= MaximumAttempts => d - 1 < a
    BY <1>0, <1>1 DEF Fits
<1>3. Fits(new, d - 1, t)
    BY <1>0, <1>1, <1>2 DEF Fits
<1>4. ASSUME NEW at \in Nat, NEW seen \in BOOLEAN, MayFollow(row, d, t, at, seen)
      PROVE  MayFollow(new, d - 1, t, at, seen)
    BY <1>0, <1>1, <1>2, <1>4 DEF MayFollow
<1> QED BY <1>3, <1>4

LEMMA FirstFits ==
    ASSUME NEW at \in Nat, NEW e \in Int, e <= 1, NEW new, new.count = 1, new.since = at
    PROVE  /\ Fits(new, e, at)
           /\ e <= -1 => \A time \in Nat, seen \in BOOLEAN : MayFollow(new, e, at, time, seen)
<1>0. MaximumAttempts \in Nat \ {0, 1, 2} /\ LoginWindow \in Nat
    BY PolicyAssumption
<1> QED BY <1>0 DEF Fits, MayFollow

\* The sessions on an account whose login is not about to clear the counters any more.
Cleared(i) ==
    {s \in SessionsOn(i) : \A q \in Asked : stage[q] = "clear_failures" => s # NewId(q)}

\* The windows that were over at some time; those that a counter, which each login has
\* cleared, may have had before its present one; the room these gave; and the guesses one
\* after another that go beyond it, and beyond one for each of the others.
WindowsUntil(time) == (time - 1) \div (LoginWindow + 1)
WindowsOver(k) ==
    Cardinality(Cleared(k[1])) * Windows
        + (IF k \in DOMAIN loginFailures THEN WindowsUntil(loginFailures[k].since) ELSE 0)
Room(k) == GuessesPerWindow * WindowsOver(k)
Excess(k, S) ==
    Cardinality(FailedGuesses(k, S)) - Cardinality(FailedGuesses(k, Asked \ S)) - Room(k)

LEMMA WindowsPass ==
    /\ Windows = 1 + WindowsUntil(now)
    /\ \A a \in Nat \ {0} : WindowsUntil(a) \in Nat
    /\ \A a, b \in Nat \ {0} : a <= b => WindowsUntil(a) <= WindowsUntil(b)
    /\ \A a, b \in Nat \ {0} : a + LoginWindow < b => WindowsUntil(a) + 1 <= WindowsUntil(b)
<1>1. PICK w, l : w = LoginWindow + 1 /\ l = LoginWindow
    OBVIOUS
<1>2. w \in Nat \ {0} /\ l \in Nat /\ w = l + 1
    BY <1>1, PolicyAssumption
<1>3. ASSUME NEW a \in Nat \ {0}, NEW b \in Nat \ {0}
      PROVE  /\ (a - 1) \div w \in Nat
             /\ a <= b => (a - 1) \div w <= (b - 1) \div w
             /\ a + l < b => (a - 1) \div w + 1 <= (b - 1) \div w
  <2>1. PICK x \in Nat, y \in Nat : x = a - 1 /\ y = b - 1
    <3>1. a - 1 \in Nat /\ b - 1 \in Nat
        OBVIOUS
    <3> QED BY <3>1
  <2>2. (a <= b => x <= y) /\ (a + l < b => x + w <= y)
      BY <1>2, <2>1
  <2> QED BY <1>2, <2>1, <2>2, Quotients
<1> QED BY <1>1, <1>3 DEF WindowsUntil, Windows

LEMMA Products ==
    ASSUME NEW a \in Nat, NEW b \in Nat, NEW c \in Nat, NEW d \in Nat, a <= c, b <= d
    PROVE  a * b \in Nat /\ c * d \in Nat /\ a * b <= c * d
<1>1. PICK x \in Nat, y \in Nat : c = a + x /\ d = b + y
  <2>1. c - a \in Nat /\ d - b \in Nat
      OBVIOUS
  <2> QED BY <2>1
<1>2. c * d = a * b + a * y + x * b + x * y
    BY <1>1
<1>3. a * y >= 0 /\ x * b >= 0 /\ x * y >= 0 /\ a * b \in Nat
    OBVIOUS
<1> QED BY <1>2, <1>3

\* What windows allow grows with them.
LEMMA RoomGrows ==
    ASSUME NEW g \in Nat, NEW n \in Nat, NEW m \in Nat, NEW w \in Nat, NEW x \in Nat,
           NEW u \in Nat, NEW v \in Nat, n <= m, w <= x
    PROVE  /\ g * (n * w + u) \in Nat /\ g * (m * x + v) \in Nat
           /\ u <= v => g * (n * w + u) <= g * (m * x + v)
           /\ u + 1 <= v => g * (n * w + u) + g <= g * (m * x + v)
           /\ u + 1 <= x /\ n + 1 <= m => g * (n * w + u) + g <= g * (m * x + v)
<1>1. PICK a \in Nat, b \in Nat : a = n * w /\ b = m * x /\ a <= b
    BY Products
<1>2. u + 1 <= x /\ n + 1 <= m => a + u + 1 <= b
  <2>1. SUFFICES ASSUME u + 1 <= x, n + 1 <= m PROVE a + u + 1 <= b
      OBVIOUS
  <2>2. n * w <= n * x /\ n * x \in Nat /\ (n + 1) * x <= m * x
      BY <2>1, Products
  <2>3. (n + 1) * x = n * x + x
      OBVIOUS
  <2> QED BY <1>1, <2>1, <2>2, <2>3
<1>3. PICK c \in Nat, d \in Nat : c = a + u /\ d = b + v
    OBVIOUS
<1>4. g * c \in Nat /\ g * d \in Nat /\ (c <= d => g * c <= g * d)
    BY Products
<1>5. c + 1 <= d => g * c + g <= g * d
  <2>1. SUFFICES ASSUME c + 1 <= d PROVE g * c + g <= g * d
      OBVIOUS
  <2>2. g * (c + 1) <= g * d
      BY <2>1, Products
  <2>3. g * (c + 1) = g * c + g
      OBVIOUS
  <2> QED BY <2>2, <2>3
<1> QED BY <1>1, <1>2, <1>3, <1>4, <1>5

\* A login is on its way to be counted.
Guesses(q, k) == Kind(q) = "login" /\ stage[q] \in Trying /\ Counter(context[q]) = k

\* The guesses of a counter fit its window, and each of them that is on its way may follow;
\* when there is no counter, they do not go beyond those that were cleared.
GuessesFit(k, S) ==
    IF k \notin DOMAIN loginFailures THEN Excess(k, S) <= 0
    ELSE \E t \in Nat :
            /\ t <= now
            /\ Fits(loginFailures[k], Excess(k, S), t)
            /\ \A q \in S : Guesses(q, k) =>
                  MayFollow(loginFailures[k], Excess(k, S), t, context[q].at,
                            stage[q] # "login_throttle")

CountInv == \A k : \A S \in SUBSET Asked : OneByOne(S) => GuessesFit(k, S)

\* A login whose password was right is on an account, and before it clears the counters it
\* has made a session.
Knows(q) ==
    /\ stage[q] \in {"login_version", "login_bindings", "create_admin_session", "clear_failures"}
       => context[q].identifier \in DOMAIN users
    /\ stage[q] = "clear_failures" => NewId(q) \in SessionsOn(context[q].identifier)

Failures == {e \in identityEvents : e.type \in {"login_failed", "account_locked"}}

\* What the guesses rest on: the clock runs, rows are typed and events told under new
\* identifiers, and a request comes behind others only when they are over.
GuessInv ==
    /\ now >= 1
    /\ IsFiniteSet(identityEvents) /\ IsFiniteSet(DOMAIN adminSessions)
    /\ Fresh({e.id : e \in Failures}, Trying)
    /\ \A q \in Asked : Kind(q) = "login" /\ stage[q] # "idle" => context[q].at >= 1
    /\ \A q \in Asked : Kind(q) = "login" => Knows(q)
    /\ \A k \in DOMAIN loginFailures :
          CounterTyped(loginFailures[k]) /\ loginFailures[k].since <= now
    /\ \A q \in Asked : stage[q] # "idle" => \A x \in Command(q).behind \cap Asked : Over(x)

\* Something else was told, or nothing.
TellsNoGuess ==
    \/ UNCHANGED identityEvents
    \/ \E e : e.type \notin {"login_failed", "account_locked"} /\ identityEvents' = identityEvents \cup {e}

LEMMA TellsEvent ==
    ASSUME NEW r, NEW type, type \notin {"login_failed", "account_locked"}, NEW subject, NEW at,
           SecurityEvent(r, type, subject, at)
    PROVE  TellsNoGuess
<1>1. PICK e : e = [id |-> NewId(r), type |-> type, subject |-> subject, at |-> at]
    OBVIOUS
<1>2. e.type = type /\ identityEvents' = identityEvents \cup {e}
    BY <1>1 DEF SecurityEvent
<1> QED BY <1>2 DEF TellsNoGuess

LEMMA FamilyTells ==
    ASSUME NEW r, NEW s, NEW type, type \notin {"login_failed", "account_locked"}, NEW at,
           RevokeFamily(r, s, type, at)
    PROVE  UNCHANGED <<users, loginFailures>> /\ TellsNoGuess
BY TellsEvent DEF RevokeFamily

\* Counters change when a failure is counted or a login clears them.
LEMMA GuessWriters ==
    ASSUME NEW r, AdminStep(r)
    PROVE  \/ RecordFailureStep(r)
           \/ /\ TellsNoGuess
              /\ UNCHANGED loginFailures \/ ClearFailuresStep(r)
              /\ UNCHANGED users \/ BootstrapIdentityStep(r)
<1> USE DEF OnAccess, Reads, identityVars, identityRows
<1> DEFINE Quiet == UNCHANGED <<users, loginFailures>> /\ TellsNoGuess
<1>0. UNCHANGED identityRows => Quiet
    BY DEF TellsNoGuess
<1>1. CASE BootstrapIdentityStep(r) \/ BootstrapStep(r) \/ BootstrapAuditStep(r)
    BY <1>1 DEF BootstrapIdentityStep, BootstrapStep, BootstrapAuditStep, BootstrapIdentity, TellsNoGuess
<1>2. CASE ThrottleStep(r) \/ VerifyStep(r) \/ ClearFailuresStep(r)
    BY <1>2 DEF ThrottleStep, VerifyStep, ClearFailuresStep, ClearLoginFailures, TellsNoGuess
<1>3. CASE \/ LoginVersionStep(r) \/ LoginBindingsStep(r) \/ SessionVersionStep(r)
           \/ SessionBindingsStep(r) \/ RefreshVersionStep(r) \/ RefreshBindingsStep(r)
    BY <1>0, <1>3 DEF LoginVersionStep, LoginBindingsStep, SessionVersionStep, SessionBindingsStep,
        RefreshVersionStep, RefreshBindingsStep, ReadsVersion, ReadsBindings
<1>4. CASE \/ FindSessionStep(r) \/ SessionEndedStep(r) \/ AuthorizeVersionStep(r)
           \/ AuthorizeBindingsStep(r) \/ DecideStep(r)
    BY <1>0, <1>4 DEF FindSessionStep, FindByAccessDigest, SessionEndedStep, AuthorizeVersionStep,
        AuthorizeBindingsStep, DecideStep
<1>5. CASE LockTokenStep(r) \/ LockSessionStep(r) \/ DeadlockStep(r)
    BY <1>0, <1>5 DEF LockTokenStep, LockSessionStep, LocksRows, DeadlockStep, GivesUp
<1>6. CASE ResolveClientStep(r) \/ InspectStep(r) \/ ReadProofsStep(r)
    BY <1>0, <1>6 DEF ResolveClientStep, InspectStep, InspectRefresh, ReadProofsStep
<1>7. CASE RotateRefreshStep(r)
  <2>1. PICK c, csrf : RotateRefresh(r, c, c.at, csrf)
      BY <1>7 DEF RotateRefreshStep
  <2>2. ASSUME NEW s, RevokesReplayed(r, s, c.at) PROVE Quiet
      BY <1>0, <2>2, FamilyTells DEF RevokesReplayed
  <2>3. ASSUME RotatesTokens(r, c, c.at, csrf) PROVE Quiet
      BY <2>3, TellsEvent DEF RotatesTokens
  <2> QED BY <1>0, <2>1, <2>2, <2>3 DEF RotateRefresh, GivesUp
<1>8. ASSUME NEW t, NEW transport, NEW type, NEW at, RevokeByToken(r, t, transport, type, at)
      PROVE  Quiet
    BY <1>0, <1>8, FamilyTells DEF RevokeByToken, GivesUp
<1>9. CASE RevokeScopelessStep(r)
    BY <1>8, <1>9 DEF RevokeScopelessStep
<1>10. CASE LogoutStep(r)
  <2>1. CASE RevokeByToken(r, context[r].access, "bearer", "access", context[r].at)
      BY <1>8, <2>1
  <2>2. CASE RevokeCookieSession(r, context[r], context[r].at)
      BY <1>0, <2>2, FamilyTells DEF RevokeCookieSession, GivesUp
  <2> QED BY <1>10, <2>1, <2>2 DEF LogoutStep
<1>11. CASE RegisterAdminClientStep(r) \/ AddAdminCredentialStep(r)
    BY <1>0, <1>11, TellsEvent DEF RegisterAdminClientStep, AddAdminCredentialStep,
        RegisterControlledClient, AddControlledClientCredential
<1>12. CASE DisableSessionsStep(r) \/ WithdrawStep(r)
    BY <1>0, <1>12 DEF DisableSessionsStep, WithdrawStep, UpdateSessions, LocksRows
<1>13. CASE EndClientStep(r)
    BY <1>13, TellsEvent DEF EndClientStep, DisableControlledClient, RevokeControlledClientCredential
<1>14. CASE CreateAdminSessionStep(r)
    BY <1>14, TellsEvent DEF CreateAdminSessionStep, CreateAdminSession
<1> QED
    BY <1>1, <1>2, <1>3, <1>4, <1>5, <1>6, <1>7, <1>9, <1>10, <1>11, <1>12, <1>13, <1>14 DEF AdminStep

\* A login is about to clear the counters since it has just made its session.
LEMMA ClearingComes ==
    ASSUME FlowType, FlowInv, [Next]_vars, NEW q \in Asked, stage'[q] = "clear_failures"
    PROVE  Same(q) \/ (AdminStep(q) /\ stage[q] = "create_admin_session" /\ attempt'[q] = attempt[q])
<1>1. ~Send(q)
  <2>1. Send(q) => stage'[q] \in {"done", FirstStep[Kind(q)]}
      BY DEF Send, FlowType
  <2>2. Kind(q) \in DOMAIN FirstStep
      BY WorkloadsAssumption DEF FlowType, Kind, Command, Asked
  <2>3. FirstStep[Kind(q)] # "clear_failures"
      BY <2>2 DEF FirstStep
  <2> QED BY <2>1, <2>3
<1>2. ~Deliver(q) /\ ~Fail(q)
    BY DEF Deliver, Fail, FlowType
<1>3. ~SoftwareStep(q)
    BY SoftwareWays DEF SoftwareStages
<1>4. CASE AdminStep(q)
  <2>1. <<stage[q], stage'[q]>> \in Ways
      BY <1>4, AdminWays
  <2>2. attempt'[q] = attempt[q]
      BY <1>4, AdminMoves DEF MovesTo
  <2> QED BY <1>4, <2>1, <2>2 DEF Ways
<1> QED BY <1>1, <1>2, <1>3, <1>4, Turns

\* Accounts stay, and so do the sessions on them, and what they have cleared.
LEMMA AccountsStay ==
    ASSUME FlowType, FlowInv, TimedInv, TokenInv, [Next]_vars
    PROVE  /\ \A i \in DOMAIN users : i \in DOMAIN users' /\ users'[i] = users[i]
           /\ \A i : SessionsOn(i) \subseteq SessionsOn(i)' /\ Cleared(i) \subseteq Cleared(i)'
<1>1. ASSUME NEW i \in DOMAIN users PROVE i \in DOMAIN users' /\ users'[i] = users[i]
  <2>1. CASE UNCHANGED users
      BY <2>1
  <2>2. ASSUME NEW r, BootstrapIdentityStep(r) PROVE i \in DOMAIN users' /\ users'[i] = users[i]
    <3>1. BootstrapIdentity(r, context[r])
        BY <2>2 DEF BootstrapIdentityStep
    <3> QED BY <3>1 DEF BootstrapIdentity, Added
  <2>3. ASSUME NEW r, RecordFailureStep(r) PROVE UNCHANGED users
      BY <2>3 DEF RecordFailureStep, RecordLoginFailure
  <2> QED BY <2>1, <2>2, <2>3, IdentityWriters, GuessWriters DEF identityRows
<1>2. ASSUME NEW i, NEW s \in SessionsOn(i) PROVE s \in SessionsOn(i)'
  <2>1. s \in DOMAIN adminSessions /\ i \in DOMAIN users /\ adminSessions[s].user = users[i].user
      BY <1>2 DEF SessionsOn
  <2>2. s \in DOMAIN adminSessions' /\ adminSessions'[s].user = adminSessions[s].user
      BY <2>1, TokensStaySound DEF TokensGrow, SessionGrows
  <2>3. i \in DOMAIN users' /\ users'[i] = users[i]
      BY <1>1, <2>1
  <2> QED BY <2>1, <2>2, <2>3 DEF SessionsOn
<1>3. ASSUME NEW i, NEW s \in Cleared(i) PROVE s \in Cleared(i)'
  <2>1. s \in SessionsOn(i) /\ s \in SessionsOn(i)' /\ s \in DOMAIN adminSessions
      BY <1>2, <1>3 DEF Cleared, SessionsOn
  <2>2. ASSUME NEW q \in Asked, stage'[q] = "clear_failures" PROVE s # NewId(q)'
    <3>1. CASE Same(q)
        BY <1>3, <2>2, <3>1 DEF Cleared, Same, NewId
    <3>2. CASE stage[q] = "create_admin_session" /\ attempt'[q] = attempt[q]
      <4>1. stage[q] \in MakesToken
          BY <3>2 DEF MakesToken
      <4>2. NewId(q) \notin DOMAIN adminSessions
          BY <4>1 DEF TokenInv, Fresh, NewId
      <4> QED BY <2>1, <3>2, <4>2 DEF NewId
    <3> QED BY <2>2, <3>1, <3>2, ClearingComes
  <2>3. Asked' = Asked
      BY StepMoves DEF Asked
  <2> QED BY <2>1, <2>2, <2>3 DEF Cleared
<1> QED BY <1>1, <1>2, <1>3

\* The steps of a login that come after its password was found right.
LEMMA KnowsStays ==
    ASSUME FlowType, FlowInv, TimedInv, HasInv, TokenInv, GuessInv, [Next]_vars,
           NEW q \in Asked, Kind(q) = "login"
    PROVE  Knows(q)'
<1> DEFINE Verified == {"login_version", "login_bindings", "create_admin_session", "clear_failures"}
<1> SUFFICES ASSUME stage'[q] \in Verified PROVE Knows(q)'
    BY DEF Knows
<1>0. Kind(q) \in Handled /\ Kind(q) \in Timed
    BY DEF Handled, Timed
<1>1. ~Send(q)
  <2>1. Send(q) => stage'[q] \in {"done", "login_throttle"}
      BY DEF Send, FlowType, FirstStep
  <2> QED BY <2>1
<1>2. ~Deliver(q) /\ ~Fail(q)
    BY DEF Deliver, Fail, FlowType
<1>3. stage[q] # "idle"
    BY <1>1, HasStays
<1>4. PICK i : i = context[q].identifier
    OBVIOUS
<1>5. context'[q].identifier = i
  <2>0. Fields("login") = {"identifier", "source"}
      BY DEF Fields, Enders
  <2>1. "identifier" \in DOMAIN context[q]
      BY <1>0, <1>3, <2>0 DEF HasInv
  <2>2. "identifier" \notin Writes(stage[q])
      BY DEF Writes
  <2>3. Keeps(q, "identifier")
      BY <1>0, <1>1, <2>2, Keeping
  <2> QED BY <1>4, <2>1, <2>3 DEF Keeps
<1>6. /\ i \in DOMAIN users => i \in DOMAIN users'
      /\ SessionsOn(i) \subseteq SessionsOn(i)'
    BY AccountsStay
<1>7. CASE Same(q)
    BY <1>4, <1>5, <1>6, <1>7 DEF GuessInv, Knows, Same, NewId
<1>8. CASE AdminStep(q)
  <2>1. stage'[q] # "done" /\ stage'[q] # "answer"
      OBVIOUS
  <2>2. <<stage[q], stage'[q]>> \in Ways
      BY <1>8, <2>1, AdminWays
  <2>3. stage[q] \in {"verify_login", "login_version", "login_bindings", "create_admin_session"}
      BY <2>2 DEF Ways
  <2>4. stage'[q] = "clear_failures" <=> stage[q] = "create_admin_session"
      BY <2>2, <2>3 DEF Ways
  <2>5. CASE stage[q] = "verify_login"
    <3>1. VerifyStep(q)
        BY <1>8, <2>1, <2>5, StepAt
    <3>2. PasswordOK(context[q])
        BY <2>1, <3>1, GoesOnWith DEF VerifyStep
    <3> QED BY <1>4, <1>5, <1>6, <2>4, <2>5, <3>2 DEF PasswordOK, Knows
  <2>6. CASE stage[q] \in {"login_version", "login_bindings"}
    <3>1. i \in DOMAIN users
        BY <1>4, <2>6 DEF GuessInv, Knows
    <3> QED BY <1>5, <1>6, <2>4, <2>6, <3>1 DEF Knows
  <2>7. CASE stage[q] = "create_admin_session"
    <3>1. i \in DOMAIN users
        BY <1>4, <2>7 DEF GuessInv, Knows
    <3>2. CreateAdminSession(q, context[q], context[q].at)
        BY <1>8, <2>1, <2>7, StepAt DEF CreateAdminSessionStep
    <3>3. PICK s, row : /\ adminSessions' = Added(adminSessions, s, row) /\ row.user = users[i].user
                        /\ s \notin DOMAIN adminSessions /\ s = NewId(q)
      <4>1. stage[q] \in MakesToken
          BY <2>7 DEF MakesToken
      <4>2. NewId(q) \notin DOMAIN adminSessions
          BY <4>1 DEF TokenInv, Fresh, NewId
      <4> QED BY <1>4, <3>2, <4>2 DEF CreateAdminSession
    <3>4. users' = users
        BY <3>2 DEF CreateAdminSession
    <3>5. s \in DOMAIN adminSessions' /\ adminSessions'[s].user = users'[i].user
        BY <3>3, <3>4 DEF Added
    <3>6. NewId(q)' = s
        BY <1>8, <3>3, AdminMoves DEF NewId, MovesTo
    <3>7. NewId(q)' \in SessionsOn(i)'
        BY <3>1, <3>4, <3>5, <3>6 DEF SessionsOn
    <3> QED BY <1>5, <1>6, <3>1, <3>7 DEF Knows
  <2> QED BY <2>3, <2>5, <2>6, <2>7
<1>9. ~SoftwareStep(q)
    BY <1>0, RouteStep, HandledAre
<1> QED BY <1>1, <1>2, <1>7, <1>8, <1>9, Turns

\* A request comes behind others only when they are over, which they stay.
LEMMA BehindOver ==
    ASSUME FlowType, FlowInv, GuessInv, [Next]_vars, NEW q \in Asked, stage'[q] # "idle",
           NEW x \in Command(q).behind \cap Asked
    PROVE  Over(x)'
<1>1. Over(x) => Over(x)'
  <2>1. SUFFICES ASSUME Over(x) PROVE Same(x)
      BY DEF Over, Same
  <2>2. stage[x] = "done" /\ ~Send(x) /\ ~Deliver(x) /\ ~Fail(x)
      BY <2>1 DEF Over, Send, Deliver, Fail, At, Under
  <2> QED BY <2>2, Turns, StepsBegin
<1>2. CASE Send(q)
    BY <1>1, <1>2 DEF Send, GuessInv
<1>3. CASE ~Send(q)
    BY <1>1, <1>3, HasStays DEF GuessInv
<1> QED BY <1>2, <1>3

\* Of requests one by one only one is under way.
LEMMA OneUnderWay ==
    ASSUME FlowType, FlowInv, GuessInv, NEW S \in SUBSET Asked, OneByOne(S), NEW q \in S, NEW r \in S,
           stage[q] \notin {"idle", "done"}, stage[r] \notin {"idle", "done"}
    PROVE  q = r
<1>1. ASSUME NEW x \in S, NEW y \in S, stage[x] \notin {"idle", "done"}, stage[y] # "idle"
      PROVE  x \notin Command(y).after \cup Command(y).behind
    BY <1>1 DEF FlowInv, GuessInv, Over
<1> QED BY <1>1 DEF OneByOne

\* A failure is told under a new identifier.
LEMMA FailureIsNew ==
    ASSUME FlowType, GuessInv, [Next]_vars, NEW r \in Asked, RecordFailureStep(r)
    PROVE  /\ \A e \in Failures : e.id # NewId(r)
           /\ StaysFresh({e.id : e \in Failures} \cup {NewId(r)}, Trying)
<1>1. stage[r] = "record_failure" /\ stage[r] \in Trying
    BY DEF RecordFailureStep, OnIdentity, At, Trying
<1>2. AdminStep(r)
    BY DEF AdminStep
<1>3. stage'[r] \notin Trying
  <2>1. CASE stage'[r] = "done"
      BY <2>1 DEF Trying
  <2>2. CASE stage'[r] # "done"
    <3>1. <<stage[r], stage'[r]>> \in Ways
        BY <1>2, <2>2, AdminWays
    <3> QED BY <1>1, <3>1 DEF Ways
  <2> QED BY <2>1, <2>2
<1>4. Trying \in Drawing /\ Fresh({e.id : e \in Failures}, Trying)
    BY DEF Drawing, GuessInv
<1>5. PICK ids : ids = {e.id : e \in Failures}
    OBVIOUS
<1>6. NewId(r) \notin ids /\ StaysFresh(ids \cup {NewId(r)}, Trying)
    BY <1>1, <1>2, <1>3, <1>4, <1>5, DrawnAddedFresh
<1> QED BY <1>5, <1>6

\* How many failures of a counter some requests are told, when one more is told.
LEMMA ToldOnce ==
    ASSUME IsFiniteSet(identityEvents), NEW k, NEW X, NEW e, identityEvents' = identityEvents \cup {e}
    PROVE  /\ Cardinality(FailedGuesses(k, X)) \in Nat
           /\ \/ e.type \notin {"login_failed", "account_locked"} \/ e.subject # k \/ e.id[1] \notin X
              => FailedGuesses(k, X)' = FailedGuesses(k, X)
           /\ e.type \in {"login_failed", "account_locked"} /\ e.subject = k /\ e.id[1] \in X
              => Cardinality(FailedGuesses(k, X)') =
                    IF e \in identityEvents THEN Cardinality(FailedGuesses(k, X))
                    ELSE Cardinality(FailedGuesses(k, X)) + 1
<1>1. IsFiniteSet(FailedGuesses(k, X))
    BY FS_Subset DEF FailedGuesses
<1>2. PICK F : F = FailedGuesses(k, X)
    OBVIOUS
<1>3. FailedGuesses(k, X)' =
          IF e.type \in {"login_failed", "account_locked"} /\ e.subject = k /\ e.id[1] \in X
          THEN F \cup {e} ELSE F
    BY <1>2 DEF FailedGuesses
<1>4. /\ Cardinality(F) \in Nat
      /\ Cardinality(F \cup {e}) = IF e \in F THEN Cardinality(F) ELSE Cardinality(F) + 1
    BY <1>1, <1>2, FS_AddElement, FS_CardinalityType
<1>5. e.type \in {"login_failed", "account_locked"} /\ e.subject = k /\ e.id[1] \in X
      => (e \in F <=> e \in identityEvents)
    BY <1>2 DEF FailedGuesses
<1> QED BY <1>2, <1>3, <1>4, <1>5

\* A guess that is on its way was just sent, or was on its way, and it has gone past the
\* counter only when that did not block.
LEMMA GuessMoves ==
    ASSUME FlowType, FlowInv, TimedInv, HasInv, [Next]_vars, NEW q \in Asked, NEW k, Guesses(q, k)'
    PROVE  /\ Kind(q) = "login"
           /\ \/ context'[q].at = now /\ stage'[q] = "login_throttle"
              \/ /\ Guesses(q, k) /\ context'[q].at = context[q].at
                 /\ stage[q] # "login_throttle" => stage'[q] # "login_throttle"
                 /\ stage[q] = "login_throttle" /\ stage'[q] # "login_throttle" =>
                       /\ ThrottleStep(q)
                       /\ ~LoginBlocked(context[q], context[q].at)
<1>1. Kind(q)' = Kind(q) /\ Kind(q) = "login" /\ stage'[q] \in Trying
    BY StepMoves DEF Guesses, Kind, Command
<1>2. Kind(q) \in Handled /\ Kind(q) \in Timed /\ stage'[q] # "done" /\ stage'[q] # "idle"
      /\ stage'[q] # "answer"
    BY <1>1 DEF Handled, Timed, Trying
<1>3. CASE Send(q)
  <2>1. context'[q] = Joined([at |-> now], Commanded(q)) /\ stage'[q] = FirstStep["login"]
      BY <1>1, <1>2, <1>3, SentAs, PreparedIs
  <2>2. context'[q].at = now
      BY <2>1 DEF Joined
  <2> QED BY <1>1, <2>1, <2>2 DEF FirstStep
<1>4. CASE ~Send(q)
  <2>1. stage[q] # "idle"
      BY <1>2, <1>4, HasStays
  <2>2. {"identifier", "source", "at"} \subseteq DOMAIN context[q]
    <3>1. Fields("login") = {"identifier", "source"}
        BY DEF Fields, Enders
    <3> QED BY <1>1, <1>2, <2>1, <3>1 DEF HasInv, TimedInv, Dated
  <2>3. ASSUME NEW f \in {"identifier", "source", "at"} PROVE context'[q][f] = context[q][f]
    <3>1. f \notin Writes(stage[q])
        BY DEF Writes
    <3>2. Keeps(q, f)
        BY <1>2, <1>4, <3>1, Keeping
    <3> QED BY <2>2, <3>2 DEF Keeps
  <2>4. Counter(context'[q]) = Counter(context[q]) /\ context'[q].at = context[q].at
      BY <2>3 DEF Counter
  <2>5. Counter(context'[q]) = k
      BY DEF Guesses, Counter
  <2>6. ~Deliver(q) /\ ~Fail(q)
      BY <1>2 DEF Deliver, Fail, FlowType
  <2>7. ~SoftwareStep(q)
      BY <1>2, RouteStep, HandledAre
  <2>8. CASE Same(q)
      BY <1>1, <2>4, <2>5, <2>8 DEF Same, Guesses
  <2>9. CASE AdminStep(q)
    <3>1. <<stage[q], stage'[q]>> \in Ways
        BY <1>2, <2>9, AdminWays
    <3>2. stage[q] \in Trying /\ stage'[q] # "login_throttle"
        BY <1>1, <3>1 DEF Ways, Trying
    <3>3. ASSUME stage[q] = "login_throttle"
          PROVE  ThrottleStep(q) /\ ~LoginBlocked(context[q], context[q].at)
      <4>1. ThrottleStep(q)
          BY <1>2, <2>9, <3>3, StepAt
      <4>2. result'[q].kind = "ok"
          BY <1>2, <4>1, GoesOnWith DEF ThrottleStep
      <4> QED BY <4>1, <4>2, NotRefused DEF ThrottleStep
    <3> QED BY <1>1, <2>4, <2>5, <3>2, <3>3 DEF Guesses
  <2> QED BY <1>4, <2>6, <2>7, <2>8, <2>9, Turns
<1> QED BY <1>3, <1>4

\* The sessions stay finite in number.
LEMMA SessionsFinite ==
    ASSUME FlowType, [Next]_vars, IsFiniteSet(DOMAIN adminSessions)
    PROVE  IsFiniteSet(DOMAIN adminSessions')
<1>1. DOMAIN adminSessions' = DOMAIN adminSessions
      \/ \E s : DOMAIN adminSessions' = DOMAIN adminSessions \cup {s}
  <2>1. CASE UNCHANGED adminSessions
      BY <2>1
  <2>2. ASSUME NEW r, CreateAdminSessionStep(r)
        PROVE  \E s : DOMAIN adminSessions' = DOMAIN adminSessions \cup {s}
    <3>1. PICK s, row : adminSessions' = Added(adminSessions, s, row)
        BY <2>2 DEF CreateAdminSessionStep, CreateAdminSession
    <3> QED BY <3>1 DEF Added
  <2>3. ASSUME NEW r, EndClientStep(r) PROVE DOMAIN adminSessions' = DOMAIN adminSessions
      BY <2>3 DEF EndClientStep, DisableControlledClient, RevokeControlledClientCredential, RevokedSessions
  <2>4. ASSUME NEW r, Rotating(r) PROVE DOMAIN adminSessions' = DOMAIN adminSessions
      BY <2>4 DEF Rotating, RotatesTokens
  <2>5. ASSUME NEW S, NEW T, Revoking(S, T) PROVE DOMAIN adminSessions' = DOMAIN adminSessions
      BY <2>5 DEF Revoking, RevokedSessions
  <2> QED BY <2>1, <2>2, <2>3, <2>4, <2>5, IdentityWriters, TokenWriters DEF identityRows
<1> QED BY <1>1, FS_AddElement

\* The numbers that an excess is made of.
Measured(k, S) ==
    /\ Cardinality(FailedGuesses(k, S)) \in Nat
    /\ Cardinality(FailedGuesses(k, Asked \ S)) \in Nat
    /\ Cardinality(Cleared(k[1])) \in Nat /\ Cardinality(SessionsOn(k[1])) \in Nat
    /\ IsFiniteSet(Cleared(k[1]))
    /\ Cardinality(Cleared(k[1])) <= Cardinality(SessionsOn(k[1]))
    /\ Windows \in Nat /\ GuessesPerWindow \in Nat
    /\ k \in DOMAIN loginFailures =>
          /\ WindowsUntil(loginFailures[k].since) \in Nat
          /\ WindowsUntil(loginFailures[k].since) + 1 <= Windows
    /\ Room(k) \in Nat
    /\ Excess(k, S) \in Int

AllMeasured == \A k, S : Measured(k, S)

LEMMA ExcessIs == TimedInv /\ GuessInv => AllMeasured
<1> SUFFICES ASSUME TimedInv, GuessInv, NEW k, NEW S PROVE Measured(k, S)
    BY DEF AllMeasured
<1>1. now \in Nat \ {0}
    BY DEF TimedInv, GuessInv
<1>2. Windows = 1 + WindowsUntil(now) /\ WindowsUntil(now) \in Nat /\ Windows \in Nat
    BY <1>1, WindowsPass
<1>3. k \in DOMAIN loginFailures =>
         /\ WindowsUntil(loginFailures[k].since) \in Nat
         /\ WindowsUntil(loginFailures[k].since) + 1 <= Windows
  <2>1. SUFFICES ASSUME k \in DOMAIN loginFailures
                 PROVE  /\ WindowsUntil(loginFailures[k].since) \in Nat
                        /\ WindowsUntil(loginFailures[k].since) + 1 <= Windows
      OBVIOUS
  <2>2. PICK since \in Nat \ {0} : since = loginFailures[k].since /\ since <= now
      BY <2>1 DEF GuessInv, CounterTyped
  <2>3. WindowsUntil(since) \in Nat /\ WindowsUntil(since) <= WindowsUntil(now)
      BY <1>1, <2>2, WindowsPass
  <2> QED BY <1>2, <2>2, <2>3
<1>4. /\ Cardinality(Cleared(k[1])) \in Nat /\ Cardinality(SessionsOn(k[1])) \in Nat
      /\ IsFiniteSet(Cleared(k[1]))
      /\ Cardinality(Cleared(k[1])) <= Cardinality(SessionsOn(k[1]))
  <2>1. SessionsOn(k[1]) \subseteq DOMAIN adminSessions /\ Cleared(k[1]) \subseteq SessionsOn(k[1])
      BY DEF SessionsOn, Cleared
  <2>2. IsFiniteSet(SessionsOn(k[1]))
      BY <2>1, FS_Subset DEF GuessInv
  <2> QED BY <2>1, <2>2, FS_Subset, FS_CardinalityType
<1>5. Cardinality(FailedGuesses(k, S)) \in Nat /\ Cardinality(FailedGuesses(k, Asked \ S)) \in Nat
    BY FS_Subset, FS_CardinalityType DEF FailedGuesses, GuessInv
<1>6. GuessesPerWindow \in Nat
    BY AllowedIs
<1>7. Room(k) \in Nat
  <2>1. PICK u \in Nat : u = IF k \in DOMAIN loginFailures THEN WindowsUntil(loginFailures[k].since) ELSE 0
      BY <1>3
  <2> QED BY <1>2, <1>4, <1>6, <2>1, RoomGrows DEF WindowsOver, Room
<1>8. Excess(k, S) \in Int
  <2>1. PICK a \in Nat, b \in Nat, c \in Nat :
            /\ a = Cardinality(FailedGuesses(k, S)) /\ b = Cardinality(FailedGuesses(k, Asked \ S))
            /\ c = Room(k)
      BY <1>5, <1>7
  <2> QED BY <2>1 DEF Excess
<1> QED BY <1>2, <1>3, <1>4, <1>5, <1>6, <1>7, <1>8 DEF Measured

\* How the excess of some requests moves: with what is told, and with the windows.
LEMMA ExcessMoves ==
    ASSUME FlowType, FlowInv, TimedInv, TokenInv, GuessInv, [Next]_vars, TimedInv', GuessInv',
           NEW k, NEW S \in SUBSET Asked
    PROVE  /\ Measured(k, S) /\ Measured(k, S)'
           /\ \/ k \notin DOMAIN loginFailures
              \/ k \in DOMAIN loginFailures' /\ loginFailures[k].since <= loginFailures'[k].since
              => Room(k) <= Room(k)'
           /\ \/ /\ k \in DOMAIN loginFailures /\ k \in DOMAIN loginFailures'
                 /\ loginFailures[k].since + LoginWindow < loginFailures'[k].since
              \/ Cleared(k[1]) # Cleared(k[1])'
              => Room(k) + GuessesPerWindow <= Room(k)'
<1>0. Measured(k, S) /\ Measured(k, S)'
  <2>1. (TimedInv /\ GuessInv => AllMeasured)'
      BY ExcessIs, PTL
  <2>2. AllMeasured /\ AllMeasured'
      BY <2>1, ExcessIs
  <2> QED BY <2>2 DEF AllMeasured
<1>1. PICK n \in Nat, w \in Nat, g \in Nat, before \in Nat :
          /\ n = Cardinality(Cleared(k[1])) /\ w = Windows /\ g = GuessesPerWindow
          /\ before = Room(k)
    BY <1>0 DEF Measured
<1>2. PICK m \in Nat, x \in Nat, after \in Nat :
          m = Cardinality(Cleared(k[1])') /\ x = Windows' /\ after = Room(k)'
    BY <1>0 DEF Measured
<1>3. n <= m /\ (Cleared(k[1]) # Cleared(k[1])' => n + 1 <= m)
  <2>1. PICK C, D : C = Cleared(k[1]) /\ D = Cleared(k[1])'
      OBVIOUS
  <2>2. C \subseteq D /\ IsFiniteSet(D)
      BY <1>0, <2>1, AccountsStay DEF Measured
  <2>3. Cardinality(C) <= Cardinality(D) /\ (Cardinality(C) = Cardinality(D) => C = D)
      BY <2>2, FS_Subset
  <2>4. n = Cardinality(C) /\ m = Cardinality(D)
      BY <1>1, <1>2, <2>1
  <2> QED BY <1>1, <1>2, <2>1, <2>3, <2>4
<1>4. w <= x
  <2>1. now \in Nat \ {0} /\ now' \in Nat \ {0} /\ now <= now'
      BY ClockStep DEF TimedInv, GuessInv
  <2>2. WindowsUntil(now) \in Nat /\ WindowsUntil(now') \in Nat /\ WindowsUntil(now) <= WindowsUntil(now')
      BY <2>1, WindowsPass
  <2>3. Windows = 1 + WindowsUntil(now)
      BY WindowsPass
  <2>4. Windows' = 1 + WindowsUntil(now')
      BY DEF Windows, WindowsUntil
  <2> QED BY <1>1, <1>2, <2>2, <2>3, <2>4
<1>5. PICK u \in Nat : /\ u = IF k \in DOMAIN loginFailures THEN WindowsUntil(loginFailures[k].since) ELSE 0
                       /\ u + 1 <= w
                       /\ before = g * (n * w + u)
  <2>1. w = 1 + WindowsUntil(now) /\ WindowsUntil(now) \in Nat
      BY <1>1, WindowsPass DEF TimedInv, GuessInv
  <2> QED BY <1>0, <1>1, <2>1 DEF Measured, WindowsOver, Room
<1>6. PICK v \in Nat : /\ v = IF k \in DOMAIN loginFailures' THEN WindowsUntil(loginFailures'[k].since) ELSE 0
                       /\ after = g * (m * x + v)
    BY <1>0, <1>1, <1>2 DEF Measured, WindowsOver, WindowsUntil, Room, GuessesPerWindow
<1>7. ASSUME \/ k \notin DOMAIN loginFailures
             \/ k \in DOMAIN loginFailures' /\ loginFailures[k].since <= loginFailures'[k].since
      PROVE  before <= after
  <2>1. u <= v
    <3>1. k \in DOMAIN loginFailures =>
             loginFailures[k].since \in Nat \ {0} /\ loginFailures'[k].since \in Nat \ {0}
        BY <1>7 DEF GuessInv, CounterTyped
    <3> QED BY <1>5, <1>6, <1>7, <3>1, WindowsPass
  <2> QED BY <1>1, <1>2, <1>3, <1>4, <1>5, <1>6, <2>1, RoomGrows
<1>8. ASSUME k \in DOMAIN loginFailures, k \in DOMAIN loginFailures',
             loginFailures[k].since + LoginWindow < loginFailures'[k].since
      PROVE  before + g <= after
  <2>1. u + 1 <= v
    <3>1. loginFailures[k].since \in Nat \ {0} /\ loginFailures'[k].since \in Nat \ {0}
        BY <1>8 DEF GuessInv, CounterTyped
    <3> QED BY <1>5, <1>6, <1>8, <3>1, WindowsPass
  <2>2. g * (n * w + u) + g <= g * (m * x + v)
      BY <1>3, <1>4, <2>1, RoomGrows
  <2> QED BY <1>5, <1>6, <2>2
<1>9. ASSUME Cleared(k[1]) # Cleared(k[1])' PROVE before + g <= after
  <2>1. n + 1 <= m /\ u + 1 <= x
      BY <1>3, <1>4, <1>5, <1>9
  <2>2. g * (n * w + u) + g <= g * (m * x + v)
      BY <1>3, <1>4, <2>1, RoomGrows
  <2> QED BY <1>5, <1>6, <2>2
<1> QED BY <1>0, <1>1, <1>2, <1>7, <1>8, <1>9

\* A guess that may follow still may when the clock runs on or the guess goes past the counter.
LEMMA MayStill ==
    ASSUME FlowType, FlowInv, TimedInv, HasInv, GuessInv, [Next]_vars,
           NEW k \in DOMAIN loginFailures, NEW d \in Int, NEW t \in Nat, t <= now,
           NEW q \in Asked, Guesses(q, k)',
           Guesses(q, k) => MayFollow(loginFailures[k], d, t, context[q].at, stage[q] # "login_throttle")
    PROVE  /\ context'[q].at \in Nat
           /\ MayFollow(loginFailures[k], d, t, context'[q].at, stage'[q] # "login_throttle")
<1>1. now \in Nat /\ CounterTyped(loginFailures[k])
    BY DEF TimedInv, GuessInv
<1>2. CASE context'[q].at = now /\ stage'[q] = "login_throttle"
    BY <1>1, <1>2 DEF MayFollow
<1>3. CASE /\ Kind(q) = "login" /\ Guesses(q, k) /\ context'[q].at = context[q].at
           /\ stage[q] # "login_throttle" => stage'[q] # "login_throttle"
           /\ stage[q] = "login_throttle" /\ stage'[q] # "login_throttle" =>
                 /\ ThrottleStep(q)
                 /\ ~LoginBlocked(context[q], context[q].at)
  <2>1. context[q].at \in Nat
    <3>1. stage[q] # "idle" /\ Kind(q) \in Timed
        BY <1>3 DEF Guesses, Trying, Timed
    <3> QED BY <3>1 DEF TimedInv, Dated
  <2>2. CASE stage[q] = "login_throttle" /\ stage'[q] # "login_throttle"
    <3>1. loginFailures[k].until <= context[q].at
        BY <1>1, <1>3, <2>1, <2>2 DEF LoginBlocked, Guesses, CounterTyped
    <3> QED BY <1>3, <2>1, <2>2, <3>1 DEF MayFollow
  <2>3. CASE (stage[q] = "login_throttle") <=> (stage'[q] = "login_throttle")
      BY <1>3, <2>1, <2>3
  <2> QED BY <1>3, <2>2, <2>3
<1> QED BY <1>2, <1>3, GuessMoves

\* What was counted still fits while nothing of the counter changes.
LEMMA CountsStay ==
    ASSUME FlowType, FlowInv, TimedInv, HasInv, TokenInv, GuessInv, [Next]_vars, TimedInv', GuessInv',
           NEW k, NEW S \in SUBSET Asked, GuessesFit(k, S),
           k \in DOMAIN loginFailures' <=> k \in DOMAIN loginFailures,
           k \in DOMAIN loginFailures => loginFailures'[k] = loginFailures[k],
           \A X : FailedGuesses(k, X)' = FailedGuesses(k, X)
    PROVE  GuessesFit(k, S)'
<1>1. PICK d \in Int, e \in Int : d = Excess(k, S) /\ e = Excess(k, S)' /\ e <= d
  <2>1. k \in DOMAIN loginFailures => loginFailures[k].since <= loginFailures'[k].since
      BY DEF GuessInv, CounterTyped
  <2>2. Measured(k, S) /\ Measured(k, S)' /\ Room(k) <= Room(k)'
    BY <2>1, ExcessMoves
  <2>3. FailedGuesses(k, S)' = FailedGuesses(k, S)
        /\ FailedGuesses(k, Asked \ S)' = FailedGuesses(k, Asked \ S)
    <3>1. Asked' = Asked
        BY StepMoves DEF Asked
    <3>2. FailedGuesses(k, Asked \ S)' = {e \in identityEvents' :
              /\ e.type \in {"login_failed", "account_locked"}
              /\ e.subject = k /\ e.id[1] \in Asked \ S}
        BY <3>1 DEF FailedGuesses
    <3>3. PICK X : X = Asked \ S
          OBVIOUS
    <3>4. FailedGuesses(k, X)' = FailedGuesses(k, X)
          OBVIOUS
    <3> QED BY <3>2, <3>3, <3>4 DEF FailedGuesses
  <2> QED BY <2>2, <2>3 DEF Measured, Excess
<1>2. CASE k \notin DOMAIN loginFailures
    BY <1>1, <1>2 DEF GuessesFit
<1>3. CASE k \in DOMAIN loginFailures
  <2>1. PICK t \in Nat : /\ t <= now
                         /\ Fits(loginFailures[k], d, t)
                         /\ \A q \in S : Guesses(q, k) =>
                               MayFollow(loginFailures[k], d, t, context[q].at,
                                         stage[q] # "login_throttle")
      BY <1>1, <1>3 DEF GuessesFit
  <2>2. CounterTyped(loginFailures[k])
      BY <1>3 DEF GuessInv
  <2>3. now \in Nat /\ t <= now'
      BY <2>1, ClockStep DEF TimedInv
  <2>4. Fits(loginFailures[k], e, t)
      BY <1>1, <2>1, <2>2, FewerFit
  <2>5. ASSUME NEW q \in S, Guesses(q, k)'
        PROVE  MayFollow(loginFailures[k], e, t, context'[q].at, stage'[q] # "login_throttle")
    <3>1. /\ context'[q].at \in Nat
          /\ MayFollow(loginFailures[k], d, t, context'[q].at, stage'[q] # "login_throttle")
        BY <1>3, <2>1, <2>5, MayStill
    <3>2. PICK at \in Nat, seen \in BOOLEAN :
              at = context'[q].at /\ seen = (stage'[q] # "login_throttle")
        BY <3>1
    <3>3. MayFollow(loginFailures[k], d, t, at, seen)
        BY <3>1, <3>2
    <3>4. MayFollow(loginFailures[k], e, t, at, seen)
        BY <1>1, <2>1, <2>2, <3>3, FewerFit
    <3> QED BY <3>2, <3>4
  <2> QED BY <1>1, <1>3, <2>1, <2>3, <2>4, <2>5 DEF GuessesFit
<1> QED BY <1>2, <1>3

\* A failure that is counted: what is told of its counter, and what becomes of the requests.
LEMMA RecordTells ==
    ASSUME FlowType, FlowInv, TimedInv, GuessInv, [Next]_vars, NEW r \in Asked, RecordFailureStep(r),
           NEW k, k = Counter(context[r])
    PROVE  /\ Guesses(r, k) /\ stage[r] = "record_failure" /\ stage'[r] \notin Trying
           /\ context[r].at \in Nat \ {0} /\ context[r].at <= now
           /\ \A q \in Asked : q # r => Same(q)
           /\ \A j, X : j # k => FailedGuesses(j, X)' = FailedGuesses(j, X)
           /\ \A X : Cardinality(FailedGuesses(k, X)') =
                        Cardinality(FailedGuesses(k, X)) + (IF r \in X THEN 1 ELSE 0)
<1>1. stage[r] = "record_failure"
    BY DEF RecordFailureStep, OnIdentity, At
<1>2. AdminStep(r)
    BY DEF AdminStep
<1>3. Kind(r) = "login"
  <2>1. stage[r] \in RouteOf(Kind(r))
      BY <1>1 DEF FlowInv, OnRoute
  <2> QED BY <1>1, <2>1 DEF RouteOf, Route, OtherStages, SoftwareStages, Guarding, Locking
<1>4. Guesses(r, k)
    BY <1>1, <1>3 DEF Guesses, Trying
<1>5. stage'[r] \notin Trying
  <2>1. CASE stage'[r] = "done"
      BY <2>1 DEF Trying
  <2>2. CASE stage'[r] # "done"
    <3>1. <<stage[r], stage'[r]>> \in Ways
        BY <1>2, <2>2, AdminWays
    <3> QED BY <1>1, <3>1 DEF Ways, Trying
  <2> QED BY <2>1, <2>2
<1>6. context[r].at \in Nat \ {0} /\ context[r].at <= now
  <2>1. stage[r] # "idle" /\ Kind(r) \in Timed
      BY <1>1, <1>3 DEF Timed
  <2> QED BY <1>3, <2>1 DEF TimedInv, Dated, GuessInv
<1>7. \A q \in Asked : q # r => Same(q)
    BY <1>2, AdminMoves DEF MovesTo, Same, FlowType
<1>8. PICK e : /\ identityEvents' = identityEvents \cup {e}
               /\ e.id = NewId(r) /\ e.subject = k /\ e.type \in {"login_failed", "account_locked"}
  <2>1. PICK type : type \in {"login_failed", "account_locked"}
                    /\ SecurityEvent(r, type, k, context[r].at)
    <3>1. PICK type : /\ SecurityEvent(r, type, k, context[r].at)
                      /\ \/ type = "account_locked" \/ type = "login_failed"
        BY DEF RecordFailureStep, RecordLoginFailure
    <3> QED BY <3>1
  <2>2. PICK e : e = [id |-> NewId(r), type |-> type, subject |-> k, at |-> context[r].at]
      OBVIOUS
  <2>3. e.id = NewId(r) /\ e.subject = k /\ e.type = type
      BY <2>2
  <2> QED BY <2>1, <2>2, <2>3 DEF SecurityEvent
<1>9. e \notin identityEvents
    BY <1>8, FailureIsNew DEF Failures
<1>10. e.id[1] = r
    BY <1>8 DEF NewId
<1>11. IsFiniteSet(identityEvents)
    BY DEF GuessInv
<1>12. ASSUME NEW j, NEW X, j # k PROVE FailedGuesses(j, X)' = FailedGuesses(j, X)
    BY <1>8, <1>11, <1>12, ToldOnce
<1>13. ASSUME NEW X
       PROVE  Cardinality(FailedGuesses(k, X)') =
                 Cardinality(FailedGuesses(k, X)) + (IF r \in X THEN 1 ELSE 0)
  <2>1. PICK n \in Nat : n = Cardinality(FailedGuesses(k, X))
      BY <1>8, <1>11, ToldOnce
  <2>2. CASE r \in X
      BY <1>8, <1>9, <1>10, <1>11, <2>1, <2>2, ToldOnce
  <2>3. CASE r \notin X
      BY <1>8, <1>10, <1>11, <2>1, <2>3, ToldOnce
  <2> QED BY <2>2, <2>3
<1> QED BY <1>1, <1>4, <1>5, <1>6, <1>7, <1>12, <1>13

\* What was counted, and the failure that is counted now, fits.
LEMMA RecordFits ==
    ASSUME FlowType, FlowInv, TimedInv, HasInv, TokenInv, GuessInv, [Next]_vars, TimedInv', GuessInv',
           NEW r \in Asked, RecordFailureStep(r), NEW k, k = Counter(context[r]),
           NEW S \in SUBSET Asked, OneByOne(S), GuessesFit(k, S)
    PROVE  GuessesFit(k, S)'
<1> DEFINE known == k \in DOMAIN loginFailures
<1>0. PICK at \in Nat \ {0} : at = context[r].at /\ at <= now
    BY RecordTells
<1>1. PICK row, new : /\ at = context[r].at /\ at <= now
                      /\ row = loginFailures[k] /\ new = CountedFailure(context[r], at)
    BY <1>0
<1>2. /\ k \in DOMAIN loginFailures' /\ loginFailures'[k] = new
      /\ CounterTyped(new) /\ new.since <= now'
  <2>1. loginFailures' = Put(loginFailures, k, new)
      BY <1>1 DEF RecordFailureStep, RecordLoginFailure
  <2>2. k \in DOMAIN loginFailures' /\ loginFailures'[k] = new
      BY <2>1 DEF Put
  <2> QED BY <2>2 DEF GuessInv
<1>3. now \in Nat /\ now' \in Nat /\ now <= now'
    BY ClockStep DEF TimedInv
<1>4. known => CounterTyped(row)
    BY <1>1 DEF GuessInv
<1>5. /\ ~known \/ WindowOver(row, at) => new.count = 1 /\ new.since = at
      /\ known /\ ~WindowOver(row, at) =>
            /\ new.count = row.count + 1 /\ new.since = row.since
            /\ new.count >= MaximumAttempts => new.until = at + BlockDuration
    BY <1>1 DEF CountedFailure
<1>6. PICK d \in Int, e \in Int :
          /\ d = Excess(k, S) /\ e = Excess(k, S)'
          /\ r \in S => e <= d + 1
          /\ r \notin S => e <= d - 1
          /\ known /\ WindowOver(row, at) => /\ r \in S => e <= d + 1 - GuessesPerWindow
                                             /\ r \notin S => e <= d - 1 - GuessesPerWindow
  <2>1. PICK told \in Nat, more \in Nat, others \in Nat, rest \in Nat, before \in Nat, after \in Nat :
            /\ told = Cardinality(FailedGuesses(k, S)) /\ more = Cardinality(FailedGuesses(k, S)')
            /\ others = Cardinality(FailedGuesses(k, Asked \ S))
            /\ rest = Cardinality(FailedGuesses(k, Asked \ S)')
            /\ before = Room(k) /\ after = Room(k)'
    <3>1. Measured(k, S) /\ Measured(k, S)'
        BY ExcessMoves
    <3> QED BY <3>1 DEF Measured
  <2>2. /\ more = told + (IF r \in S THEN 1 ELSE 0)
        /\ rest = others + (IF r \in S THEN 0 ELSE 1)
    <3>1. Asked' = Asked
        BY StepMoves DEF Asked
    <3>2. PICK X : X = Asked \ S
        OBVIOUS
    <3>3. rest = Cardinality(FailedGuesses(k, X)') /\ others = Cardinality(FailedGuesses(k, X))
        BY <2>1, <3>1, <3>2 DEF FailedGuesses
    <3>4. rest = others + (IF r \in X THEN 1 ELSE 0)
        BY <3>3, RecordTells
    <3> QED BY <2>1, <3>2, <3>4, RecordTells
  <2>3. GuessesPerWindow \in Nat
      BY AllowedIs
  <2>4. before <= after
    <3>1. known => row.since <= new.since
        BY <1>1, <1>4, <1>5, PolicyAssumption DEF CounterTyped, WindowOver
    <3> QED BY <1>1, <1>2, <2>1, <3>1, ExcessMoves
  <2>5. known /\ WindowOver(row, at) => before + GuessesPerWindow <= after
      BY <1>1, <1>2, <1>5, <2>1, ExcessMoves DEF WindowOver
  <2>6. Excess(k, S) = told - others - before /\ Excess(k, S)' = more - rest - after
      BY <2>1 DEF Excess
  <2> QED BY <2>1, <2>2, <2>3, <2>4, <2>5, <2>6
<1>7. ASSUME NEW t \in Nat, t <= now, Fits(new, e, t),
             r \notin S => \A q \in S : Guesses(q, k)' =>
                 MayFollow(new, e, t, context'[q].at, stage'[q] # "login_throttle")
      PROVE  GuessesFit(k, S)'
  <2>1. ASSUME NEW q \in S, Guesses(q, k)', r \in S PROVE FALSE
    <3>1. stage'[q] \in Trying /\ q # r
        BY <2>1, RecordTells DEF Guesses
    <3>2. Same(q) /\ stage[r] = "record_failure"
        BY <3>1, RecordTells
    <3>3. stage[q] \notin {"idle", "done"} /\ stage[r] \notin {"idle", "done"}
        BY <3>1, <3>2 DEF Same, Trying
    <3> QED BY <2>1, <3>1, <3>3, OneUnderWay
  <2> QED BY <1>2, <1>3, <1>6, <1>7, <2>1 DEF GuessesFit
<1>8. CASE ~known \/ WindowOver(row, at)
  <2>1. (r \in S => e <= 1) /\ (r \notin S => e <= -1)
    <3>1. ~known => d <= 0
        BY <1>1, <1>6 DEF GuessesFit
    <3>2. known => d <= GuessesPerWindow
        BY <1>1, <1>4, <1>6, WindowAllows DEF GuessesFit
    <3>3. GuessesPerWindow \in Nat
        BY AllowedIs
    <3> QED BY <1>6, <1>8, <3>1, <3>2, <3>3
  <2>2. /\ Fits(new, e, at)
        /\ e <= -1 => \A time \in Nat, seen \in BOOLEAN : MayFollow(new, e, at, time, seen)
      BY <1>5, <1>8, <2>1, FirstFits
  <2>3. ASSUME NEW q \in S, Guesses(q, k)' PROVE context'[q].at \in Nat
    <3>1. Kind(q)' = "login" /\ stage'[q] # "idle" /\ q \in Asked'
        BY <2>3, StepMoves DEF Guesses, Trying, Asked
    <3> QED BY <3>1 DEF TimedInv, Dated, Timed
  <2> QED BY <1>1, <1>7, <2>1, <2>2, <2>3
<1>9. CASE known /\ ~WindowOver(row, at)
  <2>1. PICK t \in Nat : /\ t <= now
                         /\ Fits(row, d, t)
                         /\ \A q \in S : Guesses(q, k) =>
                               MayFollow(row, d, t, context[q].at, stage[q] # "login_throttle")
      BY <1>1, <1>6, <1>9 DEF GuessesFit
  <2>2. CASE r \in S
    <3>1. MayFollow(row, d, t, at, TRUE)
      <4>1. Guesses(r, k) /\ stage[r] # "login_throttle"
          BY RecordTells
      <4> QED BY <1>1, <2>1, <2>2, <4>1
    <3>2. PICK u \in {t, at} : Fits(new, d + 1, u)
      <4>1. PICK time \in Nat : time = at
          OBVIOUS
      <4>2. CounterTyped(row) /\ ~WindowOver(row, time)
          BY <1>4, <1>9, <4>1
      <4>3. /\ new.count = row.count + 1 /\ new.since = row.since
            /\ new.count >= MaximumAttempts => new.until = time + BlockDuration
          BY <1>5, <1>9, <4>1
      <4>4. Fits(row, d, t) /\ MayFollow(row, d, t, time, TRUE)
          BY <2>1, <3>1, <4>1
      <4>5. Fits(new, d + 1, t) \/ Fits(new, d + 1, time)
          BY <4>2, <4>3, <4>4, NextFits
      <4> QED BY <4>1, <4>5
    <3>3. u \in Nat /\ u <= now
        BY <1>1, <2>1
    <3>4. Fits(new, e, u)
        BY <1>2, <1>6, <2>2, <3>2, <3>3, FewerFit
    <3> QED BY <1>7, <2>2, <3>3, <3>4
  <2>3. CASE r \notin S
    <3>1. /\ Fits(new, d - 1, t)
          /\ \A time \in Nat, seen \in BOOLEAN :
                MayFollow(row, d, t, time, seen) => MayFollow(new, d - 1, t, time, seen)
        BY <1>4, <1>5, <1>9, <2>1, OtherFits
    <3>2. d - 1 \in Int /\ e <= d - 1
        BY <1>6, <2>3
    <3>3. /\ Fits(new, e, t)
          /\ \A time \in Nat, seen \in BOOLEAN :
                MayFollow(new, d - 1, t, time, seen) => MayFollow(new, e, t, time, seen)
        BY <1>2, <3>1, <3>2, FewerFit
    <3>4. ASSUME NEW q \in S, Guesses(q, k)'
          PROVE  MayFollow(new, e, t, context'[q].at, stage'[q] # "login_throttle")
      <4>1. /\ context'[q].at \in Nat
            /\ MayFollow(row, d, t, context'[q].at, stage'[q] # "login_throttle")
          BY <1>1, <1>9, <2>1, <3>4, MayStill
      <4>2. PICK time \in Nat, seen \in BOOLEAN :
                time = context'[q].at /\ seen = (stage'[q] # "login_throttle")
          BY <4>1
      <4> QED BY <3>1, <3>3, <4>1, <4>2
    <3> QED BY <1>7, <2>1, <3>3, <3>4
  <2> QED BY <2>2, <2>3
<1> QED BY <1>8, <1>9

\* When nothing was told of a counter, its failures stand as they did.
LEMMA NothingTold ==
    ASSUME TellsNoGuess
    PROVE  /\ \A k, X : FailedGuesses(k, X)' = FailedGuesses(k, X)
           /\ Failures' = Failures
           /\ IsFiniteSet(identityEvents) => IsFiniteSet(identityEvents')
<1>1. CASE UNCHANGED identityEvents
    BY <1>1 DEF FailedGuesses, Failures
<1>2. CASE \E e : /\ e.type \notin {"login_failed", "account_locked"}
                  /\ identityEvents' = identityEvents \cup {e}
  <2>1. PICK e : /\ e.type \notin {"login_failed", "account_locked"}
                 /\ identityEvents' = identityEvents \cup {e}
      BY <1>2
  <2>2. Failures' = Failures
      BY <2>1 DEF Failures
  <2>3. ASSUME NEW k, NEW X PROVE FailedGuesses(k, X)' = FailedGuesses(k, X)
      BY <2>1 DEF FailedGuesses
  <2>4. IsFiniteSet(identityEvents) => IsFiniteSet(identityEvents')
      BY <2>1, FS_AddElement
  <2> QED BY <2>2, <2>3, <2>4
<1> QED BY <1>1, <1>2 DEF TellsNoGuess

\* A login that clears the counters.
LEMMA ClearsOwn ==
    ASSUME FlowType, FlowInv, NEW r, ClearFailuresStep(r)
    PROVE  /\ r \in Asked /\ Kind(r) = "login" /\ stage[r] = "clear_failures"
           /\ stage'[r] # "clear_failures"
           /\ \/ UNCHANGED loginFailures
              \/ loginFailures' = [k \in {f \in DOMAIN loginFailures : f[1] # context[r].identifier}
                                       |-> loginFailures[k]]
<1>1. r \in Asked /\ stage[r] = "clear_failures"
    BY DEF ClearFailuresStep, OnIdentity, At
<1>2. Kind(r) = "login"
  <2>1. stage[r] \in RouteOf(Kind(r))
      BY <1>1 DEF FlowInv, OnRoute
  <2> QED BY <1>1, <2>1 DEF RouteOf, Route, OtherStages, SoftwareStages, Guarding, Locking
<1>3. stage'[r] # "clear_failures"
  <2>1. CASE stage'[r] = "done"
      BY <2>1
  <2>2. CASE stage'[r] # "done"
    <3>1. AdminStep(r)
        BY DEF AdminStep
    <3>2. <<stage[r], stage'[r]>> \in Ways
        BY <2>2, <3>1, AdminWays
    <3> QED BY <1>1, <3>2 DEF Ways
  <2> QED BY <2>1, <2>2
<1> QED BY <1>1, <1>2, <1>3 DEF ClearFailuresStep, ClearLoginFailures

\* A counter that a login clears makes room for the guesses that come.
LEMMA ClearFits ==
    ASSUME FlowType, FlowInv, TimedInv, HasInv, TokenInv, GuessInv, [Next]_vars, TimedInv', GuessInv',
           NEW r, ClearFailuresStep(r), TellsNoGuess, NEW k, NEW S \in SUBSET Asked, GuessesFit(k, S)
    PROVE  GuessesFit(k, S)'
<1>1. PICK i : i = context[r].identifier
    OBVIOUS
<1>2. \A X : FailedGuesses(k, X)' = FailedGuesses(k, X)
    BY NothingTold
<1>3. CASE ~(k \in DOMAIN loginFailures /\ k \notin DOMAIN loginFailures')
  <2>1. /\ k \in DOMAIN loginFailures' <=> k \in DOMAIN loginFailures
        /\ k \in DOMAIN loginFailures => loginFailures'[k] = loginFailures[k]
      BY <1>1, <1>3, ClearsOwn
  <2> QED BY <1>2, <2>1, CountsStay
<1>4. CASE k \in DOMAIN loginFailures /\ k \notin DOMAIN loginFailures'
  <2>1. k[1] = i /\ r \in Asked
      BY <1>1, <1>4, ClearsOwn
  <2>2. NewId(r) \in SessionsOn(i)
      BY <1>1, ClearsOwn DEF GuessInv, Knows
  <2>3. NewId(r) \notin Cleared(i)
      BY ClearsOwn DEF Cleared
  <2>4. NewId(r) \in Cleared(i)'
    <3>1. NewId(r) \in SessionsOn(i)'
        BY <2>2, AccountsStay
    <3>2. ASSUME NEW q \in Asked, stage'[q] = "clear_failures" PROVE NewId(r) # NewId(q)'
        BY <3>2, ClearsOwn DEF NewId
    <3>3. Asked' = Asked
        BY StepMoves DEF Asked
    <3> QED BY <3>1, <3>2, <3>3 DEF Cleared
  <2>5. Cleared(k[1]) # Cleared(k[1])'
      BY <2>1, <2>3, <2>4
  <2>6. Measured(k, S) /\ Measured(k, S)' /\ Room(k) + GuessesPerWindow <= Room(k)'
      BY <2>5, ExcessMoves
  <2>7. Cardinality(FailedGuesses(k, S)') = Cardinality(FailedGuesses(k, S))
        /\ Cardinality(FailedGuesses(k, Asked \ S)') = Cardinality(FailedGuesses(k, Asked \ S))
    <3>1. PICK X : X = Asked \ S /\ X = Asked' \ S
        BY StepMoves DEF Asked
    <3>2. FailedGuesses(k, X)' = FailedGuesses(k, Asked \ S)'
        BY <3>1 DEF FailedGuesses
    <3> QED BY <1>2, <3>1, <3>2
  <2>8. PICK d \in Int : d = Excess(k, S) /\ d <= GuessesPerWindow
    <3>1. PICK t \in Nat : Fits(loginFailures[k], Excess(k, S), t)
        BY <1>4 DEF GuessesFit
    <3>2. CounterTyped(loginFailures[k]) /\ Excess(k, S) \in Int
        BY <1>4, <2>6 DEF GuessInv, Measured
    <3> QED BY <3>1, <3>2, WindowAllows
  <2>9. Excess(k, S)' <= 0
      BY <2>6, <2>7, <2>8 DEF Measured, Excess
  <2> QED BY <1>4, <2>9 DEF GuessesFit
<1> QED BY <1>3, <1>4

LEMMA CountStep ==
    ASSUME FlowType, FlowInv, TimedInv, HasInv, TokenInv, GuessInv, CountInv, [Next]_vars,
           TimedInv', GuessInv'
    PROVE  CountInv'
<1>1. workload' = workload /\ Asked' = Asked
    BY StepMoves DEF Asked
<1>2. SUFFICES ASSUME NEW k, NEW S \in SUBSET Asked, OneByOne(S)'
               PROVE  GuessesFit(k, S)'
    BY <1>1 DEF CountInv
<1>3. OneByOne(S)
    BY <1>1, <1>2 DEF OneByOne, Command
<1>4. GuessesFit(k, S)
    BY <1>3 DEF CountInv
<1>5. CASE UNCHANGED loginFailures /\ TellsNoGuess
    BY <1>4, <1>5, NothingTold, CountsStay
<1>6. ASSUME NEW r \in Asked, RecordFailureStep(r) PROVE GuessesFit(k, S)'
  <2>1. CASE k = Counter(context[r])
      BY <1>3, <1>4, <1>6, <2>1, RecordFits
  <2>2. CASE k # Counter(context[r])
    <3>1. \A X : FailedGuesses(k, X)' = FailedGuesses(k, X)
        BY <1>6, <2>2, RecordTells
    <3>2. PICK row : loginFailures' = Put(loginFailures, Counter(context[r]), row)
        BY <1>6 DEF RecordFailureStep, RecordLoginFailure
    <3>3. /\ k \in DOMAIN loginFailures' <=> k \in DOMAIN loginFailures
          /\ k \in DOMAIN loginFailures => loginFailures'[k] = loginFailures[k]
        BY <2>2, <3>2 DEF Put
    <3> QED BY <1>4, <3>1, <3>3, CountsStay
  <2> QED BY <2>1, <2>2
<1>7. ASSUME NEW r \in Asked, AdminStep(r) PROVE GuessesFit(k, S)'
    BY <1>4, <1>5, <1>6, <1>7, GuessWriters, ClearFits
<1>8. CASE UNCHANGED identityRows
    BY <1>5, <1>8 DEF identityRows, TellsNoGuess
<1> QED BY <1>7, <1>8, IdentityWriters

LEMMA GuessStep ==
    FlowType /\ FlowInv /\ TimedInv /\ HasInv /\ TokenInv /\ GuessInv /\ [Next]_vars => GuessInv'
<1> SUFFICES ASSUME FlowType, FlowInv, TimedInv, HasInv, TokenInv, GuessInv, [Next]_vars
             PROVE  GuessInv'
    OBVIOUS
<1> DEFINE Drawn == Fresh({e.id : e \in Failures}, Trying)'
           Typed == \A k \in DOMAIN loginFailures' :
                       CounterTyped(loginFailures'[k]) /\ loginFailures'[k].since <= now'
<1>1. workload' = workload /\ Asked' = Asked /\ \A q \in Asked : Kind(q)' = Kind(q) /\ Command(q)' = Command(q)
    BY StepMoves DEF Asked, Kind, Command
<1>2. now \in Nat /\ now' \in {now, now + 1} /\ now >= 1 /\ now' >= 1
    BY ClockStep DEF TimedInv, GuessInv
<1>3. ASSUME NEW q \in Asked, Kind(q) = "login", stage'[q] # "idle" PROVE context'[q].at >= 1
  <2>0. Kind(q) \in Timed /\ Kind(q) \in Handled
      BY <1>3 DEF Timed, Handled
  <2>1. CASE Send(q)
    <3>1. context'[q] = Joined([at |-> now], Commanded(q))
        BY <2>0, <2>1, SentAs, PreparedIs
    <3> QED BY <1>2, <3>1 DEF Joined
  <2>2. CASE ~Send(q)
    <3>1. stage[q] # "idle"
        BY <1>3, <2>2, HasStays
    <3>2. context[q].at >= 1 /\ context[q].at \in Nat
        BY <1>3, <2>0, <3>1 DEF GuessInv, TimedInv, Dated
    <3>3. context'[q].at \in Nat /\ context[q].at <= context'[q].at
        BY <1>3, <2>0, <3>1, TimedStays DEF Dated
    <3> QED BY <3>2, <3>3
  <2> QED BY <2>1, <2>2
<1>4. \A q \in Asked : Kind(q) = "login" => Knows(q)'
    BY KnowsStays
<1>5. IsFiniteSet(DOMAIN adminSessions')
    BY SessionsFinite DEF GuessInv
<1>6. \A q \in Asked : stage'[q] # "idle" => \A x \in Command(q).behind \cap Asked : Over(x)'
    BY BehindOver
<1>7. PICK ids : ids = {e.id : e \in Failures} /\ Fresh(ids, Trying) /\ Trying \in Drawing
    BY DEF GuessInv, Drawing
<1>8. ASSUME TellsNoGuess,
             \A k \in DOMAIN loginFailures' :
                k \in DOMAIN loginFailures /\ loginFailures'[k] = loginFailures[k]
      PROVE  Drawn /\ Typed /\ IsFiniteSet(identityEvents')
  <2>1. Typed
    <3>1. ASSUME NEW k \in DOMAIN loginFailures'
          PROVE  CounterTyped(loginFailures'[k]) /\ loginFailures'[k].since <= now'
      <4>1. CounterTyped(loginFailures[k]) /\ loginFailures[k].since <= now
            /\ loginFailures'[k] = loginFailures[k]
          BY <1>8 DEF GuessInv
      <4> QED BY <1>2, <4>1 DEF CounterTyped
    <3> QED BY <3>1
  <2>2. StaysFresh(ids, Trying) /\ ids = {e.id : e \in Failures'}
      BY <1>7, <1>8, DrawnStayFresh, NothingTold
  <2>3. Drawn
      BY <2>2 DEF StaysFresh, Fresh
  <2> QED BY <1>8, <2>1, <2>3, NothingTold DEF GuessInv
<1>9. ASSUME NEW r \in Asked, RecordFailureStep(r)
      PROVE  Drawn /\ Typed /\ IsFiniteSet(identityEvents')
  <2>0. PICK k : k = Counter(context[r])
      OBVIOUS
  <2>1. PICK at \in Nat \ {0} : at = context[r].at /\ at <= now
      BY <1>9, RecordTells
  <2>2. PICK row : row = CountedFailure(context[r], at) /\ loginFailures' = Put(loginFailures, k, row)
      BY <1>9, <2>0, <2>1 DEF RecordFailureStep, RecordLoginFailure
  <2>3. CounterTyped(row) /\ row.since <= now
    <3>1. LoginWindow \in Nat /\ BlockDuration \in Nat /\ Never \in Nat
        BY PolicyAssumption DEF Never
    <3>2. CASE k \notin DOMAIN loginFailures
      <4>1. row = [count |-> 1, since |-> at, until |-> Never]
          BY <2>0, <2>1, <2>2, <3>2 DEF CountedFailure
      <4> QED BY <2>1, <3>1, <4>1 DEF CounterTyped
    <3>3. CASE k \in DOMAIN loginFailures
      <4>1. PICK old : old = loginFailures[k] /\ CounterTyped(old) /\ old.since <= now
          BY <3>3 DEF GuessInv
      <4>2. /\ row.count = IF WindowOver(old, at) THEN 1 ELSE old.count + 1
            /\ row.since = IF WindowOver(old, at) THEN at ELSE old.since
            /\ row.until \in {at + BlockDuration, old.until}
          BY <2>0, <2>1, <2>2, <3>3, <4>1 DEF CountedFailure
      <4> QED BY <2>1, <3>1, <4>1, <4>2 DEF CounterTyped
    <3> QED BY <3>2, <3>3
  <2>4. Typed
    <3>1. ASSUME NEW j \in DOMAIN loginFailures'
          PROVE  CounterTyped(loginFailures'[j]) /\ loginFailures'[j].since <= now'
      <4>1. CounterTyped(loginFailures'[j]) /\ loginFailures'[j].since <= now
          BY <2>2, <2>3 DEF Put, GuessInv
      <4> QED BY <1>2, <4>1 DEF CounterTyped
    <3> QED BY <3>1
  <2>5. PICK e : /\ identityEvents' = identityEvents \cup {e}
                 /\ e.id = NewId(r) /\ e.type \in {"login_failed", "account_locked"}
    <3>1. PICK type : /\ SecurityEvent(r, type, Counter(context[r]), context[r].at)
                      /\ \/ type = "account_locked" \/ type = "login_failed"
        BY <1>9 DEF RecordFailureStep, RecordLoginFailure
    <3>2. PICK e : e = [id |-> NewId(r), type |-> type, subject |-> Counter(context[r]),
                        at |-> context[r].at]
        OBVIOUS
    <3>3. e.id = NewId(r) /\ e.type = type
        BY <3>2
    <3> QED BY <3>1, <3>2, <3>3 DEF SecurityEvent
  <2>6. Failures' = Failures \cup {e}
      BY <2>5 DEF Failures
  <2>7. {x.id : x \in Failures'} = ids \cup {NewId(r)}
      BY <1>7, <2>5, <2>6
  <2>8. StaysFresh(ids \cup {NewId(r)}, Trying)
      BY <1>7, <1>9, FailureIsNew
  <2>9. Drawn
      BY <2>7, <2>8 DEF StaysFresh, Fresh
  <2>10. IsFiniteSet(identityEvents')
      BY <2>5, FS_AddElement DEF GuessInv
  <2> QED BY <2>4, <2>9, <2>10
<1>10. ASSUME NEW r \in Asked, AdminStep(r)
       PROVE  Drawn /\ Typed /\ IsFiniteSet(identityEvents')
  <2>1. CASE UNCHANGED loginFailures /\ TellsNoGuess
      BY <1>8, <2>1
  <2>2. CASE ClearFailuresStep(r) /\ TellsNoGuess
    <3>1. \A k \in DOMAIN loginFailures' : k \in DOMAIN loginFailures /\ loginFailures'[k] = loginFailures[k]
        BY <2>2, ClearsOwn
    <3> QED BY <1>8, <2>2, <3>1
  <2> QED BY <1>9, <1>10, <2>1, <2>2, GuessWriters
<1>11. ASSUME UNCHANGED identityRows PROVE Drawn /\ Typed /\ IsFiniteSet(identityEvents')
    BY <1>8, <1>11 DEF identityRows, TellsNoGuess
<1>12. Drawn /\ Typed /\ IsFiniteSet(identityEvents')
    BY <1>10, <1>11, IdentityWriters
<1>13. /\ Fresh({e.id : e \in Failures}, Trying)' /\ IsFiniteSet(identityEvents')
       /\ \A k \in DOMAIN loginFailures' :
             CounterTyped(loginFailures[k])' /\ loginFailures'[k].since <= now'
    BY <1>12 DEF CounterTyped
<1> QED BY <1>1, <1>2, <1>3, <1>4, <1>5, <1>6, <1>13 DEF GuessInv

\* What logins keep true of the counters of failures, and of what they have told.
THEOREM CountersCorrect == Spec => [](GuessInv /\ CountInv)
<1>1. Init => GuessInv /\ CountInv
  <2> SUFFICES ASSUME Init PROVE GuessInv /\ CountInv
      OBVIOUS
  <2>1. \A q \in Asked : stage[q] = "idle"
      BY DEF Init, Asked
  <2>2. /\ DOMAIN loginFailures = {} /\ DOMAIN adminSessions = {} /\ identityEvents = {} /\ now = 1
      BY DEF Init, IdentityInit
  <2>3. IsFiniteSet({}) /\ Cardinality({}) = 0
      BY FS_EmptySet
  <2>4. GuessInv
    <3>1. Fresh({e.id : e \in Failures}, Trying)
        BY <2>2 DEF Failures, Fresh
    <3> QED BY <2>1, <2>2, <2>3, <3>1 DEF GuessInv, Knows
  <2>5. ASSUME NEW k, NEW S PROVE GuessesFit(k, S)
    <3>1. FailedGuesses(k, S) = {} /\ FailedGuesses(k, Asked \ S) = {} /\ Cleared(k[1]) = {}
        BY <2>2 DEF FailedGuesses, Cleared, SessionsOn
    <3>2. Room(k) = 0
      <4>1. GuessesPerWindow \in Nat
          BY AllowedIs
      <4>2. Windows \in Nat
          BY <2>2, WindowsPass
      <4>3. WindowsOver(k) = 0
          BY <2>2, <2>3, <3>1, <4>2 DEF WindowsOver
      <4> QED BY <4>1, <4>3 DEF Room
    <3>3. Cardinality(FailedGuesses(k, S)) = 0 /\ Cardinality(FailedGuesses(k, Asked \ S)) = 0
        BY <2>3, <3>1
    <3>4. Excess(k, S) = 0
        BY <3>2, <3>3 DEF Excess
    <3> QED BY <2>2, <3>4 DEF GuessesFit
  <2> QED BY <2>4, <2>5 DEF CountInv
<1>2. /\ FlowType /\ FlowInv /\ TimedInv /\ HasInv /\ TokenInv /\ GuessInv /\ CountInv /\ [Next]_vars
      /\ TimedInv'
      => GuessInv' /\ CountInv'
    BY GuessStep, CountStep
<1> QED BY <1>1, <1>2, FlowCorrect, TokensCorrect, PTL DEF Spec

\* Whatever logins there are, at whatever time, and in whatever order they read the clock,
\* the counter and the password: of the guesses that a source makes at an account one after
\* another, after blocks and logins too, no more are compared than the windows and the logins
\* allow, and one more for each guess beside them.
THEOREM GuessesAreBounded == Spec => []GuessesBounded
<1>1. TimedInv /\ GuessInv /\ CountInv => GuessesBounded
  <2> SUFFICES ASSUME TimedInv, GuessInv, CountInv, NEW k, NEW S \in SUBSET Asked, OneByOne(S)
               PROVE  Cardinality(FailedGuesses(k, S))
                         <= (1 + Cardinality(SessionsOn(k[1]))) * Windows * GuessesPerWindow
                            + Cardinality(FailedGuesses(k, Asked \ S))
    <3>1. \A k : {e.id[1] : e \in FailedGuesses(k, Asked)} \in SUBSET Asked
        BY DEF FailedGuesses
    <3> QED BY <3>1 DEF GuessesBounded
  <2>1. Measured(k, S) /\ GuessesFit(k, S)
      BY ExcessIs DEF AllMeasured, CountInv
  <2>2. PICK told \in Nat, others \in Nat, n \in Nat, m \in Nat, w \in Nat, g \in Nat, d \in Int :
            /\ told = Cardinality(FailedGuesses(k, S)) /\ others = Cardinality(FailedGuesses(k, Asked \ S))
            /\ n = Cardinality(Cleared(k[1])) /\ m = Cardinality(SessionsOn(k[1])) /\ n <= m
            /\ w = Windows /\ g = GuessesPerWindow /\ d = Excess(k, S)
      BY <2>1 DEF Measured
  <2>3. PICK u \in Nat : /\ u + 1 <= w
                         /\ u = IF k \in DOMAIN loginFailures
                                THEN WindowsUntil(loginFailures[k].since) ELSE 0
    <3>1. w = 1 + WindowsUntil(now) /\ WindowsUntil(now) \in Nat
        BY <2>2, WindowsPass DEF TimedInv, GuessInv
    <3> QED BY <2>1, <2>2, <3>1 DEF Measured
  <2>4. told = d + others + g * (n * w + u)
    <3>1. Room(k) = g * (n * w + u) /\ Room(k) \in Nat
        BY <2>1, <2>2, <2>3 DEF Room, WindowsOver, Measured
    <3>2. d = told - others - Room(k)
        BY <2>2 DEF Excess
    <3> QED BY <2>2, <3>1, <3>2
  <2>5. d <= g
    <3>1. CASE k \notin DOMAIN loginFailures
        BY <2>1, <2>2, <3>1 DEF GuessesFit
    <3>2. CASE k \in DOMAIN loginFailures
      <4>1. CounterTyped(loginFailures[k]) /\ \E t \in Nat : Fits(loginFailures[k], d, t)
          BY <2>1, <2>2, <3>2 DEF GuessesFit, GuessInv
      <4> QED BY <2>2, <4>1, WindowAllows
    <3> QED BY <3>1, <3>2
  <2>6. g * (n * w + u) + g <= (1 + m) * w * g
    <3>1. g * (n * w + u) + g <= g * ((m + 1) * w + 0)
        BY <2>2, <2>3, RoomGrows
    <3>2. g * ((m + 1) * w + 0) = (1 + m) * w * g
        OBVIOUS
    <3> QED BY <3>1, <3>2
  <2>7. told <= (1 + m) * w * g + others
    <3>1. PICK a \in Nat, b \in Nat : a = g * (n * w + u) /\ b = (1 + m) * w * g
        BY RoomGrows
    <3> QED BY <2>4, <2>5, <2>6, <3>1
  <2> QED BY <2>2, <2>7
<1> QED BY <1>1, CountersCorrect, TokensCorrect, PTL
=============================================================================
