----------------------------- MODULE RequestFlow -----------------------------
(***************************************************************************)
(* How a request goes through the services.  A handler or a workflow calls *)
(* the modules one after another, each call a transaction of its own;      *)
(* between two calls, and before the answer is delivered, the request may  *)
(* fail.  A caller whose request failed repeats it as it was, with its     *)
(* idempotency key if it has one.                                          *)
(***************************************************************************)
EXTENDS Product, ProductApplication, Tenant, AccessControl, AdminIdentity

CONSTANTS
    Workloads   \* what may be asked: [commands, faults, until, firstLocked]

VARIABLES
    workload,   \* commands[r] = [kind, after, behind, uses, with]; the bounds faults, until
    stage,      \* stage[r]: the step at which r is
    context,    \* context[r]: the command of r, and what its steps have answered
    outcome,    \* outcome[r]: what the caller of r has been answered last
    faults,     \* how many requests may still fail
    auditLog    \* what was appended to the audit log without an outbox: [id, action]

flowVars == <<attempt, stage, context, outcome, faults>>
softwareVars == <<productVars, applicationVars, tenantVars>>
vars == <<workload, result, now, flowVars, softwareVars, accessVars, identityVars, auditLog>>

Asked == DOMAIN workload.commands
Command(r) == workload.commands[r]
Kind(r) == Command(r).kind

Init ==
    /\ workload \in Workloads
    /\ attempt = [r \in Asked |-> 0]
    /\ result = [r \in Asked |-> NoResult]
    /\ now = 1
    /\ stage = [r \in Asked |-> "idle"]
    /\ context = [r \in Asked |-> << >>]
    /\ outcome = [r \in Asked |-> NoResult]
    /\ faults = workload.faults
    /\ auditLog = {}
    /\ ProductInit /\ ApplicationInit /\ TenantInit /\ AccessInit /\ IdentityInit

-----------------------------------------------------------------------------
FirstStep ==
    [bootstrap |-> "bootstrap_identity", create_product |-> "begin_provisioning",
     create_application |-> "create_application", register_client |-> "register_client",
     rotate_credential |-> "rotate_credential", revoke_credential |-> "revoke_credential",
     create_session |-> "product_context", replace_capabilities |-> "replace_capabilities",
     replace_redirects |-> "replace_redirects", suspend_application |-> "suspend_application",
     create_tenant |-> "create_tenant", bind_tenant_admin |-> "list_tenants",
     login |-> "login_throttle", current |-> "find_session", authorize |-> "find_session",
     refresh |-> "resolve_client", logout |-> "read_proofs",
     register_admin_client |-> "register_admin_client",
     add_admin_credential |-> "add_admin_credential",
     disable_admin_client |-> "disable_sessions", revoke_admin_credential |-> "disable_sessions",
     withdraw_scopes |-> "withdraw_scopes"]

\* The kinds whose handler asks for an idempotency key.
KeyedKinds == {"create_product", "create_application", "register_client", "rotate_credential",
               "revoke_credential", "replace_capabilities", "suspend_application",
               "create_tenant", "bind_tenant_admin"}

\* Each request is of one of these kinds.  Its caller is known and names a key, if and only
\* if the handler asks for one, and a client the nonce of its proof: no answer has them.  What
\* is taken from an answer is taken from one that the request waits for, and a token is
\* one that was issued to the caller, or none: tokens are not guessed.
ASSUME WorkloadsAssumption ==
    \A w \in Workloads : \A r \in DOMAIN w.commands :
        LET c == w.commands[r]
            Says(fields) == fields \subseteq DOMAIN c.with \ DOMAIN c.uses
            Has(fields) == fields \subseteq DOMAIN c.with \cup DOMAIN c.uses
            Of(fields) == fields \intersect (DOMAIN c.with \cup DOMAIN c.uses)
        IN  /\ c.kind \in DOMAIN FirstStep
            /\ IF c.kind \in KeyedKinds THEN Says({"actor", "key"}) ELSE Of({"key"}) = {}
            /\ c.kind \in {"register_client", "rotate_credential"} => Has({"product"})
            /\ c.kind = "create_session" => Says({"nonce"})
            /\ c.kind = "login" => Has({"identifier", "source"})
            /\ c.kind = "authorize" => Has({"highRisk"})
            /\ c.kind = "refresh" => Has({"refresh", "transport"})
            /\ c.kind = "logout" => Has({"access", "refresh", "transport"})
            /\ c.kind \in {"disable_admin_client", "revoke_admin_credential"} =>
                  Has({"client", "credential"})
            /\ Of({"scopes"}) = {}
            /\ \A f \in DOMAIN c.uses : c.uses[f] \in c.after /\ c.uses[f] \in DOMAIN w.commands
            /\ \A f \in Of({"access", "refresh"}) :
                  IF f \in DOMAIN c.uses THEN w.commands[c.uses[f]].kind \in {"login", "refresh"}
                  ELSE c.with[f] = None

\* A command names what earlier requests were answered; where it matters the
\* handler reads the clock, and the secret of a client is derived from its request.
Timed == {"login", "current", "authorize", "refresh", "logout"}
Proving == {"register_client", "rotate_credential"}
SecretOf(kind, c) == <<kind, c.product, c.key>>

Prepared(r) ==
    LET c == Joined([f \in DOMAIN Command(r).uses |-> outcome[Command(r).uses[f]].value[f]],
                    Command(r).with)
    IN  CASE Kind(r) \in Timed -> Joined([at |-> now], c)
          [] Kind(r) \in Proving ->
                Joined([notBefore |-> now,
                        material |-> IF c.proofType = "hmac_sha256_v1" THEN SecretOf(Kind(r), c)
                                     ELSE c.publicKey], c)
          [] OTHER -> c

\* The command is one that the handler lets through.
Acceptable(r) == Kind(r) \in Proving => ValidCredential(Prepared(r))

Answered(r) == outcome[r].kind = "ok"
At(r, step) == r \in Asked /\ stage[r] = step
Under(r) == r \in Asked /\ stage[r] \notin {"idle", "done"}
Over(r) == stage[r] = "done" /\ outcome[r] # Error("unavailable")

\* A request is made once what it builds on was answered and what it comes behind
\* is over, and made again, as it was, when it failed.
Send(r) ==
    /\ r \in Asked
    /\ \/ /\ stage[r] = "idle"
          /\ \A q \in Command(r).after : Answered(q)
          /\ \A q \in Command(r).behind : Over(q)
       \/ stage[r] = "done" /\ outcome[r] = Error("unavailable")
    /\ attempt' = [attempt EXCEPT ![r] = @ + 1]
    /\ IF Acceptable(r)
       THEN /\ stage' = [stage EXCEPT ![r] = FirstStep[Kind(r)]]
            /\ context' = [context EXCEPT ![r] = Prepared(r)]
            /\ outcome' = [outcome EXCEPT ![r] = NoResult]
       ELSE /\ stage' = [stage EXCEPT ![r] = "done"]
            /\ outcome' = [outcome EXCEPT ![r] = Error("invalid_request")]
            /\ UNCHANGED context
    /\ UNCHANGED <<workload, result, now, faults, softwareVars, accessVars, identityVars, auditLog>>

Goes(r, next, kept) ==
    /\ stage' = [stage EXCEPT ![r] = next]
    /\ context' = [context EXCEPT ![r] = Joined(kept, @)]
    /\ UNCHANGED outcome

Refused(r) ==
    /\ stage' = [stage EXCEPT ![r] = "done"]
    /\ outcome' = [outcome EXCEPT ![r] = result'[r]]
    /\ UNCHANGED context

\* The step of r ends: the request goes on with what it keeps, or is refused.
Continues(r, next, kept) ==
    /\ IF result'[r].kind = "ok" THEN Goes(r, next, kept) ELSE Refused(r)
    /\ UNCHANGED <<workload, attempt, now, faults>>

\* The request fails before its next call, or its answer is lost; a transaction
\* that was open is rolled back.
Fail(r) ==
    /\ Under(r)
    /\ faults > 0
    /\ faults' = faults - 1
    /\ held' = [held EXCEPT ![r] = {}]
    /\ stage' = [stage EXCEPT ![r] = "done"]
    /\ outcome' = [outcome EXCEPT ![r] = Error("unavailable")]
    /\ UNCHANGED <<workload, attempt, result, now, context, softwareVars, accessVars,
                   identityRows, auditLog>>

\* The handler shows a suspension only with the audit reference it has.
Shown(r) ==
    IF Kind(r) = "suspend_application" /\ context[r].audit = None
    THEN Error("internal_error") ELSE Answer(context[r])

Deliver(r) ==
    /\ At(r, "answer")
    /\ stage' = [stage EXCEPT ![r] = "done"]
    /\ outcome' = [outcome EXCEPT ![r] = Shown(r)]
    /\ UNCHANGED <<workload, attempt, result, now, context, faults, softwareVars, accessVars,
                   identityVars, auditLog>>

Tick ==
    /\ now < workload.until
    /\ now' = now + 1
    /\ UNCHANGED <<workload, result, flowVars, softwareVars, accessVars, identityVars, auditLog>>

Got(r) == result'[r].value

\* The module that a step of r is about: the others keep their state.
OnProducts(r, step) ==
    At(r, step) /\ UNCHANGED <<applicationVars, tenantVars, accessVars, identityVars, auditLog>>
OnApplications(r, step) ==
    At(r, step) /\ UNCHANGED <<productVars, tenantVars, accessVars, identityVars, auditLog>>
OnTenants(r, step) ==
    At(r, step) /\ UNCHANGED <<productVars, applicationVars, accessVars, identityVars, auditLog>>
OnAccess(r, step) == At(r, step) /\ UNCHANGED <<softwareVars, identityVars, auditLog>>
OnIdentity(r, step) == At(r, step) /\ UNCHANGED <<softwareVars, accessVars, auditLog>>
=============================================================================
