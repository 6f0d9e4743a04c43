--------------------------- MODULE SoftwareRequests ---------------------------
(***************************************************************************)
(* The requests that administrators and client applications make about the *)
(* software of the platform, run side by side: the workflows that create a *)
(* product with its official tenant, register a client with an application *)
(* and open a client session, and the single operations on products,       *)
(* applications, tenants and scopes (workflows, and the handlers that call *)
(* them).                                                                  *)
(***************************************************************************)
EXTENDS RequestFlow

\* A mistake: a repeated request completes its product under a new key.
CompletedAnew(r, call) ==
    [context[r] EXCEPT !.key = IF call = "complete" THEN <<@, call, attempt[r]>> ELSE <<@, call>>]

\* A mistake: a repeated request calls the modules under new keys.
KeyedAnew(r, call) == [context[r] EXCEPT !.key = <<@, call, attempt[r]>>]

\* The command of r for one of the calls of its workflow, which has a key of its own.
Keyed(r, call) == [context[r] EXCEPT !.key = <<@, call>>]
-----------------------------------------------------------------------------
(* A product is begun, given its official tenant and completed.            *)

BeginStep(r) ==
    /\ OnProducts(r, "begin_provisioning")
    /\ BeginProvisioning(r, Keyed(r, "product"))
    /\ Continues(r, "ensure_official_tenant", Got(r))

EnsureStep(r) ==
    /\ OnTenants(r, "ensure_official_tenant")
    /\ EnsureOfficialTenant(r, Keyed(r, "official-tenant"))
    /\ Continues(r, "complete_provisioning", [official |-> Got(r).tenant])

CompleteStep(r) ==
    /\ OnProducts(r, "complete_provisioning")
    /\ CompleteProvisioning(r, Keyed(r, "complete"))
    /\ Continues(r, "answer", Got(r))

-----------------------------------------------------------------------------
(* A client is registered with the product, then bound to the application. *)

RegisterStep(r) ==
    /\ OnProducts(r, "register_client")
    /\ RegisterClient(r, Keyed(r, "product-register"))
    /\ Continues(r, "bind_client", Got(r))

BindClientStep(r) ==
    /\ OnApplications(r, "bind_client")
    /\ BindClient(r, Keyed(r, "application-bind"))
    /\ Continues(r, "answer", Got(r))

\* After a rotation the new credential has to be one the client can use.
RotateStep(r) ==
    /\ OnProducts(r, "rotate_credential")
    /\ RotateClientCredential(r, Keyed(r, "credential-rotate"))
    /\ Continues(r, "rotated_context", Got(r))

RotatedContextStep(r) ==
    /\ OnProducts(r, "rotated_context")
    /\ ResolveProductContext(r, context[r])
    /\ Continues(r, "answer", [environment |-> Got(r).environment])

RevokeStep(r) ==
    /\ OnProducts(r, "revoke_credential")
    /\ RevokeClientCredential(r, Keyed(r, "credential-revoke"))
    /\ Continues(r, "answer", Got(r))

-----------------------------------------------------------------------------
(* A client session: the product, the application and the tenant are       *)
(* resolved one after another, and the session is made for what they were. *)

ProductContextStep(r) ==
    /\ OnProducts(r, "product_context")
    /\ ResolveProductContext(r, context[r])
    /\ Continues(r, "application_context",
                 [product |-> Got(r).product, environment |-> Got(r).environment])

ApplicationContextStep(r) ==
    /\ OnApplications(r, "application_context")
    /\ ResolveApplicationContext(r, context[r], context[r])
    /\ Continues(r, "tenant_context",
                 [application |-> Got(r).application, channel |-> Got(r).channel,
                  applicationVersion |-> Got(r).version])

\* Without a proof of its channel, only the official channel is served.
TenantContextStep(r) ==
    /\ OnTenants(r, "tenant_context")
    /\ IF ~context[r].channelProof /\ context[r].channel # "official"
       THEN Refuses(r, "invalid_client_context") /\ UNCHANGED tenantVars
       ELSE ResolveTenantContext(r, context[r].product,
               IF context[r].channelProof THEN "distribution_proof" ELSE "official_channel")
    /\ Continues(r, "authenticate_client",
                 [tenant |-> Got(r).tenant, tenantVersion |-> Got(r).version])

AuthenticateStep(r) ==
    /\ OnProducts(r, "authenticate_client")
    /\ AuthenticateClient(r, context[r], context[r])
    /\ Continues(r, "check_client", [auth |-> Got(r)])

CheckStep(r) ==
    /\ OnProducts(r, "check_client")
    /\ CheckClientSession(r, context[r], context[r].auth)
    /\ Continues(r, "create_session", << >>)

CreateSessionStep(r) ==
    /\ OnProducts(r, "create_session")
    /\ CreateClientSession(r, context[r], context[r], context[r].auth)
    /\ Continues(r, "answer", Got(r))

-----------------------------------------------------------------------------
(* The requests of one call, and an administrator bound to a tenant.       *)

CreateApplicationStep(r) ==
    /\ OnApplications(r, "create_application")
    /\ CreateApplication(r, context[r])
    /\ Continues(r, "answer", Got(r))

ReplaceRedirectsStep(r) ==
    /\ OnApplications(r, "replace_redirects")
    /\ ReplaceRedirects(r, context[r])
    /\ Continues(r, "answer", Got(r))

SuspendApplicationStep(r) ==
    /\ OnApplications(r, "suspend_application")
    /\ SuspendApplication(r, context[r])
    /\ Continues(r, "answer", Got(r))

ReplaceCapabilitiesStep(r) ==
    /\ OnProducts(r, "replace_capabilities")
    /\ ReplaceCapabilitySet(r, context[r])
    /\ Continues(r, "answer", Got(r))

CreateTenantStep(r) ==
    /\ OnTenants(r, "create_tenant")
    /\ CreateAgentTenant(r, context[r])
    /\ Continues(r, "answer", Got(r))

\* The tenant has to be one of the product.
TenantListed(r) == context[r].tenant \in TenantsOf(context[r].product)

ListTenantsStep(r) ==
    /\ OnTenants(r, "list_tenants")
    /\ IF TenantListed(r)
       THEN ListTenants(r, context[r].product)
       ELSE Refuses(r, "tenant_scope_mismatch") /\ UNCHANGED tenantVars
    /\ Continues(r, "bind_scope", << >>)

BindScopeStep(r) ==
    /\ OnAccess(r, "bind_scope")
    /\ BindAdminScope(r, context[r], Scope("tenant", context[r].product, context[r].tenant))
    /\ Continues(r, "answer", Got(r))

SoftwareStep(r) ==
    \/ BeginStep(r) \/ EnsureStep(r) \/ CompleteStep(r)
    \/ RegisterStep(r) \/ BindClientStep(r)
    \/ RotateStep(r) \/ RotatedContextStep(r) \/ RevokeStep(r)
    \/ ProductContextStep(r) \/ ApplicationContextStep(r) \/ TenantContextStep(r)
    \/ AuthenticateStep(r) \/ CheckStep(r) \/ CreateSessionStep(r)
    \/ CreateApplicationStep(r) \/ ReplaceRedirectsStep(r) \/ SuspendApplicationStep(r)
    \/ ReplaceCapabilitiesStep(r) \/ CreateTenantStep(r)
    \/ ListTenantsStep(r) \/ BindScopeStep(r)

-----------------------------------------------------------------------------
(* Properties                                                              *)

Count(events, type, subject) ==
    Cardinality({e \in events : e.type = type /\ e.subject = subject})

\* A product has one official tenant at most, and once it is ready it has the one
\* it names: the steps of its creation, failing and repeated in any order, never
\* leave a ready product without it (workflows/productprovisioning).
ReadyHasOfficialTenant ==
    \A p \in DOMAIN products :
        /\ Cardinality(OfficialTenants(p)) <= 1
        /\ products[p].state = "ready" => products[p].official \in OfficialTenants(p)

\* Requests with one key and one command are answered alike, down to the audit
\* reference, however their calls interleave (the modules' idempotency records).
KeyedAnswersAgree ==
    \A r, q \in Asked :
        (/\ Command(r) = Command(q) /\ "key" \in DOMAIN Command(r).with
         /\ Answered(r) /\ Answered(q)) => outcome[r] = outcome[q]

\* A client never has two credentials that may be used, nor two of a generation,
\* and the one it may use is the last: rotations race with each other and with
\* revocations (RotateClientCredential, RevokeClientCredential).
OneActiveCredential ==
    \A client \in DOMAIN clients :
        LET own == CredentialsOf(client) IN
        /\ \A k, j \in own : credentials[k].generation = credentials[j].generation => k = j
        /\ \A k \in own : credentials[k].status = "active"
                             => credentials[k].generation = CurrentGeneration(client)

\* A session made for a version of an application that has since been suspended
\* shows it: its version is behind.  The application is read some calls before
\* the session is made (workflows/clientcontext).
StaleSessionDetectable ==
    \A s \in DOMAIN clientSessions :
        LET app == applications[clientSessions[s].application] IN
        app.status = "suspended" => clientSessions[s].applicationVersion < app.version

\* One proof opens one session: of the requests with a client's nonce, sent side
\* by side, at most one has a session (CreateClientSession).
OneSessionPerProof ==
    \A s, t \in DOMAIN clientSessions :
        (/\ clientSessions[s].client = clientSessions[t].client
         /\ Command(s[1]).with.nonce = Command(t[1]).with.nonce) => s = t

\* The capability sets of a product, and the redirect policies of an application,
\* are numbered 1, 2, 3, ... without a gap or a double, though the replacements
\* read the number before they write it.
VersionsContiguous ==
    /\ \A p \in DOMAIN products :
          {capabilitySets[k].version : k \in SetsOf(p)} = 1 .. Cardinality(SetsOf(p))
    /\ \A app \in DOMAIN applications :
          /\ {redirects[k].version : k \in RedirectsOf(app)} = 1 .. applications[app].redirects
          /\ Cardinality(RedirectsOf(app)) = applications[app].redirects

\* What happened is told once: a repeated or a doubled request adds no event for
\* an effect that an earlier one had (the modules' outboxes).
AuditedOnce ==
    /\ \A p \in DOMAIN products :
          Count(productEvents, "product.created", p) = IF products[p].state = "ready" THEN 1 ELSE 0
    /\ \A client \in DOMAIN clients : Count(productEvents, "product.client_registered", client) = 1
    /\ \A t \in DOMAIN tenants : Count(tenantEvents, "tenant.created", t) = 1
    /\ \A app \in DOMAIN applications :
          /\ Count(applicationEvents, "suspended", app) <= 1
          /\ Count(applicationEvents, "redirects_changed", app) = applications[app].redirects

\* A product that was begun is completed, because its caller repeats the request
\* and the repetition takes up the steps that are left: docs/adr/0012.
PendingIsCompleted ==
    (\E p \in DOMAIN products : products[p].state = "pending")
        ~> (\A p \in DOMAIN products : products[p].state = "ready")

\* A key is refused as used for something else only when another request used it:
\* contracts/openapi/public-api.v1.json says that a key conflicts when it is
\* reused with a different payload.
ConflictNeedsAnother ==
    \A r \in Asked :
        outcome[r] = Error("idempotency_conflict")
            => \E q \in Asked \ {r} : /\ Command(q).kind = Command(r).kind
                                       /\ Command(q).with.key = Command(r).with.key
=============================================================================
