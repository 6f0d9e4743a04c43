------------------------------- MODULE Product -------------------------------
(***************************************************************************)
(* The product module: products, their clients with the credentials that   *)
(* authenticate them, the sessions of clients and the versioned capability *)
(* sets (modules/product).  An operation of the service makes a keyed      *)
(* request of its command and hands it to one transaction of the           *)
(* repository, which is one action here.                                   *)
(*                                                                         *)
(* Environments and clients, once created, are active and at version 1: no *)
(* operation changes them.  Names, columns that nothing reads and the      *)
(* wording of events are left out.                                         *)
(***************************************************************************)
EXTENDS ServiceCalls, FiniteSetsExt

CONSTANTS
    SessionTTL,     \* how long a client session lives
    ConfirmedPlans  \* the plans that the assembly module vouches for

VARIABLES
    products,           \* product rows by identifier
    clients,            \* client rows by identifier
    credentials,        \* credential rows by identifier
    nonces,             \* <<client, nonce>> of each proof accepted
    clientSessions,     \* session rows by identifier
    capabilitySets,     \* capability set rows by identifier
    productReceipts,    \* the idempotency records
    productEvents       \* the outbox: [id, type, subject]

productVars == <<products, clients, credentials, nonces, clientSessions,
                 capabilitySets, productReceipts, productEvents>>

Environments == {"local", "test", "production"}
ProofTypes == {"hmac_sha256_v1", "ed25519_signature_v1"}

ProductInit ==
    /\ products = << >> /\ clients = << >> /\ credentials = << >>
    /\ nonces = {} /\ clientSessions = << >> /\ capabilitySets = << >>
    /\ productReceipts = << >> /\ productEvents = {}

Emits(r, type, subject) ==
    productEvents' = productEvents \cup {[id |-> NewId(r), type |-> type, subject |-> subject]}

\* A keyed operation answers without an effect.
ClaimIdempotency(r, idem, refusal) ==
    /\ Settled(r, productReceipts, idem, refusal)
    /\ UNCHANGED productVars

\* A keyed operation answers with its effect.
CompleteIdempotency(r, idem, answer) ==
    /\ productReceipts' = Receipted(productReceipts, idem, answer)
    /\ Returns(r, answer)

EnvironmentContextVersion == 1
CompositeContextVersion(p) == products[p].version + EnvironmentContextVersion - 1

-----------------------------------------------------------------------------
(* Provisioning: a product is created pending, and completed with the      *)
(* official tenant that the tenant module made for it.                     *)

\* The handler names no environments, so a product gets all of them.
NormalizeEnvironments(values) == IF values = {} THEN Environments ELSE values

BeginProvisioningRequest(c) ==
    Idempotency("product.begin_provisioning", c.actor, "platform", c.key,
                <<c.code, c.status, NormalizeEnvironments({})>>)

\* A mistake: the product is ready before it has its tenant.
ReadyProduct(c) ==
    [code |-> c.code, status |-> c.status, state |-> "ready", official |-> None, version |-> 1,
     environments |-> NormalizeEnvironments({})]

NewProduct(c) ==
    [code |-> c.code, status |-> c.status, state |-> "pending", official |-> None, version |-> 1,
     environments |-> NormalizeEnvironments({})]

BeginProvisioning(r, c) ==
    LET idem == BeginProvisioningRequest(c)
        refusal == IF \E p \in DOMAIN products : products[p].code = c.code
                   THEN "conflict" ELSE Accepted
    IN  \/ ClaimIdempotency(r, idem, refusal)
        \/ /\ Proceeds(productReceipts, idem, refusal)
           /\ products' = Added(products, NewId(r), NewProduct(c))
           /\ Emits(r, "product.provisioning_started", NewId(r))
           /\ CompleteIdempotency(r, idem, [product |-> NewId(r)])
           /\ UNCHANGED <<clients, credentials, nonces, clientSessions, capabilitySets>>

CompleteProvisioningRequest(c) ==
    Idempotency("product.complete_provisioning", c.actor, c.product, c.key,
                <<c.product, c.official>>)

\* A product that is ready answers again for the tenant it has, with a new event.
CompleteProvisioning(r, c) ==
    LET idem == CompleteProvisioningRequest(c)
        refusal == IF c.product \notin DOMAIN products THEN "not_found"
                   ELSE IF products[c.product].state = "ready"
                           /\ products[c.product].official # c.official
                        THEN "provisioning_state" ELSE Accepted
    IN  \/ ClaimIdempotency(r, idem, refusal)
        \/ /\ Proceeds(productReceipts, idem, refusal)
           /\ products' = IF products[c.product].state = "ready" THEN products
                          ELSE [products EXCEPT ![c.product].state = "ready",
                                                ![c.product].official = c.official,
                                                ![c.product].version = @ + 1]
           /\ Emits(r, "product.created", c.product)
           /\ CompleteIdempotency(r, idem, [product |-> c.product, official |-> c.official,
                                            audit |-> NewId(r)])
           /\ UNCHANGED <<clients, credentials, nonces, clientSessions, capabilitySets>>

-----------------------------------------------------------------------------
(* Clients and their credentials.  A rotation revokes the active           *)
(* credential and adds one of the next generation; the rows of a client's  *)
(* credentials are locked, and its generations unique, so that of two      *)
(* rotations from one generation the second is refused.                    *)

CredentialsOf(client) == {k \in DOMAIN credentials : credentials[k].client = client}
Generations(client) == {credentials[k].generation : k \in CredentialsOf(client)}

\* What a request to register or to rotate says of the credential: its validity
\* begins at the clock's reading, which is part of the request.
ProofMaterial(c) == <<c.proofType, c.material, c.notBefore, c.expires>>

ValidCredential(c) == c.proofType \in ProofTypes /\ c.expires > c.notBefore

NewCredential(c, client, generation) ==
    [client |-> client, product |-> c.product, proofType |-> c.proofType,
     material |-> c.material, generation |-> generation, status |-> "active",
     notBefore |-> c.notBefore, expires |-> c.expires]

RegisterClientRequest(c) ==
    Idempotency("product.register_client", c.actor, c.product, c.key,
                <<c.product, c.environment, ProofMaterial(c)>>)

\* A product that is still pending can be given clients.
RegisterClient(r, c) ==
    LET idem == RegisterClientRequest(c)
        refusal == IF \/ c.product \notin DOMAIN products
                      \/ c.environment \notin products[c.product].environments
                   THEN "not_found"
                   ELSE IF products[c.product].status # "active"
                        THEN "product_unavailable" ELSE Accepted
    IN  \/ ClaimIdempotency(r, idem, refusal)
        \/ /\ Proceeds(productReceipts, idem, refusal)
           /\ clients' = Added(clients, NewId(r), [product |-> c.product,
                                                   environment |-> c.environment])
           /\ credentials' = Added(credentials, NewId(r), NewCredential(c, NewId(r), 1))
           /\ Emits(r, "product.client_registered", NewId(r))
           /\ CompleteIdempotency(r, idem, [client |-> NewId(r), credential |-> NewId(r),
                                            generation |-> 1, material |-> c.material])
           /\ UNCHANGED <<products, nonces, clientSessions, capabilitySets>>

RotateClientCredentialRequest(c) ==
    Idempotency("product.rotate_client_credential", c.actor, c.product, c.key,
                <<c.product, c.client, c.generation, ProofMaterial(c)>>)

CurrentGeneration(client) == Max(Generations(client))

\* A mistake: the generation the caller has seen is not compared.
AnyGeneration(c) == IF CredentialsOf(c.client) = {} THEN "not_found" ELSE Accepted

RotationRefusal(c) ==
    IF CredentialsOf(c.client) = {} THEN "not_found"
    ELSE IF CurrentGeneration(c.client) # c.generation THEN "credential_version_conflict"
    ELSE Accepted

RevokedCredentials(revoked) ==
    [k \in DOMAIN credentials |->
        IF k \in revoked THEN [credentials[k] EXCEPT !.status = "revoked"] ELSE credentials[k]]

RotateClientCredential(r, c) ==
    LET idem == RotateClientCredentialRequest(c)
        refusal == RotationRefusal(c)
    IN  \/ ClaimIdempotency(r, idem, refusal)
        \/ /\ Proceeds(productReceipts, idem, refusal)
           /\ credentials' = Added(RevokedCredentials(CredentialsOf(c.client)), NewId(r),
                                   NewCredential(c, c.client, c.generation + 1))
           /\ Emits(r, "product.client_credential_rotated", c.client)
           /\ CompleteIdempotency(r, idem, [client |-> c.client, credential |-> NewId(r),
                                            generation |-> c.generation + 1,
                                            material |-> c.material])
           /\ UNCHANGED <<products, clients, nonces, clientSessions, capabilitySets>>

RevokeClientCredentialRequest(c) ==
    Idempotency("product.revoke_client_credential", c.actor, c.product, c.key,
                <<c.product, c.client, c.credential>>)

\* A credential revoked before answers again, with a new event.
RevokeClientCredential(r, c) ==
    LET idem == RevokeClientCredentialRequest(c)
        refusal == IF c.credential \in CredentialsOf(c.client) THEN Accepted ELSE "not_found"
    IN  \/ ClaimIdempotency(r, idem, refusal)
        \/ /\ Proceeds(productReceipts, idem, refusal)
           /\ credentials' = [credentials EXCEPT ![c.credential].status = "revoked"]
           /\ Emits(r, "product.client_credential_revoked", c.client)
           /\ CompleteIdempotency(r, idem, [credential |-> c.credential, audit |-> NewId(r)])
           /\ UNCHANGED <<products, clients, nonces, clientSessions, capabilitySets>>

-----------------------------------------------------------------------------
(* Client sessions.  A client proves that it holds the credential; the     *)
(* server has resolved the application and the tenant the session is for.  *)

\* The client and its credential may be used at the time t.
Authentic(client, credential, t) ==
    /\ client \in DOMAIN clients
    /\ credential \in CredentialsOf(client)
    /\ credentials[credential].status = "active"
    /\ credentials[credential].notBefore <= t
    /\ t < credentials[credential].expires
    /\ products[clients[client].product].status = "active"
    /\ products[clients[client].product].state = "ready"

\* The product context that the authentication of a client yields.
ProductContext(client) ==
    [product |-> clients[client].product, environment |-> clients[client].environment,
     version |-> CompositeContextVersion(clients[client].product)]

ResolveProductContext(r, c) ==
    /\ IF Authentic(c.client, c.credential, now)
       THEN Returns(r, ProductContext(c.client)) ELSE Refuses(r, "credential_unavailable")
    /\ UNCHANGED productVars

\* A shared secret is compared; a signature must also be one of this request.
VerifyClientProof(c) ==
    /\ c.proofType = credentials[c.credential].proofType
    /\ c.material = credentials[c.credential].material
    /\ c.proofType = "ed25519_signature_v1" => c.signed = c.nonce

\* A refusal that the service records for the audit.
DeniesSession(r, c, reason) ==
    /\ Refuses(r, reason)
    /\ Emits(r, "client.session_denied", c.client)
    /\ UNCHANGED <<products, clients, credentials, nonces, clientSessions,
                   capabilitySets, productReceipts>>

SessionDenial(c, scope) ==
    IF ~Authentic(c.client, c.credential, now) THEN "credential_unavailable"
    ELSE IF \/ clients[c.client].product # scope.product
            \/ clients[c.client].environment # scope.environment THEN "client_unavailable"
    ELSE IF ~VerifyClientProof(c) THEN "credential_unavailable" ELSE Accepted

\* The service's checks, before the transaction that makes the session.
AuthenticateClient(r, c, scope) ==
    \/ /\ SessionDenial(c, scope) # Accepted
       /\ DeniesSession(r, c, SessionDenial(c, scope))
    \/ /\ SessionDenial(c, scope) = Accepted
       /\ Returns(r, [at |-> now, version |-> ProductContext(c.client).version])
       /\ UNCHANGED productVars

\* The transaction checks the client once more, at the time the service read,
\* and locks none of the rows it reads.
CheckClientSession(r, c, auth) ==
    /\ IF Authentic(c.client, c.credential, auth.at)
       THEN Returns(r, auth) ELSE Refuses(r, "client_unavailable")
    /\ UNCHANGED productVars

\* A mistake: the nonce of another session is not looked for.
NonceIgnored(c) == FALSE

NonceTaken(c) == <<c.client, c.nonce>> \in nonces

\* The client's nonce, which is unique, is taken with the session.
CreateClientSession(r, c, scope, auth) ==
    \/ /\ NonceTaken(c)
       /\ DeniesSession(r, c, "nonce_replayed")
    \/ /\ ~NonceTaken(c)
       /\ nonces' = nonces \cup {<<c.client, c.nonce>>}
       /\ clientSessions' = Added(clientSessions, NewId(r),
             [product |-> scope.product, application |-> scope.application,
              applicationVersion |-> scope.applicationVersion,
              tenant |-> scope.tenant, tenantVersion |-> scope.tenantVersion,
              client |-> c.client, credential |-> c.credential,
              productVersion |-> auth.version, expires |-> auth.at + SessionTTL])
       /\ Emits(r, "client.session_created", c.client)
       /\ Returns(r, [session |-> NewId(r)])
       /\ UNCHANGED <<products, clients, credentials, capabilitySets, productReceipts>>

-----------------------------------------------------------------------------
(* Capability sets.  A set is made of a confirmed plan, which the assembly *)
(* module vouches for, and only on top of the version the caller has seen. *)

SetsOf(p) == {k \in DOMAIN capabilitySets : capabilitySets[k].product = p}
CapabilityVersion(p) == Max({0} \cup {capabilitySets[k].version : k \in SetsOf(p)})

\* The plan is a confirmed one of the product, with the checksums of the request.
ResolveProductCapabilityChange(c) == c.plan \in ConfirmedPlans

ReplaceCapabilitySetRequest(c) ==
    Idempotency("product.replace_capability_set", c.actor, c.product, c.key,
                <<c.plan, c.expected>>)

Unavailable(p) ==
    p \notin DOMAIN products \/ products[p].status # "active" \/ products[p].state # "ready"

\* A mistake: the version the caller has seen is not compared.
AnyCapabilityVersion(c) == IF Unavailable(c.product) THEN "product_unavailable" ELSE Accepted

CapabilityRefusal(c) ==
    IF Unavailable(c.product) THEN "product_unavailable"
    ELSE IF CapabilityVersion(c.product) # c.expected THEN "capability_version_conflict"
    ELSE Accepted

ReplaceCapabilitySet(r, c) ==
    LET idem == ReplaceCapabilitySetRequest(c)
        refusal == CapabilityRefusal(c)
    IN  \/ /\ ~ResolveProductCapabilityChange(c)
           /\ Refuses(r, "untrusted_change_plan")
           /\ UNCHANGED productVars
        \/ /\ ResolveProductCapabilityChange(c)
           /\ ClaimIdempotency(r, idem, refusal)
        \/ /\ ResolveProductCapabilityChange(c)
           /\ Proceeds(productReceipts, idem, refusal)
           /\ capabilitySets' = Added(capabilitySets, NewId(r),
                 [product |-> c.product, version |-> c.expected + 1, plan |-> c.plan])
           /\ Emits(r, "product.capabilities_changed", c.product)
           /\ CompleteIdempotency(r, idem, [version |-> c.expected + 1, audit |-> NewId(r)])
           /\ UNCHANGED <<products, clients, credentials, nonces, clientSessions>>

=============================================================================
