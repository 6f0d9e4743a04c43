-------------------------------- MODULE Tenant --------------------------------
(***************************************************************************)
(* The tenant module: the operating scopes of a product, one of them       *)
(* official (modules/tenant).  A tenant, once created, never changes.      *)
(*                                                                         *)
(* Nothing in the repository writes a distribution binding, so the proof   *)
(* of a distribution channel never names a tenant.                         *)
(***************************************************************************)
EXTENDS ServiceCalls

VARIABLES
    tenants,            \* tenant rows by identifier
    tenantReceipts,     \* the idempotency records
    tenantEvents        \* the outbox: [id, type, subject]

tenantVars == <<tenants, tenantReceipts, tenantEvents>>

TenantInit == tenants = << >> /\ tenantReceipts = << >> /\ tenantEvents = {}

TenantsOf(p) == {t \in DOMAIN tenants : tenants[t].product = p}
OfficialTenants(p) == {t \in TenantsOf(p) : tenants[t].type = "official"}

LoadReceipt(r, idem, refusal) ==
    /\ Settled(r, tenantReceipts, idem, refusal)
    /\ UNCHANGED tenantVars

SaveReceipt(r, idem, answer) ==
    /\ tenantReceipts' = Receipted(tenantReceipts, idem, answer)
    /\ Returns(r, answer)

InsertTenant(r, p, code, type, status) ==
    tenants' = Added(tenants, NewId(r), [product |-> p, code |-> code, type |-> type,
                                         status |-> status, version |-> 1])

TenantEvent(r) ==
    tenantEvents' = tenantEvents
        \cup {[id |-> NewId(r), type |-> "tenant.created", subject |-> NewId(r)]}

-----------------------------------------------------------------------------
EnsureOfficialTenantRequest(c) ==
    Idempotency("tenant.ensure_official", c.actor, c.product, c.key, <<c.product>>)

\* A product that has an official tenant is answered with it, whatever the key:
\* the transaction holds a lock of the product.
EnsureOfficialTenant(r, c) ==
    LET idem == EnsureOfficialTenantRequest(c) IN
    \/ LoadReceipt(r, idem, Accepted)
    \/ /\ Proceeds(tenantReceipts, idem, Accepted)
       /\ OfficialTenants(c.product) # {}
       /\ \E t \in OfficialTenants(c.product) : SaveReceipt(r, idem, [tenant |-> t])
       /\ UNCHANGED <<tenants, tenantEvents>>
    \/ /\ Proceeds(tenantReceipts, idem, Accepted)
       /\ OfficialTenants(c.product) = {}
       /\ InsertTenant(r, c.product, "official", "official", "active")
       /\ TenantEvent(r)
       /\ SaveReceipt(r, idem, [tenant |-> NewId(r)])

CreateAgentTenantRequest(c) ==
    Idempotency("tenant.create_agent", c.actor, c.product, c.key,
                <<c.product, c.code, c.status>>)

\* Whether the product exists is not asked; its codes are unique, and one is kept
\* for the official tenant.
CreateAgentTenant(r, c) ==
    LET idem == CreateAgentTenantRequest(c)
        refusal == IF \E t \in TenantsOf(c.product) : tenants[t].code = c.code
                   THEN "tenant_code_conflict" ELSE Accepted
    IN  \/ /\ c.code = "official"
           /\ Refuses(r, "invalid_request")
           /\ UNCHANGED tenantVars
        \/ /\ c.code # "official"
           /\ LoadReceipt(r, idem, refusal)
        \/ /\ c.code # "official"
           /\ Proceeds(tenantReceipts, idem, refusal)
           /\ InsertTenant(r, c.product, c.code, "agent", c.status)
           /\ TenantEvent(r)
           /\ SaveReceipt(r, idem, [tenant |-> NewId(r), audit |-> NewId(r)])

\* The tenants of the product, the official one first.
ListTenants(r, p) ==
    /\ Returns(r, [tenants |-> TenantsOf(p)])
    /\ UNCHANGED tenantVars

\* The tenant of a client session: the official one, or that of a distribution.
ResolveTenantContext(r, p, method) ==
    /\ IF method = "distribution_proof" THEN Refuses(r, "invalid_tenant_proof")
       ELSE IF OfficialTenants(p) = {} THEN Refuses(r, "not_found")
       ELSE \E t \in OfficialTenants(p) :
              Returns(r, [tenant |-> t, type |-> tenants[t].type, version |-> tenants[t].version])
    /\ UNCHANGED tenantVars
=============================================================================
