---------------------------- MODULE AccessControl ----------------------------
(***************************************************************************)
(* The access control module: roles with their permissions, the scopes in  *)
(* which an administrator has a role, and the snapshot of both on which    *)
(* every decision rests (modules/accesscontrol).                           *)
(*                                                                         *)
(* Nothing in the repository takes a role or a scope away.  The queries    *)
(* look at the status of a binding all the same, which an operator may set *)
(* in the database.                                                        *)
(***************************************************************************)
EXTENDS ServiceCalls

CONSTANTS
    Catalog,        \* the permissions the platform defines
    GrantedAtStart  \* those that the bootstrap gives to the super administrator

VARIABLES
    roles,                  \* roles[code]: the permissions of each active role
    scopeBindings,          \* scope bindings by identifier
    authorizationVersions,  \* the version of each administrator's authorization
    bindingReceipts,        \* the idempotency records
    accessEvents            \* the outbox: [id, subject]

accessVars == <<roles, scopeBindings, authorizationVersions, bindingReceipts, accessEvents>>

ASSUME CatalogAssumption == GrantedAtStart \subseteq Catalog

AccessInit ==
    /\ roles = << >> /\ scopeBindings = << >> /\ authorizationVersions = << >>
    /\ bindingReceipts = << >> /\ accessEvents = {}

Scope(type, product, tenant) == [type |-> type, product |-> product, tenant |-> tenant]
PlatformScope == Scope("platform", None, None)

VersionOf(admin) ==
    IF admin \in DOMAIN authorizationVersions THEN authorizationVersions[admin] ELSE 0

\* A mistake: the version grows only when there is none.
SameVersion(admin) == IF VersionOf(admin) = 0 THEN 1 ELSE VersionOf(admin)

NextVersion(admin) == VersionOf(admin) + 1

AdvanceVersion(admin) ==
    authorizationVersions' = Put(authorizationVersions, admin, NextVersion(admin))

\* The unique index of the bindings: an administrator has a role in a scope once.
BoundAlready(admin, role, scope) ==
    \E b \in DOMAIN scopeBindings :
        /\ scopeBindings[b].admin = admin
        /\ scopeBindings[b].role = role
        /\ scopeBindings[b].scope = scope

-----------------------------------------------------------------------------
Binding(admin, role, scope) ==
    [admin |-> admin, role |-> role, scope |-> scope, from |-> now, active |-> TRUE]

\* The command-line tool makes an administrator a super administrator, again
\* and again if need be: each time the version grows.
BootstrapPlatformAdmin(r, admin) ==
    /\ roles' = Put(roles, "super_admin", GrantedAtStart)
    /\ scopeBindings' =
          IF BoundAlready(admin, "super_admin", PlatformScope)
          THEN [b \in DOMAIN scopeBindings |->
                   IF scopeBindings[b].admin = admin /\ scopeBindings[b].scope = PlatformScope
                   THEN [scopeBindings[b] EXCEPT !.active = TRUE] ELSE scopeBindings[b]]
          ELSE Added(scopeBindings, NewId(r), Binding(admin, "super_admin", PlatformScope))
    /\ AdvanceVersion(admin)
    /\ Returns(r, [admin |-> admin])
    /\ UNCHANGED <<bindingReceipts, accessEvents>>

\* The digest of a request covers the time from which the binding is effective,
\* which is the clock's reading when the caller names none.
ScopeBindingRequest(c, scope) ==
    Idempotency("bind_admin_scope", c.actor, None, c.key, <<c.admin, c.role, scope, now>>)

\* No one is given the platform's scope through this operation.
NormalizeBindingScope(scope) == IF scope.type = "platform" THEN None ELSE scope

BindAdminScope(r, c, scope) ==
    LET idem == ScopeBindingRequest(c, scope)
        refusal == IF NormalizeBindingScope(scope) = None THEN "invalid_scope_binding"
                   ELSE IF c.role \notin DOMAIN roles THEN "role_not_found"
                   ELSE IF BoundAlready(c.admin, c.role, scope) THEN "scope_binding_conflict"
                   ELSE Accepted
        answer == [binding |-> NewId(r), admin |-> c.admin, scope |-> scope,
                   version |-> NextVersion(c.admin)]
    IN  \/ /\ Settled(r, bindingReceipts, idem, refusal)
           /\ UNCHANGED accessVars
        \/ /\ Proceeds(bindingReceipts, idem, refusal)
           /\ scopeBindings' = Added(scopeBindings, NewId(r), Binding(c.admin, c.role, scope))
           /\ AdvanceVersion(c.admin)
           /\ accessEvents' = accessEvents \cup {[id |-> NewId(r), subject |-> NewId(r)]}
           /\ bindingReceipts' = Receipted(bindingReceipts, idem, answer)
           /\ Returns(r, answer)
           /\ UNCHANGED roles

\* An operator withdraws an administrator's scopes in the database.
WithdrawScopes(r, admin) ==
    /\ scopeBindings' = [b \in DOMAIN scopeBindings |->
                            IF scopeBindings[b].admin = admin
                            THEN [scopeBindings[b] EXCEPT !.active = FALSE] ELSE scopeBindings[b]]
    /\ Returns(r, << >>)
    /\ UNCHANGED <<roles, authorizationVersions, bindingReceipts, accessEvents>>

-----------------------------------------------------------------------------
(* A snapshot takes two reads: of the version, then of the bindings.       *)

ActiveBindings(admin) ==
    {b \in DOMAIN scopeBindings : /\ scopeBindings[b].admin = admin
                                  /\ scopeBindings[b].active /\ scopeBindings[b].from <= now}

ScopesOf(admin) == {scopeBindings[b].scope : b \in ActiveBindings(admin)}
PermissionsOf(admin) == UNION {roles[scopeBindings[b].role] : b \in ActiveBindings(admin)}

\* The first read: an administrator without a version has no scope.
ReadAuthorizationVersion(r, admin) ==
    /\ IF admin \in DOMAIN authorizationVersions
       THEN Returns(r, [read |-> authorizationVersions[admin]])
       ELSE Refuses(r, "no_active_scope")
    /\ UNCHANGED accessVars

\* The second read, and the snapshot.
ResolveSnapshot(r, admin, version) ==
    /\ IF ScopesOf(admin) = {} \/ PermissionsOf(admin) = {} THEN Refuses(r, "no_active_scope")
       ELSE Returns(r, [version |-> version, scopes |-> ScopesOf(admin),
                        permissions |-> PermissionsOf(admin)])
    /\ UNCHANGED accessVars

ScopeMatches(scope, target) ==
    CASE scope.type = "platform" -> TRUE
      [] scope.type = "product" -> target.product = scope.product
      [] scope.type = "tenant" -> target.tenant = scope.tenant /\ target.product = scope.product

\* The reason to deny a permission in a target scope, on a snapshot of the
\* administrator's: any scope with any of the permissions of all scopes will do.
DenialReason(snapshot, permission, target) ==
    IF permission \notin Catalog THEN "unknown_permission"
    ELSE IF permission \notin snapshot.permissions THEN "permission_missing"
    ELSE IF ~(\E scope \in snapshot.scopes : ScopeMatches(scope, target)) THEN "scope_mismatch"
    ELSE Accepted
=============================================================================
