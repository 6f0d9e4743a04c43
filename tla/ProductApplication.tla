-------------------------- MODULE ProductApplication --------------------------
(***************************************************************************)
(* The product application module: the technical applications of a         *)
(* product, the binding of a client to one of them, and the versioned      *)
(* allowlists of redirects (modules/productapplication).  The version of   *)
(* an application's context grows with each change that a client session   *)
(* made before should notice.                                              *)
(***************************************************************************)
EXTENDS ServiceCalls

CONSTANTS
    ServerEnvironment   \* the environment this server is configured for

VARIABLES
    applications,           \* application rows by identifier
    bindings,               \* the binding of each bound client
    redirects,              \* redirect policy versions by identifier
    applicationReceipts,    \* the idempotency records
    applicationEvents       \* the outbox: [id, type, subject, version]

applicationVars == <<applications, bindings, redirects, applicationReceipts, applicationEvents>>

ApplicationInit ==
    /\ applications = << >> /\ bindings = << >> /\ redirects = << >>
    /\ applicationReceipts = << >> /\ applicationEvents = {}

Tells(r, type, app, version) ==
    applicationEvents' = applicationEvents
        \cup {[id |-> NewId(r), type |-> type, subject |-> app, version |-> version]}

ReserveIdempotency(r, idem, refusal) ==
    /\ Settled(r, applicationReceipts, idem, refusal)
    /\ UNCHANGED applicationVars

StoresResponse(r, idem, answer) ==
    /\ applicationReceipts' = Receipted(applicationReceipts, idem, answer)
    /\ Returns(r, answer)

ApplicationOf(p, app) == app \in DOMAIN applications /\ applications[app].product = p

-----------------------------------------------------------------------------
CreateApplicationRequest(c) ==
    Idempotency("create_application", c.actor, c.product, c.key,
                <<c.product, c.code, c.channel, c.status>>)

\* Whether the product exists is not asked: its identifier is trusted.
CreateApplication(r, c) ==
    LET idem == CreateApplicationRequest(c)
        refusal == IF \E app \in DOMAIN applications :
                         ApplicationOf(c.product, app) /\ applications[app].code = c.code
                   THEN "conflict" ELSE Accepted
    IN  \/ ReserveIdempotency(r, idem, refusal)
        \/ /\ Proceeds(applicationReceipts, idem, refusal)
           /\ applications' = Added(applications, NewId(r),
                 [product |-> c.product, code |-> c.code, channel |-> c.channel,
                  status |-> c.status, version |-> 1, redirects |-> 0])
           /\ Tells(r, "created", NewId(r), 0)
           /\ StoresResponse(r, idem, [application |-> NewId(r), audit |-> NewId(r)])
           /\ UNCHANGED <<bindings, redirects>>

BindClientRequest(c) ==
    Idempotency("bind_client", c.actor, <<c.product, c.application>>, c.key,
                <<c.product, c.application, c.client, c.environment>>)

\* A client is bound once, whatever the application.
BindClient(r, c) ==
    LET idem == BindClientRequest(c)
        refusal == IF ~ApplicationOf(c.product, c.application) THEN "not_found"
                   ELSE IF applications[c.application].status # "active"
                        THEN "application_suspended"
                   ELSE IF c.client \in DOMAIN bindings THEN "conflict" ELSE Accepted
    IN  \/ ReserveIdempotency(r, idem, refusal)
        \/ /\ Proceeds(applicationReceipts, idem, refusal)
           /\ bindings' = Added(bindings, c.client,
                 [product |-> c.product, application |-> c.application,
                  environment |-> c.environment])
           /\ Tells(r, "client_bound", c.application, 0)
           /\ StoresResponse(r, idem, [client |-> c.client, audit |-> NewId(r)])
           /\ UNCHANGED <<applications, redirects>>

-----------------------------------------------------------------------------
(* Redirect allowlists.  An entry is a web address, an origin or a deep    *)
(* link, with what the rules ask of it: its scheme, whether its host is    *)
(* this machine, whether it names a port, and how it is spelled.           *)

\* In production an address is secure and has no port; elsewhere only this
\* machine is reached without encryption.
ValidTransport(e) ==
    IF ServerEnvironment = "production" THEN e.scheme = "https" /\ ~e.port
    ELSE e.scheme = "http" => e.loopback

ValidEntry(e) ==
    CASE e.type = "deep_link" ->
            e.scheme \notin {"http", "https", "javascript", "data", "file", "ftp", "ws", "wss"}
      [] e.type # "deep_link" -> e.scheme \in {"http", "https"} /\ ValidTransport(e)

\* Two spellings of one address are one entry, and the order says nothing.
NormalizeRedirectPolicy(entries) == {[e EXCEPT !.spelling = "lower"] : e \in entries}

RedirectsOf(app) == {k \in DOMAIN redirects : redirects[k].application = app}

\* The policy in force has the content of the new one.
SameContent(app, content) ==
    \E k \in RedirectsOf(app) : /\ redirects[k].version = applications[app].redirects
                                /\ redirects[k].content = content

\* The audit reference of the event that announced a version of the policy.
RedirectAudit(app, version) ==
    LET events == {e \in applicationEvents : /\ e.type = "redirects_changed"
                                             /\ e.subject = app /\ e.version = version}
    IN  IF events = {} THEN None ELSE (CHOOSE e \in events : TRUE).id

\* The replacement has no key: the same content again is the version there is.
ReplaceRedirects(r, c) ==
    LET content == NormalizeRedirectPolicy(c.entries)
        app == c.application
        next == applications[app].redirects + 1
    IN  \/ /\ ~(\A e \in c.entries : ValidEntry(e)) \/ ~ApplicationOf(c.product, app)
           /\ Refuses(r, IF \A e \in c.entries : ValidEntry(e)
                         THEN "not_found" ELSE "invalid_argument")
           /\ UNCHANGED applicationVars
        \/ /\ \A e \in c.entries : ValidEntry(e)
           /\ ApplicationOf(c.product, app)
           /\ SameContent(app, content)
           /\ Returns(r, [version |-> next - 1, audit |-> RedirectAudit(app, next - 1)])
           /\ UNCHANGED applicationVars
        \/ /\ \A e \in c.entries : ValidEntry(e)
           /\ ApplicationOf(c.product, app)
           /\ ~SameContent(app, content)
           /\ redirects' = Added(redirects, NewId(r), [application |-> app, version |-> next,
                                                       content |-> content])
           /\ applications' = [applications EXCEPT ![app].redirects = next,
                                                   ![app].version = @ + 1]
           /\ Tells(r, "redirects_changed", app, next)
           /\ Returns(r, [version |-> next, audit |-> NewId(r)])
           /\ UNCHANGED <<bindings, applicationReceipts>>

-----------------------------------------------------------------------------
SuspendApplicationRequest(c) ==
    Idempotency("suspend_application", c.actor, <<c.product, c.application>>, c.key,
                <<c.product, c.application, c.sessionPolicy>>)

\* The clients bound to the application: what the answer counts as affected.
BoundClients(app) == {client \in DOMAIN bindings : bindings[client].application = app}

\* The audit reference of the suspension, if it was an operation that suspended.
SuspensionAudit(app) ==
    LET events == {e \in applicationEvents : e.type = "suspended" /\ e.subject = app}
    IN  IF events = {} THEN None ELSE (CHOOSE e \in events : TRUE).id

\* A mistake: sessions made before cannot tell.
SuspendedInPlace(row) == [row EXCEPT !.status = "suspended"]

\* A mistake: an application is suspended again.
MaySuspendAgain(app) == app \in DOMAIN applications

MaySuspend(app) == applications[app].status = "active"

SuspendedRow(row) == [row EXCEPT !.status = "suspended", !.version = @ + 1]

\* An application suspended before answers with the earlier audit reference.
SuspendApplication(r, c) ==
    LET idem == SuspendApplicationRequest(c)
        app == c.application
        refusal == IF ApplicationOf(c.product, app) THEN Accepted ELSE "not_found"
        answer(audit) == [application |-> app, sessionPolicy |-> c.sessionPolicy,
                          affected |-> Cardinality(BoundClients(app)), audit |-> audit]
    IN  \/ ReserveIdempotency(r, idem, refusal)
        \/ /\ Proceeds(applicationReceipts, idem, refusal)
           /\ MaySuspend(app)
           /\ applications' = [applications EXCEPT ![app] = SuspendedRow(@)]
           /\ Tells(r, "suspended", app, 0)
           /\ StoresResponse(r, idem, answer(NewId(r)))
           /\ UNCHANGED <<bindings, redirects>>
        \/ /\ Proceeds(applicationReceipts, idem, refusal)
           /\ ~MaySuspend(app)
           /\ StoresResponse(r, idem, answer(SuspensionAudit(app)))
           /\ UNCHANGED <<applications, bindings, redirects, applicationEvents>>

\* The application a client is bound to in the environment of its product.
ResolveApplicationContext(r, c, context) ==
    /\ IF \/ c.client \notin DOMAIN bindings
          \/ bindings[c.client].product # context.product
          \/ bindings[c.client].environment # context.environment
       THEN Refuses(r, "context_rejected")
       ELSE LET app == bindings[c.client].application IN
            IF applications[app].status # "active" THEN Refuses(r, "application_suspended")
            ELSE Returns(r, [application |-> app, channel |-> applications[app].channel,
                             version |-> applications[app].version])
    /\ UNCHANGED applicationVars
=============================================================================
