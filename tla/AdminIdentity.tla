---------------------------- MODULE AdminIdentity ----------------------------
(***************************************************************************)
(* The identity module: administrators and the failures of their logins,   *)
(* their sessions with rotating tokens, and the controlled clients that    *)
(* may hold a session without a browser (modules/identity).  A token is    *)
(* its own digest, and a session is its own token family: both are drawn   *)
(* anew for each login, and the digest of a token is taken to be unique.   *)
(*                                                                         *)
(* Tokens and sessions are locked row by row; what a transaction writes is *)
(* seen when it ends.  Nothing changes an account once it is there.  Names *)
(* and the columns that nothing reads (when a session was last seen) are   *)
(* left out.                                                               *)
(***************************************************************************)
EXTENDS ServiceCalls

CONSTANTS
    AccessTTL, RefreshTTL,      \* how long access and refresh tokens live
    LoginWindow,                \* failures this far apart are counted together
    MaximumAttempts,            \* the failure that blocks
    BlockDuration,              \* how long it does
    AllowBearer                 \* whether clients may hold a session

VARIABLES
    users,              \* users[identifier]: the account and its password
    loginFailures,      \* loginFailures[<<identifier, source>>]: the counter
    adminSessions,      \* session rows by identifier
    adminTokens,        \* token rows by token
    adminClients,       \* controlled client rows by identifier
    adminCredentials,   \* their credential rows by identifier
    identityEvents,     \* the outbox: [id, type, subject, at]
    held                \* held[r]: the rows that the open transaction of r has locked

identityRows == <<users, loginFailures, adminSessions, adminTokens, adminClients,
                  adminCredentials, identityEvents>>
identityVars == <<identityRows, held>>

ASSUME PolicyAssumption ==
    /\ AccessTTL \in Nat \ {0} /\ RefreshTTL \in Nat \ {0}
    /\ LoginWindow \in Nat \ {0} /\ MaximumAttempts \in Nat \ {0, 1, 2} /\ BlockDuration \in Nat \ {0}
    /\ AllowBearer \in BOOLEAN

Never == 0      \* no expiry, or no block

IdentityInit ==
    /\ users = << >> /\ loginFailures = << >> /\ adminSessions = << >> /\ adminTokens = << >>
    /\ adminClients = << >> /\ adminCredentials = << >> /\ identityEvents = {}
    /\ held = [r \in DOMAIN result |-> {}]

SecurityEvent(r, type, subject, at) ==
    identityEvents' = identityEvents
        \cup {[id |-> NewId(r), type |-> type, subject |-> subject, at |-> at]}

\* Readings change nothing.
Reads(r) == UNCHANGED identityVars

-----------------------------------------------------------------------------
(* Locks.  A row is locked by one transaction at a time, until it ends;    *)
(* of transactions that wait for each other the database ends one.         *)

TokenRow(t) == <<"token", t>>
SessionRow(s) == <<"session", s>>
ClientRow(c) == <<"client", c>>
CredentialRow(k) == <<"credential", k>>

Holders(r, rows) == {q \in DOMAIN held \ {r} : held[q] \cap rows # {}}
Free(r, rows) == Holders(r, rows) = {}

\* A transaction that returns early is rolled back by its deferred call.
Released(r) == [held EXCEPT ![r] = {}]

\* A mistake: a transaction that returns early stays open.
Kept(r) == held

\* What an early return does to the locks of its transaction.
RolledBack(r) == Released(r)

Ends(r) == held' = Released(r)

\* The transaction is given up: what it would have answered is refused.
GivesUp(r, reason) ==
    /\ held' = RolledBack(r)
    /\ Refuses(r, reason)
    /\ UNCHANGED identityRows

-----------------------------------------------------------------------------
(* Accounts and the failures of logins.                                    *)

\* The first call makes the account, a later one finds it.
BootstrapIdentity(r, c) ==
    /\ IF c.identifier \in DOMAIN users
       THEN /\ Returns(r, [admin |-> users[c.identifier].user])
            /\ UNCHANGED users
       ELSE /\ Returns(r, [admin |-> NewId(r)])
            /\ users' = Added(users, c.identifier, [user |-> NewId(r), password |-> c.password])
    /\ UNCHANGED <<loginFailures, adminSessions, adminTokens, adminClients, adminCredentials,
                   identityEvents, held>>

PasswordOK(c) == c.identifier \in DOMAIN users /\ users[c.identifier].password = c.password

Counter(c) == <<c.identifier, c.source>>

\* A mistake: the counter is not looked at before the password is compared.
NeverBlocked(c, at) == FALSE

LoginBlocked(c, at) ==
    Counter(c) \in DOMAIN loginFailures /\ loginFailures[Counter(c)].until > at

WindowOver(row, at) == row.since + LoginWindow < at

\* The counter after one more failure; a block is kept when the window restarts.
CountedFailure(c, at) ==
    LET known == Counter(c) \in DOMAIN loginFailures
        row == loginFailures[Counter(c)]
        restarts == ~known \/ WindowOver(row, at)
        count == IF restarts THEN 1 ELSE row.count + 1
    IN  [count |-> count,
         since |-> IF restarts THEN at ELSE row.since,
         until |-> IF known /\ count >= MaximumAttempts THEN at + BlockDuration
                   ELSE IF known THEN row.until ELSE Never]

\* The failure is counted and told in one transaction; it is told as a lock as
\* soon as the counter was ever blocked.
RecordLoginFailure(r, c, at) ==
    LET row == CountedFailure(c, at) IN
    /\ loginFailures' = Put(loginFailures, Counter(c), row)
    /\ SecurityEvent(r, IF row.until # Never THEN "account_locked" ELSE "login_failed",
                     Counter(c), at)
    /\ Refuses(r, IF row.until > at THEN "rate_limited" ELSE "invalid_credentials")
    /\ UNCHANGED <<users, adminSessions, adminTokens, adminClients, adminCredentials, held>>

\* The counters of all sources; an error is ignored.
ClearLoginFailures(r, c) ==
    /\ \/ loginFailures' = [k \in {f \in DOMAIN loginFailures : f[1] # c.identifier}
                              |-> loginFailures[k]]
       \/ UNCHANGED loginFailures
    /\ Returns(r, << >>)
    /\ UNCHANGED <<users, adminSessions, adminTokens, adminClients, adminCredentials,
                   identityEvents, held>>

-----------------------------------------------------------------------------
(* Controlled clients.  The tool of the operator makes and ends them.      *)

Current(row, t) == row.expires = Never \/ t < row.expires

RegisterControlledClient(r, c) ==
    /\ adminClients' = Added(adminClients, NewId(r), [disabled |-> FALSE, expires |-> c.expires])
    /\ adminCredentials' = Added(adminCredentials, NewId(r),
          [client |-> NewId(r), revoked |-> FALSE, expires |-> c.expires])
    /\ SecurityEvent(r, "client_registered", NewId(r), now)
    /\ Returns(r, [client |-> NewId(r), credential |-> NewId(r)])
    /\ UNCHANGED <<users, loginFailures, adminSessions, adminTokens, held>>

ClientInUse(client, t) ==
    /\ client \in DOMAIN adminClients
    /\ ~adminClients[client].disabled
    /\ Current(adminClients[client], t)

\* The credentials there are stay.
AddControlledClientCredential(r, c) ==
    /\ Free(r, {ClientRow(c.client)})
    /\ IF ~ClientInUse(c.client, now)
       THEN Refuses(r, "not_found") /\ UNCHANGED identityRows
       ELSE /\ adminCredentials' = Added(adminCredentials, NewId(r),
                  [client |-> c.client, revoked |-> FALSE, expires |-> c.expires])
            /\ SecurityEvent(r, "credential_rotated", c.client, now)
            /\ Returns(r, [credential |-> NewId(r)])
            /\ UNCHANGED <<users, loginFailures, adminSessions, adminTokens, adminClients>>
    /\ UNCHANGED held

CredentialInUse(client, credential, t) ==
    /\ ClientInUse(client, t)
    /\ credential \in DOMAIN adminCredentials
    /\ adminCredentials[credential].client = client
    /\ ~adminCredentials[credential].revoked
    /\ Current(adminCredentials[credential], t)

\* The proof is the secret of the credential, which only its holder knows; the rows
\* of the client and the credential are locked for it.
ResolveControlledClient(c, at) ==
    AllowBearer /\ CredentialInUse(c.client, c.credential, at)

ProofRows(c) == {ClientRow(c.client), CredentialRow(c.credential)}

\* The sessions of a client, or of one of its credentials.
SessionsOfClient(client, credential) ==
    {s \in DOMAIN adminSessions :
        /\ adminSessions[s].client = client
        /\ credential = None \/ adminSessions[s].credential = credential}

TokensOf(sessions) == {t \in DOMAIN adminTokens : adminTokens[t].session \in sessions}

RevokedSessions(sessions) ==
    [s \in DOMAIN adminSessions |->
        IF s \in sessions THEN [adminSessions[s] EXCEPT !.revoked = TRUE] ELSE adminSessions[s]]

RevokedTokens(tokens) ==
    [t \in DOMAIN adminTokens |->
        IF t \in tokens THEN [adminTokens[t] EXCEPT !.revoked = TRUE] ELSE adminTokens[t]]

\* The row of the client or of the credential is updated, then the rows of the
\* sessions, then those of their tokens: each statement finds the rows that are
\* there when it begins.
LocksRows(r, rows, kept) ==
    /\ Free(r, rows)
    /\ held' = [held EXCEPT ![r] = @ \cup rows]
    /\ Returns(r, kept)
    /\ UNCHANGED identityRows

EndedRow(c) == IF c.credential = None THEN ClientRow(c.client) ELSE CredentialRow(c.credential)

ClientRows(c) ==
    {EndedRow(c)} \cup {SessionRow(s) : s \in SessionsOfClient(c.client, c.credential)}

EndedExists(c) ==
    /\ c.client \in DOMAIN adminClients
    /\ c.credential # None => c.credential \in DOMAIN adminCredentials

UpdateSessions(r, c) ==
    IF ~EndedExists(c) THEN Refuses(r, "not_found") /\ UNCHANGED identityVars
    ELSE LocksRows(r, ClientRows(c), [sessions |-> SessionsOfClient(c.client, c.credential)])

TokensOfClient(c) == TokensOf(SessionsOfClient(c.client, c.credential))
ClientTokenRows(c) == {TokenRow(t) : t \in TokensOfClient(c)}

DisableControlledClient(r, c, sessions) ==
    /\ Free(r, ClientTokenRows(c))
    /\ adminClients' = [adminClients EXCEPT ![c.client].disabled = TRUE]
    /\ adminSessions' = RevokedSessions(sessions)
    /\ adminTokens' = RevokedTokens(TokensOfClient(c))
    /\ SecurityEvent(r, "client_disabled", c.client, now)
    /\ Ends(r)
    /\ Returns(r, << >>)
    /\ UNCHANGED <<users, loginFailures, adminCredentials>>

RevokeControlledClientCredential(r, c, sessions) ==
    /\ Free(r, ClientTokenRows(c))
    /\ adminCredentials' = [adminCredentials EXCEPT ![c.credential].revoked = TRUE]
    /\ adminSessions' = RevokedSessions(sessions)
    /\ adminTokens' = RevokedTokens(TokensOfClient(c))
    /\ SecurityEvent(r, "credential_revoked", c.client, now)
    /\ Ends(r)
    /\ Returns(r, << >>)
    /\ UNCHANGED <<users, loginFailures, adminClients>>

-----------------------------------------------------------------------------
(* Sessions.  Each rotation consumes the refresh token, revokes the access *)
(* token and issues a pair of the next generation.                         *)

AccessToken(r) == <<NewId(r), "access">>
RefreshToken(r) == <<NewId(r), "refresh">>

NewToken(s, type, generation, expires) ==
    [session |-> s, type |-> type, generation |-> generation, expires |-> expires,
     consumed |-> FALSE, revoked |-> FALSE]

TokenPair(r, s, generation, accessExpires, refreshExpires) ==
    [t \in {AccessToken(r), RefreshToken(r)} |->
        IF t = AccessToken(r) THEN NewToken(s, "access", generation, accessExpires)
        ELSE NewToken(s, "refresh", generation, refreshExpires)]

\* The token against forged requests is derived from the session and its version.
CsrfTokenFor(s, version) == <<s, version>>

Csrf(transport, s, version) == IF transport = "cookie" THEN CsrfTokenFor(s, version) ELSE None

Issued(r, s, csrf) ==
    [session |-> s, access |-> AccessToken(r), refresh |-> RefreshToken(r), csrf |-> csrf]

CreateAdminSession(r, c, at) ==
    LET s == NewId(r) IN
    /\ adminSessions' = Added(adminSessions, s,
          [user |-> users[c.identifier].user, transport |-> c.transport, version |-> 1,
           authTime |-> at, accessExpires |-> at + AccessTTL,
           refreshExpires |-> at + RefreshTTL, absoluteExpires |-> at + RefreshTTL,
           csrf |-> Csrf(c.transport, s, 1), revoked |-> FALSE,
           client |-> IF c.transport = "bearer" THEN c.client ELSE None,
           credential |-> IF c.transport = "bearer" THEN c.credential ELSE None])
    /\ adminTokens' = Joined(adminTokens, TokenPair(r, s, 1, at + AccessTTL, at + RefreshTTL))
    /\ SecurityEvent(r, "login_succeeded", s, at)
    /\ Returns(r, Issued(r, s, Csrf(c.transport, s, 1)))
    /\ UNCHANGED <<users, loginFailures, adminClients, adminCredentials, held>>

Known(t) == t \in DOMAIN adminTokens
SessionOf(t) == adminSessions[adminTokens[t].session]

\* A mistake: a client that was ended is not looked at.
AnyClient(session, at) == TRUE

\* The client of a session, as the query for its token reads it.
ControlledClientActive(session, at) ==
    session.transport = "cookie" \/ CredentialInUse(session.client, session.credential, at)

\* The session that an access token opens; when the session as a whole ends is
\* not looked at.
AccessRefusal(t, at) ==
    IF ~Known(t) \/ adminTokens[t].type # "access" THEN "session_expired"
    ELSE IF \/ SessionOf(t).revoked \/ adminTokens[t].revoked
            \/ ~ControlledClientActive(SessionOf(t), at) THEN "session_revoked"
    ELSE IF SessionOf(t).accessExpires <= at \/ adminTokens[t].expires <= at
         THEN "session_expired" ELSE Accepted

\* A request that writes also has to know the session's token.
FindByAccessDigest(r, c, at) ==
    /\ IF AccessRefusal(c.access, at) # Accepted THEN Refuses(r, AccessRefusal(c.access, at))
       ELSE LET session == SessionOf(c.access) IN
            IF session.transport = "bearer" /\ ~AllowBearer THEN Refuses(r, "session_revoked")
            ELSE IF c.write /\ session.transport = "cookie" /\ session.csrf # c.csrf
            THEN Refuses(r, "csrf_failed")
            ELSE Returns(r, [session |-> adminTokens[c.access].session, user |-> session.user,
                             authTime |-> session.authTime,
                             csrf |-> Csrf(session.transport, adminTokens[c.access].session,
                                           session.version)])
    /\ Reads(r)

\* The token may renew its session, as far as its owner is concerned.
RefreshBindingRefusal(c, at) ==
    LET t == c.refresh IN
    IF ~Known(t) THEN "session_expired"
    ELSE IF \/ adminTokens[t].type # "refresh" \/ SessionOf(t).transport # c.transport
            \/ /\ c.transport = "bearer"
               /\ \/ ~ControlledClientActive(SessionOf(t), at)
                  \/ SessionOf(t).client # c.client
                  \/ SessionOf(t).credential # c.credential
    THEN "session_revoked" ELSE Accepted

RefreshRefusal(t, at) ==
    IF SessionOf(t).revoked \/ adminTokens[t].revoked THEN "session_revoked"
    ELSE IF \/ adminTokens[t].expires <= at \/ SessionOf(t).refreshExpires <= at
            \/ SessionOf(t).absoluteExpires <= at THEN "session_expired" ELSE Accepted

\* Before the transaction that rotates, and without a lock.
InspectRefresh(r, c, at) ==
    LET t == c.refresh IN
    /\ IF RefreshBindingRefusal(c, at) # Accepted THEN Refuses(r, RefreshBindingRefusal(c, at))
       ELSE IF adminTokens[t].consumed THEN Returns(r, [replayed |-> TRUE])
       ELSE IF RefreshRefusal(t, at) # Accepted THEN Refuses(r, RefreshRefusal(t, at))
       ELSE Returns(r, [replayed |-> FALSE, session |-> adminTokens[t].session,
                        user |-> SessionOf(t).user, sessionVersion |-> SessionOf(t).version])
    /\ Reads(r)

\* The query for a token locks its row and then that of its session, if there are any.
TokenRows(t) == IF Known(t) THEN {TokenRow(t)} ELSE {}
SessionRows(t) == IF Known(t) THEN {SessionRow(adminTokens[t].session)} ELSE {}

FamilyRows(s) == {SessionRow(s)} \cup {TokenRow(t) : t \in TokensOf({s})}

\* The session and all of its tokens are revoked, and the transaction ends.
RevokeFamily(r, s, type, at) ==
    /\ adminSessions' = RevokedSessions({s})
    /\ adminTokens' = RevokedTokens(TokensOf({s}))
    /\ SecurityEvent(r, type, s, at)
    /\ Ends(r)
    /\ UNCHANGED <<users, loginFailures, adminClients, adminCredentials>>

\* The live access tokens of the session: those that a rotation revokes.
LiveAccessTokens(s) ==
    {t \in TokensOf({s}) : adminTokens[t].type = "access" /\ ~adminTokens[t].revoked}

Least(a, b) == IF a <= b THEN a ELSE b

\* A mistake: the renewed session counts as a new login.
AuthenticatedAgain(session, at) == at

AuthTime(session, at) == session.authTime

\* A mistake: the token may be used again.
StillUsable(t) == FALSE

Consumed(t) == t \in DOMAIN adminTokens

\* The refresh token is consumed and the access tokens of its session are revoked.
SpentTokens(t) ==
    [u \in DOMAIN adminTokens |->
        IF u = t THEN [adminTokens[u] EXCEPT !.consumed = Consumed(t)]
        ELSE IF u \in LiveAccessTokens(adminTokens[t].session)
        THEN [adminTokens[u] EXCEPT !.revoked = TRUE] ELSE adminTokens[u]]

\* The version and the token against forged requests are those that the service
\* derived from its inspection.
RotatesTokens(r, c, at, csrf) ==
    LET t == c.refresh
        s == adminTokens[t].session
        session == adminSessions[s]
        expires == Least(session.absoluteExpires, at + RefreshTTL)
    IN  /\ adminTokens' = Joined(SpentTokens(t),
              TokenPair(r, s, adminTokens[t].generation + 1, at + AccessTTL, expires))
        /\ adminSessions' = [adminSessions EXCEPT ![s] =
              [@ EXCEPT !.version = @ + 1, !.accessExpires = at + AccessTTL,
                        !.refreshExpires = expires, !.csrf = csrf,
                        !.authTime = AuthTime(session, at)]]
        /\ SecurityEvent(r, "session_refreshed", s, at)
        /\ Ends(r)
        /\ Returns(r, Issued(r, s, csrf))
        /\ UNCHANGED <<users, loginFailures, adminClients, adminCredentials>>

\* A mistake: the revocation of a replayed family is rolled back with the refusal.
RevocationUndone(r, s, at) ==
    /\ Ends(r)
    /\ UNCHANGED identityRows

\* A replay revokes the family, unless it is revoked already.
RevokesReplayed(r, s, at) ==
    IF adminSessions[s].revoked THEN Ends(r) /\ UNCHANGED identityRows
    ELSE RevokeFamily(r, s, "refresh_replayed", at)

\* The rows that the rotation has still to lock.
RotationRows(c, at) ==
    LET t == c.refresh IN
    IF RefreshBindingRefusal(c, at) # Accepted THEN {}
    ELSE IF adminTokens[t].consumed
    THEN IF SessionOf(t).revoked THEN {} ELSE FamilyRows(adminTokens[t].session)
    ELSE IF RefreshRefusal(t, at) # Accepted THEN {}
    ELSE {TokenRow(u) : u \in LiveAccessTokens(adminTokens[t].session)}

RotateRefresh(r, c, at, csrf) ==
    LET t == c.refresh IN
    \/ /\ RefreshBindingRefusal(c, at) # Accepted
       /\ GivesUp(r, RefreshBindingRefusal(c, at))
    \/ /\ RefreshBindingRefusal(c, at) = Accepted
       /\ adminTokens[t].consumed
       /\ RevokesReplayed(r, adminTokens[t].session, at)
       /\ Refuses(r, "refresh_replayed")
    \/ /\ RefreshBindingRefusal(c, at) = Accepted
       /\ ~adminTokens[t].consumed
       /\ IF RefreshRefusal(t, at) # Accepted THEN GivesUp(r, RefreshRefusal(t, at))
          ELSE RotatesTokens(r, c, at, csrf)

-----------------------------------------------------------------------------
(* Logouts revoke the whole family.                                        *)

TokenRevocationRows(t, transport, type) ==
    IF /\ Known(t) /\ SessionOf(t).transport = transport /\ adminTokens[t].type = type
       /\ ~SessionOf(t).revoked
    THEN FamilyRows(adminTokens[t].session) ELSE {}

\* The session of a token of this kind ends, if it has not ended.
RevokeByToken(r, t, transport, type, at) ==
    \/ /\ ~Known(t)
       /\ Ends(r)
       /\ Returns(r, << >>)
       /\ UNCHANGED identityRows
    \/ /\ Known(t)
       /\ IF SessionOf(t).transport # transport \/ adminTokens[t].type # type
          THEN GivesUp(r, "session_revoked")
          ELSE /\ Returns(r, << >>)
               /\ IF SessionOf(t).revoked THEN Ends(r) /\ UNCHANGED identityRows
                  ELSE RevokeFamily(r, adminTokens[t].session, "session_revoked", at)

\* The proofs that the browser has sent, and those of them that are of no cookie
\* session or of the other kind.
Requested(c) == {kind \in {"access", "refresh"} : c[kind] # None}

Mistaken(c) ==
    {kind \in Requested(c) : /\ Known(c[kind])
                             /\ \/ SessionOf(c[kind]).transport # "cookie"
                                \/ adminTokens[c[kind]].type # kind}

\* Two proofs have to be of one session.
Unrelated(c) ==
    /\ Requested(c) = {"access", "refresh"}
    /\ \/ ~Known(c.access) \/ ~Known(c.refresh)
       \/ adminTokens[c.access].session # adminTokens[c.refresh].session

ActiveToken(t, at) ==
    /\ ~SessionOf(t).revoked /\ ~adminTokens[t].revoked
    /\ adminTokens[t].expires > at
    /\ SessionOf(t).absoluteExpires > at

ActiveAccess(c, at) ==
    /\ "access" \in Requested(c) /\ Known(c.access)
    /\ ActiveToken(c.access, at) /\ SessionOf(c.access).accessExpires > at

\* A mistake: only the access token counts.
AccessOnly(c, at) == FALSE

ActiveRefresh(c, at) ==
    /\ "refresh" \in Requested(c) /\ Known(c.refresh)
    /\ ActiveToken(c.refresh, at) /\ SessionOf(c.refresh).refreshExpires > at
    /\ ~adminTokens[c.refresh].consumed

ReplaysRefresh(c) ==
    /\ "refresh" \in Requested(c) /\ Known(c.refresh)
    /\ adminTokens[c.refresh].consumed /\ ~SessionOf(c.refresh).revoked

\* What a logout with these proofs comes to.
LogoutRefusal(c, at) ==
    IF Mistaken(c) # {} \/ Unrelated(c) THEN "session_revoked"
    ELSE IF ReplaysRefresh(c) THEN "refresh_replayed"
    ELSE IF ActiveAccess(c, at) /\ SessionOf(c.access).csrf # c.csrf THEN "csrf_failed"
    ELSE Accepted

LogoutRows(c, at) ==
    LET refusal == LogoutRefusal(c, at)
        FamilyOf(t) == FamilyRows(adminTokens[t].session)
    IN  IF refusal = "refresh_replayed" THEN FamilyOf(c.refresh)
        ELSE IF refusal # Accepted THEN {}
        ELSE IF ActiveAccess(c, at) THEN FamilyOf(c.access)
        ELSE IF ActiveRefresh(c, at) THEN FamilyOf(c.refresh) ELSE {}

\* With no proof that is still good there is nothing left to end.
RevokeCookieSession(r, c, at) ==
    \/ /\ LogoutRefusal(c, at) = "refresh_replayed"
       /\ RevokeFamily(r, adminTokens[c.refresh].session, "refresh_replayed", at)
       /\ Refuses(r, "refresh_replayed")
    \/ /\ LogoutRefusal(c, at) \in {"session_revoked", "csrf_failed"}
       /\ GivesUp(r, LogoutRefusal(c, at))
    \/ /\ LogoutRefusal(c, at) = Accepted
       /\ ActiveAccess(c, at) \/ ActiveRefresh(c, at)
       /\ LET t == IF ActiveAccess(c, at) THEN c.access ELSE c.refresh
          IN  RevokeFamily(r, adminTokens[t].session, "session_revoked", at)
       /\ Returns(r, << >>)
    \/ /\ LogoutRefusal(c, at) = Accepted
       /\ ~ActiveAccess(c, at) /\ ~ActiveRefresh(c, at)
       /\ Ends(r)
       /\ Returns(r, << >>)
       /\ UNCHANGED identityRows
=============================================================================
