---------------------------- MODULE AdminRequests ----------------------------
(***************************************************************************)
(* The requests of administrators themselves: logging in, the session and  *)
(* its renewal, logging out, and the guard before every administrative     *)
(* operation; and the tools of the operator that make the first            *)
(* administrator and the controlled clients (modules/identity,             *)
(* platform/adminrequest, cmd).  A transaction that locks rows is a step   *)
(* for each lock and one that does its work and ends it.                   *)
(***************************************************************************)
EXTENDS RequestFlow

CONSTANT
    ReauthenticationWindow  \* how old the login of a high-risk operation may be

ASSUME WindowAssumption == ReauthenticationWindow \in Nat

-----------------------------------------------------------------------------
(* The first administrator: an account, its scope, and a note in the log.  *)

BootstrapIdentityStep(r) ==
    /\ OnIdentity(r, "bootstrap_identity")
    /\ BootstrapIdentity(r, context[r])
    /\ Continues(r, "bootstrap_admin", Got(r))

BootstrapStep(r) ==
    /\ OnAccess(r, "bootstrap_admin")
    /\ BootstrapPlatformAdmin(r, context[r].admin)
    /\ Continues(r, "bootstrap_audit", << >>)

BootstrapAuditStep(r) ==
    /\ At(r, "bootstrap_audit")
    /\ auditLog' = auditLog \cup {[id |-> NewId(r), action |-> "bootstrap_completed"]}
    /\ Returns(r, << >>)
    /\ Continues(r, "answer", << >>)
    /\ UNCHANGED <<softwareVars, accessVars, identityVars>>

-----------------------------------------------------------------------------
(* A login: the counter of failures is read before the password is         *)
(* compared, and written when the login has failed.                        *)

ThrottleStep(r) ==
    /\ OnIdentity(r, "login_throttle")
    /\ IF LoginBlocked(context[r], context[r].at) THEN Refuses(r, "rate_limited")
       ELSE Returns(r, << >>)
    /\ Reads(r)
    /\ Continues(r, "verify_login", << >>)

\* The proof of a client is looked at even when the password is wrong.
VerifyStep(r) ==
    LET c == context[r]
        verified == /\ PasswordOK(c)
                    /\ c.transport = "bearer" => ResolveControlledClient(c, c.at)
    IN  /\ OnIdentity(r, "verify_login")
        /\ c.transport = "bearer" => Free(r, ProofRows(c))
        /\ Returns(r, << >>)
        /\ Reads(r)
        /\ Continues(r, IF verified THEN "login_version" ELSE "record_failure",
                     IF verified THEN [user |-> users[c.identifier].user] ELSE << >>)

\* The access control module is asked for a snapshot, which takes two readings.
ReadsVersion(r, step, next, otherwise) ==
    /\ OnAccess(r, step)
    /\ ReadAuthorizationVersion(r, context[r].user)
    /\ IF result'[r].kind = "ok" THEN Goes(r, next, Got(r)) ELSE Goes(r, otherwise, << >>)
    /\ UNCHANGED <<workload, attempt, now, faults>>

ReadsBindings(r, step, next, otherwise) ==
    /\ OnAccess(r, step)
    /\ ResolveSnapshot(r, context[r].user, context[r].read)
    /\ IF result'[r].kind = "ok" THEN Goes(r, next, Got(r)) ELSE Goes(r, otherwise, << >>)
    /\ UNCHANGED <<workload, attempt, now, faults>>

LoginVersionStep(r) == ReadsVersion(r, "login_version", "login_bindings", "record_failure")
LoginBindingsStep(r) ==
    ReadsBindings(r, "login_bindings", "create_admin_session", "record_failure")

RecordFailureStep(r) ==
    /\ OnIdentity(r, "record_failure")
    /\ RecordLoginFailure(r, context[r], context[r].at)
    /\ Continues(r, "answer", << >>)

CreateAdminSessionStep(r) ==
    /\ OnIdentity(r, "create_admin_session")
    /\ CreateAdminSession(r, context[r], context[r].at)
    /\ Continues(r, "clear_failures", Got(r))

ClearFailuresStep(r) ==
    /\ OnIdentity(r, "clear_failures")
    /\ ClearLoginFailures(r, context[r])
    /\ Continues(r, "answer", << >>)

-----------------------------------------------------------------------------
(* The current session, and the guard: the session is found, a snapshot    *)
(* taken of it, and for an operation a second snapshot decides.            *)

FindSessionStep(r) ==
    /\ OnIdentity(r, "find_session")
    /\ FindByAccessDigest(r, context[r], context[r].at)
    /\ Continues(r, "session_version", Got(r))

SessionVersionStep(r) == ReadsVersion(r, "session_version", "session_bindings", "session_ended")
SessionBindingsStep(r) ==
    ReadsBindings(r, "session_bindings",
                  IF Kind(r) = "authorize" THEN "authorize_version" ELSE "answer", "session_ended")

\* Without a scope the session is as good as revoked.
SessionEndedStep(r) ==
    /\ OnIdentity(r, "session_ended")
    /\ Refuses(r, "session_revoked")
    /\ Reads(r)
    /\ Continues(r, "answer", << >>)

\* For the second snapshot that is an error.
AuthorizeVersionStep(r) ==
    /\ OnAccess(r, "authorize_version")
    /\ ReadAuthorizationVersion(r, context[r].user)
    /\ Continues(r, "authorize_bindings", Got(r))

AuthorizeBindingsStep(r) ==
    /\ OnAccess(r, "authorize_bindings")
    /\ ResolveSnapshot(r, context[r].user, context[r].read)
    /\ Continues(r, "decide", Got(r))

\* A high-risk operation asks for a login that is recent.
ReauthenticationRequired(r) ==
    LET age == now - context[r].authTime IN age < 0 \/ age > ReauthenticationWindow

Decision(r) ==
    LET reason == DenialReason(context[r], context[r].permission, context[r].target)
    IN  IF reason # Accepted THEN reason
        ELSE IF context[r].highRisk /\ ReauthenticationRequired(r)
        THEN "reauthentication_required" ELSE Accepted

\* A denial is noted in the log, and denied all the same when it cannot be.
DecideStep(r) ==
    /\ At(r, "decide")
    /\ IF Decision(r) = Accepted THEN Returns(r, [decidedAt |-> now]) /\ UNCHANGED auditLog
       ELSE /\ Refuses(r, Decision(r))
            /\ \/ auditLog' = auditLog \cup {[id |-> NewId(r), action |-> "authorization_denied"]}
               \/ UNCHANGED auditLog
    /\ Continues(r, "answer", Got(r))
    /\ UNCHANGED <<softwareVars, accessVars, identityVars>>
-----------------------------------------------------------------------------
(* A transaction on tokens locks the row of each and of its session before *)
(* it does its work.  Of transactions that wait for each other in a circle *)
(* the database ends one.                                                  *)

LockTokenStep(r) ==
    /\ OnIdentity(r, "lock_token")
    /\ LocksRows(r, TokenRows(Head(context[r].queue)), << >>)
    /\ Continues(r, "lock_session", << >>)

LockSessionStep(r) ==
    LET rest == Tail(context[r].queue) IN
    /\ OnIdentity(r, "lock_session")
    /\ LocksRows(r, SessionRows(Head(context[r].queue)), << >>)
    /\ Continues(r, IF rest = << >> THEN "locked" ELSE "lock_token", [queue |-> rest])

\* The snapshot for a refresh was taken, or is not needed.
Served(r) == context[r].replayed \/ "scopes" \in DOMAIN context[r]

WantedRows(r) ==
    LET c == context[r] IN
    CASE stage[r] = "lock_token" -> TokenRows(Head(c.queue))
      [] stage[r] = "lock_session" -> SessionRows(Head(c.queue))
      [] stage[r] = "locked" /\ Kind(r) = "refresh" ->
            IF Served(r) THEN RotationRows(c, c.at)
            ELSE TokenRevocationRows(c.refresh, c.transport, "refresh")
      [] stage[r] = "locked" /\ Kind(r) = "logout" ->
            IF c.transport = "cookie" THEN LogoutRows(c, c.at)
            ELSE TokenRevocationRows(c.access, "bearer", "access")
      [] stage[r] = "disable_sessions" -> ClientRows(c)
      [] stage[r] = "end_client" -> ClientTokenRows(c)
      [] OTHER -> {}

WaitingFor(r) == Holders(r, WantedRows(r))

\* Those that r waits for, directly or through others.
AwaitedBy(r) ==
    LET upTo[n \in Nat] ==
            IF n = 0 THEN WaitingFor(r)
            ELSE LET nearer == upTo[n - 1] IN nearer \cup UNION {WaitingFor(q) : q \in nearer}
    IN  upTo[Cardinality(Asked)]

Deadlocked(r) == WaitingFor(r) # {} /\ r \in AwaitedBy(r)

DeadlockStep(r) ==
    /\ Under(r)
    /\ Deadlocked(r)
    /\ GivesUp(r, "internal_error")
    /\ Refused(r)
    /\ UNCHANGED <<workload, attempt, now, faults, softwareVars, accessVars, auditLog>>

-----------------------------------------------------------------------------
(* A refresh is inspected, and a snapshot taken, before the transaction    *)
(* that rotates its token.                                                 *)

ResolveClientStep(r) ==
    LET c == context[r] IN
    /\ OnIdentity(r, "resolve_client")
    /\ c.transport = "bearer" => Free(r, ProofRows(c))
    /\ IF c.transport = "bearer" /\ ~ResolveControlledClient(c, c.at)
       THEN Refuses(r, "session_revoked") ELSE Returns(r, << >>)
    /\ Reads(r)
    /\ Continues(r, "inspect_refresh", << >>)

InspectStep(r) ==
    /\ OnIdentity(r, "inspect_refresh")
    /\ InspectRefresh(r, context[r], context[r].at)
    /\ Continues(r, IF Got(r).replayed THEN "lock_token" ELSE "refresh_version",
                 Joined([queue |-> <<context[r].refresh>>], Got(r)))

RefreshVersionStep(r) == ReadsVersion(r, "refresh_version", "refresh_bindings", "lock_token")
RefreshBindingsStep(r) == ReadsBindings(r, "refresh_bindings", "lock_token", "lock_token")

RenewedCsrf(r) == Csrf(context[r].transport, context[r].session, context[r].sessionVersion + 1)

RotateRefreshStep(r) ==
    /\ OnIdentity(r, "locked")
    /\ Kind(r) = "refresh"
    /\ Served(r)
    /\ WaitingFor(r) = {}
    /\ RotateRefresh(r, context[r], context[r].at, RenewedCsrf(r))
    /\ Continues(r, "answer", Got(r))

RevokeScopelessStep(r) ==
    /\ OnIdentity(r, "locked")
    /\ Kind(r) = "refresh"
    /\ ~Served(r)
    /\ WaitingFor(r) = {}
    /\ RevokeByToken(r, context[r].refresh, context[r].transport, "refresh", context[r].at)
    /\ Continues(r, "session_ended", << >>)

-----------------------------------------------------------------------------
(* A logout locks what it was sent: the tokens of a browser in the order   *)
(* of their digests.                                                       *)

Proofs(c) ==
    CASE Requested(c) = {} -> << >>
      [] Requested(c) = {"access"} -> <<c.access>>
      [] Requested(c) = {"refresh"} -> <<c.refresh>>
      [] OTHER -> IF workload.firstLocked = "access" THEN <<c.access, c.refresh>>
                  ELSE <<c.refresh, c.access>>

ReadProofsStep(r) ==
    LET proofs == Proofs(context[r]) IN
    /\ OnIdentity(r, "read_proofs")
    /\ Returns(r, << >>)
    /\ Reads(r)
    /\ Continues(r, IF proofs = << >> THEN "answer" ELSE "lock_token", [queue |-> proofs])

LogoutStep(r) ==
    LET c == context[r] IN
    /\ OnIdentity(r, "locked")
    /\ Kind(r) = "logout"
    /\ WaitingFor(r) = {}
    /\ IF c.transport = "cookie" THEN RevokeCookieSession(r, c, c.at)
       ELSE RevokeByToken(r, c.access, "bearer", "access", c.at)
    /\ Continues(r, "answer", << >>)

-----------------------------------------------------------------------------
(* Controlled clients, and scopes that are withdrawn.                      *)

RegisterAdminClientStep(r) ==
    /\ OnIdentity(r, "register_admin_client")
    /\ RegisterControlledClient(r, context[r])
    /\ Continues(r, "answer", Got(r))

AddAdminCredentialStep(r) ==
    /\ OnIdentity(r, "add_admin_credential")
    /\ AddControlledClientCredential(r, context[r])
    /\ Continues(r, "answer", Got(r))

DisableSessionsStep(r) ==
    /\ OnIdentity(r, "disable_sessions")
    /\ UpdateSessions(r, context[r])
    /\ Continues(r, "end_client", Got(r))

EndClientStep(r) ==
    LET c == context[r] IN
    /\ OnIdentity(r, "end_client")
    /\ IF c.credential = None THEN DisableControlledClient(r, c, c.sessions)
       ELSE RevokeControlledClientCredential(r, c, c.sessions)
    /\ Continues(r, "answer", << >>)

WithdrawStep(r) ==
    /\ OnAccess(r, "withdraw_scopes")
    /\ WithdrawScopes(r, context[r].admin)
    /\ Continues(r, "answer", << >>)

AdminStep(r) ==
    \/ BootstrapIdentityStep(r) \/ BootstrapStep(r) \/ BootstrapAuditStep(r)
    \/ ThrottleStep(r) \/ VerifyStep(r) \/ LoginVersionStep(r) \/ LoginBindingsStep(r)
    \/ RecordFailureStep(r) \/ CreateAdminSessionStep(r) \/ ClearFailuresStep(r)
    \/ FindSessionStep(r) \/ SessionVersionStep(r) \/ SessionBindingsStep(r)
    \/ SessionEndedStep(r) \/ AuthorizeVersionStep(r) \/ AuthorizeBindingsStep(r)
    \/ DecideStep(r)
    \/ LockTokenStep(r) \/ LockSessionStep(r) \/ DeadlockStep(r)
    \/ ResolveClientStep(r) \/ InspectStep(r) \/ RefreshVersionStep(r)
    \/ RefreshBindingsStep(r) \/ RotateRefreshStep(r) \/ RevokeScopelessStep(r)
    \/ ReadProofsStep(r) \/ LogoutStep(r)
    \/ RegisterAdminClientStep(r) \/ AddAdminCredentialStep(r) \/ DisableSessionsStep(r)
    \/ EndClientStep(r) \/ WithdrawStep(r)

-----------------------------------------------------------------------------
(* Properties                                                              *)

\* However refreshes, logouts and the end of a client interleave, a session has one
\* refresh token that can still be used, access tokens of the same generation only,
\* and none of either once it is revoked (RotateRefresh, revokeFamily).
OneLiveRefresh ==
    \A s \in DOMAIN adminSessions :
        LET Live(type) == {t \in TokensOf({s}) : /\ adminTokens[t].type = type
                                                 /\ ~adminTokens[t].revoked
                                                 /\ ~adminTokens[t].consumed}
        IN  /\ Cardinality(Live("refresh")) <= 1
            /\ \A t \in Live("refresh"), u \in Live("access") :
                  adminTokens[t].generation = adminTokens[u].generation
            /\ adminSessions[s].revoked => Live("refresh") \cup Live("access") = {}

\* Using a refresh token again revokes the session, be it one after the other or
\* side by side: when a request has rotated a token, every other request with that
\* token that came to an end has ended the session, but for one that came too late
\* for the token, that the database gave up, or whose client was not admitted any more
\* (docs/features/identity/contract.md).
ReplayRevokes ==
    \A q \in Asked :
        /\ (Kind(q) \in {"refresh", "logout"} /\ outcome[q] = Error("refresh_replayed"))
           => SessionOf(context[q].refresh).revoked
        /\ \A r \in Asked \ {q} :
              (/\ Kind(q) = "refresh" /\ Command(r) = Command(q)
               /\ Answered(r) /\ Over(q)
               /\ outcome[q] \notin {Error("internal_error"), Error("session_expired")}
               /\ context[q].transport = "bearer" => outcome[q] # Error("session_revoked"))
              => SessionOf(context[q].refresh).revoked

\* The failures that were told of a counter to some of the requests: each is a password
\* that was compared, and not let in.
FailedGuesses(k, requests) ==
    {e \in identityEvents : /\ e.type \in {"login_failed", "account_locked"}
                            /\ e.subject = k
                            /\ e.id[1] \in requests}

\* The sessions that were ever opened on an account.
SessionsOn(identifier) ==
    {s \in DOMAIN adminSessions :
        identifier \in DOMAIN users /\ adminSessions[s].user = users[identifier].user}

\* Requests of which each waits for the end of those before it.
OneByOne(requests) ==
    \A r, q \in requests : \/ r = q
                           \/ r \in Command(q).after \cup Command(q).behind
                           \/ q \in Command(r).after \cup Command(r).behind

\* The windows that there was room for, and the guesses of one window: those up to the
\* first block, and one after each block that runs out before the window does.
Windows == 1 + (now - 1) \div (LoginWindow + 1)
GuessesPerWindow == MaximumAttempts + LoginWindow \div BlockDuration

\* Passwords can be guessed a bounded number of times: of the guesses that a source makes
\* at an account one after another, no more are compared than the windows there was room
\* for allow, and as many again for each login on the account, which clears the counter.
\* That holds beside other guesses of that source, which read the counter before and write
\* it after the comparison, late and out of order; each of them lets one more through at
\* most (LoginAdmin, RecordLoginFailure, ClearLoginFailures).
GuessesBounded ==
    \A k \in {e.subject : e \in identityEvents} :
        \A guesses \in SUBSET {e.id[1] : e \in FailedGuesses(k, Asked)} :
            OneByOne(guesses) =>
                Cardinality(FailedGuesses(k, guesses))
                    <= (1 + Cardinality(SessionsOn(k[1]))) * Windows * GuessesPerWindow
                       + Cardinality(FailedGuesses(k, Asked \ guesses))

\* A snapshot is never older than its version says: it has every scope that was
\* bound at that version or before and is still there, though version and scopes
\* are read one after the other beside bindings (ResolveSnapshot).
SnapshotCoversVersion ==
    \A r, q \in Asked :
        (/\ Kind(q) = "bind_tenant_admin" /\ Answered(q)
         /\ Kind(r) \in {"login", "current", "authorize", "refresh"}
         /\ "scopes" \in DOMAIN context[r] /\ context[r].user = outcome[q].value.admin
         /\ outcome[q].value.version <= context[r].version
         /\ scopeBindings[outcome[q].value.binding].active)
        => outcome[q].value.scope \in context[r].scopes

\* A high-risk operation is let through only shortly after its administrator gave
\* the password: renewing the session does not count (adminrequest.Guard).
HighRiskNeedsRecentLogin ==
    \A r \in Asked :
        (Kind(r) = "authorize" /\ Answered(r) /\ context[r].highRisk)
        => outcome[r].value.decidedAt - context[outcome[r].value.session[1]].at
              <= ReauthenticationWindow

\* Once a client or its credential was ended, nothing is served to a session of it,
\* also when its login was under way and made the session afterwards
\* (DisableControlledClient, tokenSessionQuery).
EndedClientCutOff ==
    \A x, q \in Asked :
        (/\ Kind(x) \in {"disable_admin_client", "revoke_admin_credential"}
         /\ x \in Command(q).after
         /\ Kind(q) \in {"current", "authorize", "refresh"} /\ Answered(q))
        => ~(/\ adminSessions[outcome[q].value.session].client = context[x].client
             /\ context[x].credential
                   \in {None, adminSessions[outcome[q].value.session].credential})

\* Every request that is under way comes to an end: transactions that wait for each
\* other in a circle do not wait for ever, nor is a lock left behind (RotateRefresh,
\* RevokeCookieSession, DisableControlledClient).
RequestsSettle == (\E r \in Asked : Under(r)) ~> (\A r \in Asked : ~Under(r))

\* After a logout that a browser was told has succeeded, the tokens it showed are of
\* no more use, whatever of them it had and whoever refreshed or logged out beside it;
\* only an access token that outlives the end of its session is served on, since the
\* query for it does not look at that end (RevokeCookieSession, FindByAccessDigest).
LogoutEndsSession ==
    \A r \in Asked :
        LET c == context[r] IN
        (Kind(r) = "logout" /\ Answered(r) /\ c.transport = "cookie")
        => \A kind \in Requested(c) : Known(c[kind]) =>
              IF kind = "access"
              THEN \/ AccessRefusal(c.access, now) # Accepted
                   \/ SessionOf(c.access).absoluteExpires <= now
              ELSE \/ adminTokens[c.refresh].consumed
                   \/ RefreshRefusal(c.refresh, now) # Accepted
=============================================================================
