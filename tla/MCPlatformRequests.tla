-------------------------- MODULE MCPlatformRequests --------------------------
(***************************************************************************)
(* The workloads in which the requests to the platform are checked.  Each  *)
(* is small and sets the requests of one hazard side by side, after the    *)
(* requests that prepare them.                                             *)
(***************************************************************************)
EXTENDS PlatformRequests

Do(kind, after, uses, with) ==
    [kind |-> kind, after |-> after, behind |-> {}, uses |-> uses,
     with |-> Joined([actor |-> "admin"], with)]

Behind(requests, command) == [command EXCEPT !.behind = requests]

Workload(commands, mayFail, until) ==
    [commands |-> commands, faults |-> mayFail, until |-> until, firstLocked |-> "access"]

CreateProduct(code, key, after) ==
    Do("create_product", after, << >>, [key |-> key, code |-> code, status |-> "active"])

CreateApp(p, code, key, status, channel) ==
    Do("create_application", {p}, [product |-> p],
       [key |-> key, code |-> code, status |-> status, channel |-> channel])

Register(p, a, key, after, proof, expires) ==
    Do("register_client", {p, a} \cup after, [product |-> p, application |-> a],
       [key |-> key, environment |-> "production", proofType |-> proof,
        publicKey |-> "public", expires |-> expires])

Rotate(p, g, key, generation, after) ==
    Do("rotate_credential", {p, g} \cup after, [product |-> p, client |-> g],
       [key |-> key, generation |-> generation, proofType |-> "hmac_sha256_v1",
        publicKey |-> "public", expires |-> 9])

Revoke(p, g, k, key) ==
    Do("revoke_credential", {p, g, k}, [product |-> p, client |-> g, credential |-> k],
       [key |-> key])

Session(g, k, nonce, signed, channelProof, after) ==
    Do("create_session", {g, k} \cup after,
       [client |-> g, credential |-> k, material |-> k, proofType |-> g],
       [nonce |-> nonce, signed |-> signed, channelProof |-> channelProof])

Suspend(p, a, key, after) ==
    Do("suspend_application", {p, a} \cup after, [product |-> p, application |-> a],
       [key |-> key, sessionPolicy |-> "keep_existing"])

Entry(type, scheme, loopback, spelling) ==
    [type |-> type, scheme |-> scheme, loopback |-> loopback, port |-> FALSE,
     spelling |-> spelling]

Redirects(p, a, entries, after) ==
    Do("replace_redirects", {p, a} \cup after, [product |-> p, application |-> a],
       [entries |-> entries])

Capabilities(p, key, plan, expected, after) ==
    Do("replace_capabilities", {p} \cup after, [product |-> p],
       [key |-> key, plan |-> plan, expected |-> expected])

CreateAgent(p, code, key, after) ==
    Do("create_tenant", {p} \cup after, [product |-> p],
       [key |-> key, code |-> code, status |-> "active"])

\* The tenant admins of tenants: someone who is no administrator yet, or root.
BindAdmin(p, t, key, role) ==
    Do("bind_tenant_admin", {p, t, "boot"}, [product |-> p, tenant |-> t],
       [key |-> key, admin |-> <<"agent", 1>>, role |-> role])

BindRoot(p, t, key, after) ==
    Do("bind_tenant_admin", {p, t, "boot"} \cup after,
       [product |-> p, tenant |-> t, admin |-> "boot"],
       [key |-> key, role |-> "super_admin"])

Boot == Do("bootstrap", {}, << >>, [identifier |-> "root", password |-> "right"])

Login(password, after) ==
    Do("login", {"boot"} \cup after, << >>,
       [identifier |-> "root", password |-> password, source |-> "here", transport |-> "cookie"])

ClientLogin(g, k, after) ==
    Do("login", {"boot", g, k} \cup after, [client |-> g, credential |-> k],
       [identifier |-> "root", password |-> "right", source |-> "here", transport |-> "bearer"])

Visit(l, after) ==
    Do("current", {l} \cup after, [access |-> l], [write |-> FALSE])

\* The guard before an operation that writes.
Authorize(l, csrf, permission, target, highRisk, after) ==
    Do("authorize", {l, csrf} \cup after, [access |-> l, csrf |-> csrf],
       [write |-> TRUE, permission |-> permission, target |-> target, highRisk |-> highRisk])

Refresh(l, after) ==
    Do("refresh", {l} \cup after, [refresh |-> l], [transport |-> "cookie"])

ClientRefresh(l, g, k, after) ==
    Do("refresh", {l, g, k} \cup after, [refresh |-> l, client |-> g, credential |-> k],
       [transport |-> "bearer"])

\* With the proofs of the requests named, if any.
Logout(access, refresh, csrf, after) ==
    LET proofs == [access |-> access, refresh |-> refresh, csrf |-> csrf]
        given == {f \in DOMAIN proofs : proofs[f] # "none"}
    IN  Do("logout", {proofs[f] : f \in given} \cup after, [f \in given |-> proofs[f]],
           [access |-> None, refresh |-> None, csrf |-> None, transport |-> "cookie"])

ClientLogout(l, after) ==
    Do("logout", {l} \cup after, [access |-> l], [refresh |-> None, transport |-> "bearer"])

AdminClient(expires) == Do("register_admin_client", {}, << >>, [expires |-> expires])
AdminCredential(g, after) ==
    Do("add_admin_credential", {g} \cup after, [client |-> g], [expires |-> Never])
EndClient(g, after) ==
    Do("disable_admin_client", {g} \cup after, [client |-> g], [credential |-> None])
EndCredential(g, k, after) ==
    Do("revoke_admin_credential", {g, k} \cup after, [client |-> g, credential |-> k], << >>)

Withdraw(after) == Do("withdraw_scopes", {"boot"} \cup after, [admin |-> "boot"], << >>)

Hmac == "hmac_sha256_v1"
Ed25519 == "ed25519_signature_v1"
Site == {Entry("web_redirect", "https", FALSE, "lower")}
SITE == {Entry("web_redirect", "https", FALSE, "upper")}

-----------------------------------------------------------------------------
\* Two requests with one key, and another that wants the same code.
Provisioning ==
    Workload([p1 |-> CreateProduct("crm", "k1", {}), p2 |-> CreateProduct("crm", "k1", {}),
              p3 |-> CreateProduct("crm", "k2", {})], 2, 1)

\* A registration that fails between its two calls and is repeated later, and
\* one with the application of another product.
Registration ==
    Workload([p1 |-> CreateProduct("crm", "k1", {}), p2 |-> CreateProduct("erp", "k2", {"p1"}),
              a1 |-> CreateApp("p1", "web", "k3", "active", "official"),
              a2 |-> CreateApp("p2", "web", "k4", "active", "official"),
              g1 |-> Register("p1", "a1", "k5", {"a2"}, Hmac, 9),
              g2 |-> Register("p1", "a2", "k6", {"s1"}, Hmac, 9),
              g3 |-> Register("p1", "a1", "k7", {"g1"}, Hmac, 1),
              s1 |-> Session("g1", "g1", "n1", "n1", FALSE, {})], 1, 2)

\* Two rotations of one credential, a revocation, and a session with it.
Rotation ==
    Workload([p1 |-> CreateProduct("crm", "k1", {}),
              a1 |-> CreateApp("p1", "web", "k2", "active", "official"),
              g1 |-> Register("p1", "a1", "k3", {}, Hmac, 9),
              t1 |-> Rotate("p1", "g1", "k4", 1, {}), t2 |-> Rotate("p1", "g1", "k5", 1, {}),
              t3 |-> Rotate("p1", "g1", "k6", 2, {"t1"}),
              v1 |-> Revoke("p1", "g1", "g1", "k7"),
              s1 |-> Session("g1", "g1", "n1", "n1", FALSE, {})], 0, 1)

\* Sessions that share a nonce while their application is suspended, twice.
Suspension ==
    Workload([p1 |-> CreateProduct("crm", "k1", {}),
              a1 |-> CreateApp("p1", "web", "k2", "active", "official"),
              g1 |-> Register("p1", "a1", "k3", {}, Ed25519, 9),
              s1 |-> Session("g1", "g1", "n1", "n1", FALSE, {}),
              s2 |-> Session("g1", "g1", "n1", "n1", FALSE, {}),
              x1 |-> Suspend("p1", "a1", "k4", {"g1"}), x2 |-> Suspend("p1", "a1", "k5", {"g1"})],
             0, 1)

\* What sessions are refused for: a signature for another request, a channel
\* without a proof, a proof of a channel; and an application made suspended.
Refusals ==
    Workload([p1 |-> CreateProduct("crm", "k1", {}),
              a1 |-> CreateApp("p1", "web", "k2", "active", "partner"),
              a2 |-> CreateApp("p1", "old", "k3", "suspended", "official"),
              g1 |-> Register("p1", "a1", "k4", {"a2"}, Ed25519, 2),
              g2 |-> Register("p1", "a2", "k5", {"g1"}, Hmac, 9),
              s1 |-> Session("g1", "g1", "n1", "n1", FALSE, {}),
              s2 |-> Session("g1", "g1", "n2", "n2", TRUE, {}),
              x1 |-> Suspend("p1", "a2", "k6", {"g1"})], 0, 2)

\* Two capability sets on one version, beside two redirect policies that are
\* spelled differently and a third one.
Versions ==
    Workload([p1 |-> CreateProduct("crm", "k1", {}),
              a1 |-> CreateApp("p1", "web", "k2", "active", "official"),
              c0 |-> Capabilities("p1", "k3", "draft", 0, {}),
              c1 |-> Capabilities("p1", "k4", "plan1", 0, {"a1"}),
              c2 |-> Capabilities("p1", "k5", "plan2", 0, {"a1"}),
              d1 |-> Redirects("p1", "a1", Site, {}), d2 |-> Redirects("p1", "a1", SITE, {}),
              d3 |-> Redirects("p1", "a1", {Entry("deep_link", "app", FALSE, "lower")}, {"d2"}),
              d4 |-> Redirects("p1", "a1", {Entry("web_redirect", "http", TRUE, "lower")}, {"d3"})],
             0, 1)

\* Agent tenants with one code, and administrators of the tenants of two products.
Tenants ==
    Workload([boot |-> Boot,
              p1 |-> CreateProduct("crm", "k1", {"boot"}),
              p2 |-> CreateProduct("erp", "k2", {"p1"}),
              n1 |-> CreateAgent("p1", "east", "k3", {"p2"}),
              n2 |-> CreateAgent("p1", "east", "k4", {"p2"}),
              n3 |-> CreateAgent("p1", "official", "k5", {"n1"}),
              b1 |-> BindAdmin("p1", "n1", "k6", "super_admin"),
              b2 |-> BindAdmin("p2", "n1", "k7", "super_admin"),
              b3 |-> BindAdmin("p1", "n1", "k8", "super_admin")], 0, 1)

-----------------------------------------------------------------------------
\* A token is refreshed twice side by side, or again after a failure.
Refreshes ==
    Workload([boot |-> Boot, l1 |-> Login("right", {}), r1 |-> Refresh("l1", {}),
              r2 |-> Refresh("l1", {}), c1 |-> Visit("r1", {})], 1, 1)

\* A browser logs out with both tokens, beside a refresh and a logout with one.
LogoutBeside(first) ==
    [Workload([boot |-> Boot, l1 |-> Login("right", {}), r1 |-> Refresh("l1", {}),
               o1 |-> Logout("l1", "l1", "l1", {}), o2 |-> Logout("none", "l1", "none", {})],
              0, 1) EXCEPT !.firstLocked = first]

\* Proofs that are not of one session, of the wrong kind, of none, or without the
\* token against forged requests.
Logouts ==
    Workload([boot |-> Boot, l1 |-> Login("right", {}), l2 |-> Behind({"l1"}, Login("right", {})),
              o1 |-> Behind({"l2"}, Logout("l1", "l2", "l1", {})),
              o2 |-> Behind({"l2"}, Logout("l1", "none", "l2", {})),
              o3 |-> Behind({"l2"}, Logout("none", "none", "none", {})),
              o4 |-> Behind({"o1", "o2"}, Logout("l1", "none", "l1", {})),
              c1 |-> Behind({"o1", "o2", "o3"}, Visit("l1", {}))], 0, 1)

\* A client is ended while its login and its refresh are under way.
Clients ==
    Workload([boot |-> Boot, g1 |-> AdminClient(Never), l1 |-> ClientLogin("g1", "g1", {}),
              x1 |-> EndClient("g1", {"boot"}), c1 |-> Visit("l1", {"x1"}),
              r1 |-> ClientRefresh("l1", "g1", "g1", {}),
              k1 |-> AdminCredential("g1", {"l1"})], 0, 1)

Credentials ==
    Workload([boot |-> Boot, g1 |-> AdminClient(Never), l1 |-> ClientLogin("g1", "g1", {}),
              x1 |-> EndCredential("g1", "g1", {"boot"}), c1 |-> Visit("l1", {"x1"}),
              r1 |-> ClientRefresh("l1", "g1", "g1", {}), o1 |-> ClientLogout("l1", {})], 0, 1)

Platform == [product |-> None, tenant |-> None]

\* A high-risk operation after a login and after a refresh, and one that the
\* administrator lacks the permission for.
Guard ==
    Workload([boot |-> Boot, l1 |-> Login("right", {}),
              h1 |-> Authorize("l1", "l1", "tenant.manage", Platform, TRUE, {}),
              r1 |-> Behind({"h1"}, Refresh("l1", {})),
              h2 |-> Authorize("r1", "r1", "tenant.manage", Platform, TRUE, {}),
              h3 |-> Behind({"h2"}, Authorize("r1", "r1", "assembly.experimental.use", Platform,
                                              FALSE, {})),
              h4 |-> Behind({"h3"}, Authorize("r1", "l1", "tenant.manage", Platform, FALSE, {}))],
             0, 4)

\* An administrator gets tenants while the snapshots of sessions are taken.
Scopes ==
    Workload([boot |-> Boot, p1 |-> CreateProduct("crm", "k1", {"boot"}),
              n1 |-> CreateAgent("p1", "east", "k2", {}), n2 |-> CreateAgent("p1", "west", "k3", {"n1"}),
              l1 |-> Login("right", {"n2"}),
              b1 |-> BindRoot("p1", "n1", "k4", {"l1"}), b2 |-> BindRoot("p1", "n2", "k5", {"l1"}),
              c1 |-> Visit("l1", {}),
              c2 |-> Authorize("l1", "l1", "tenant.manage", Platform, FALSE, {})], 0, 1)

\* All scopes of an administrator are withdrawn; a bootstrap gives the platform's back.
Withdrawn ==
    Workload([boot |-> Boot, l1 |-> Login("right", {}), w1 |-> Withdraw({}),
              r1 |-> Refresh("l1", {}), c1 |-> Visit("l1", {}),
              b1 |-> [Boot EXCEPT !.after = {"w1"}]], 0, 1)

\* A refresh does not move the end of the session, and its access token outlives it.
Expired ==
    Workload([boot |-> Boot, l1 |-> Login("right", {}), r1 |-> Refresh("l1", {}),
              o1 |-> Logout("r1", "none", "r1", {})], 0, 4)

\* The credential of a client expires between two refreshes with one token.
ExpiredClient ==
    Workload([boot |-> Boot, g1 |-> AdminClient(2), l1 |-> ClientLogin("g1", "g1", {}),
              r1 |-> ClientRefresh("l1", "g1", "g1", {}),
              r2 |-> Behind({"r1"}, ClientRefresh("l1", "g1", "g1", {}))], 0, 3)

\* Passwords are guessed, one after another.
GuessNames == <<"f1", "f2", "f3", "f4", "f5", "f6", "f7", "f8", "f9">>
Guessing(n) ==
    [f \in {GuessNames[i] : i \in 1..n} |->
        LET i == CHOOSE j \in 1..n : GuessNames[j] = f
        IN  Behind({GuessNames[j] : j \in 1..(i - 1)}, Login("wrong", {}))]

\* Beside them another guess.
GuessesBesideGuess ==
    Workload(Joined([boot |-> Boot, g1 |-> Login("wrong", {})], Guessing(6)), 0, 3)

\* Beside them logs in somebody who knows the password.
GuessesBesideLogin ==
    Workload(Joined([boot |-> Boot, l1 |-> Login("right", {})], Guessing(9)), 0, 2)

\* One of them fails, or its answer is lost, and it is repeated.
GuessesRepeated == Workload(Joined([boot |-> Boot], Guessing(6)), 1, 3)

\* A registration that fails after its first call and is repeated later.
RepeatedRegistration ==
    Workload([p1 |-> CreateProduct("crm", "k1", {}),
              a1 |-> CreateApp("p1", "web", "k2", "active", "official"),
              g1 |-> Register("p1", "a1", "k3", {}, Hmac, 9)], 1, 2)

RetryWorkloads == {RepeatedRegistration}
SoftwareWorkloads ==
    {Provisioning, Registration, Rotation, Suspension, Refusals, Versions, Tenants}
AdminWorkloads ==
    {Refreshes, LogoutBeside("access"), LogoutBeside("refresh"), Logouts, Clients,
     Credentials, Guard, Scopes, Withdrawn, Expired, ExpiredClient,
     GuessesBesideGuess, GuessesBesideLogin, GuessesRepeated}
MCWorkloads == SoftwareWorkloads \cup AdminWorkloads

Permissions == {"tenant.manage", "assembly.experimental.use"}
Granted == {"tenant.manage"}
=============================================================================
