--------------------------- MODULE MCRequestAuth ---------------------------
(***************************************************************************)
(* Instance of RequestAuth for TLC: a good token of every kind and, for    *)
(* every claim the code looks at, one token that is wrong there and        *)
(* nowhere else; requests with at most one wrong credential; one route per *)
(* setting that changes what a route admits.                               *)
(***************************************************************************)
EXTENDS RequestAuth

SalesForUser ==
  [alg |-> "RS256", kid |-> "k1", signer |-> "k1", typ |-> "s2s+jwt",
   iss |-> "iam-service/s2s", use |-> "service", iat |-> 1, nbf |-> 1,
   exp |-> 3, audience |-> "stock", sub |-> "sales", jti |-> "j1",
   scopes |-> {"read"}, tenantScope |-> "user", namespace |-> "mc",
   tenant |-> "", roles |-> {}, perms |-> {}]

SalesForSystem == [SalesForUser EXCEPT !.tenantScope = "system"]

Supervisor ==
  [alg |-> "RS256", kid |-> "k1", signer |-> "k1", typ |-> "JWT",
   iss |-> "iam-service", use |-> "", iat |-> 1, nbf |-> None, exp |-> 3,
   audience |-> "", sub |-> "ana", jti |-> "", scopes |-> {},
   tenantScope |-> "", namespace |-> "mc", tenant |-> "t1",
   roles |-> {"supervisor"}, perms |-> {"approve"}]

Blank == [Supervisor EXCEPT !.alg = "", !.kid = "", !.signer = ""]

\* Wrong for every receiver: not signed by a loaded key.
Forged(t) == {[t EXCEPT !.signer = "k9"], [t EXCEPT !.kid = "k0", !.signer = "k0"],
              [t EXCEPT !.kid = ""], [t EXCEPT !.alg = "HS256"]}

ServiceTokens ==
  {SalesForUser, SalesForSystem} \cup Forged(SalesForSystem) \cup
  {[SalesForSystem EXCEPT !.typ = "JWT"], [SalesForSystem EXCEPT !.iss = "iam-service"],
   [SalesForSystem EXCEPT !.use = ""], [SalesForSystem EXCEPT !.iat = None],
   [SalesForSystem EXCEPT !.exp = None], [SalesForSystem EXCEPT !.exp = 4],
   [SalesForSystem EXCEPT !.iat = 4, !.exp = 6], [SalesForSystem EXCEPT !.nbf = 3],
   [SalesForSystem EXCEPT !.audience = "caja"], [SalesForSystem EXCEPT !.sub = ""],
   [SalesForSystem EXCEPT !.jti = ""], [SalesForSystem EXCEPT !.tenantScope = "tenant"],
   [SalesForSystem EXCEPT !.namespace = "xx"], [SalesForSystem EXCEPT !.scopes = {}],
   [SalesForSystem EXCEPT !.audience = "caja", !.namespace = "xx"],
   [SalesForUser EXCEPT !.scopes = {"read", "purge"}],
   [SalesForSystem EXCEPT !.sub = "old-sales"]}

UserTokens ==
  {Supervisor} \cup Forged(Supervisor) \cup
  {[Supervisor EXCEPT !.use = "service"], [Supervisor EXCEPT !.iss = "other"],
   [Supervisor EXCEPT !.exp = None], [Supervisor EXCEPT !.nbf = 2],
   [Supervisor EXCEPT !.namespace = "xx"], [Supervisor EXCEPT !.tenant = ""],
   [Supervisor EXCEPT !.tenant = "t2"], [Supervisor EXCEPT !.roles = {}],
   [Supervisor EXCEPT !.perms = {"*"}]}

AllTokens == ServiceTokens \cup UserTokens \cup {Blank}

AllTenants == {"t1", "t2"}
UUIDs == [h \in {"", "t1", "T1", "t2", "shop"} |->
            CASE h \in {"t1", "T1"} -> "t1" [] h = "t2" -> "t2" [] OTHER -> ""]

Bearer(t) == [scheme |-> "Bearer", token |-> t]

ServiceHeaders == {<<>>, <<Blank>>, <<SalesForSystem, SalesForUser>>} \cup
                  {<<t>> : t \in ServiceTokens}
AuthHeaders == {<<>>, <<[scheme |-> "Basic", token |-> Supervisor]>>,
                <<Bearer(Supervisor), Bearer([Supervisor EXCEPT !.tenant = "t2"])>>} \cup
               {<<Bearer(t)>> : t \in UserTokens \cup {SalesForUser, Blank}}
TenantValues == {<<>>, <<"t1", "t2">>} \cup {<<h>> : h \in DOMAIN UUIDs}

GoodService == {<<>>, <<SalesForUser>>, <<SalesForSystem>>}
GoodAuth == {<<>>, <<Bearer(Supervisor)>>}

AllRequests ==
  {[service |-> s, auth |-> a, tenant |-> t] :
     <<s, a, t>> \in (ServiceHeaders \X GoodAuth \X TenantValues) \cup
                     (GoodService \X AuthHeaders \X TenantValues)}

Gin == [entry |-> "gin", legacy |-> TRUE, audience |-> "stock", namespace |-> "mc",
        requiredScopes |-> {"read"}, anyScope |-> FALSE, allowUser |-> TRUE,
        system |-> "denied", systemOnlyScopes |-> {"purge"}, userNamespace |-> "",
        denySub |-> {"old-sales"}, excluded |-> FALSE, tenantNamespace |-> "mc",
        rejectMissingTenant |-> TRUE, gate |-> "none", allowed |-> {}]
Supervised(r) == [r EXCEPT !.gate = "role", !.allowed = {"supervisor"}]
Permitted(r) == [r EXCEPT !.gate = "perm", !.allowed = {"approve"}]
Legacy == [Gin EXCEPT !.entry = "legacy", !.rejectMissingTenant = FALSE]
Platform == [Gin EXCEPT !.entry = "platform"]

AllRoutes ==
  {Supervised(Gin), [Gin EXCEPT !.legacy = FALSE, !.userNamespace = "xx"],
   Supervised([Gin EXCEPT !.system = "perTenant"]),
   [Gin EXCEPT !.system = "perTenant", !.allowUser = FALSE],
   [Gin EXCEPT !.system = "global", !.requiredScopes = {}, !.anyScope = TRUE],
   [Gin EXCEPT !.system = "perTenant", !.denySub = {"old-sales", "Sales,"}],
   [Gin EXCEPT !.requiredScopes = {}],
   [Gin EXCEPT !.entry = "http", !.system = "perTenant"],
   [Gin EXCEPT !.entry = "http", !.system = "global", !.legacy = FALSE],
   [Gin EXCEPT !.entry = "legacy"], Supervised(Legacy), Permitted(Legacy),
   Supervised([Legacy EXCEPT !.excluded = TRUE]),
   [Legacy EXCEPT !.tenantNamespace = ""],
   Supervised(Platform), Permitted(Platform)}
=============================================================================
