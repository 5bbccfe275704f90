---------------------------- MODULE RequestAuth ----------------------------
(***************************************************************************)
(* Admission of one HTTP request by the receiving side: the S2S combinator *)
(* (receiver.Authenticate behind middleware/s2sauth and s2stoken/s2shttp), *)
(* the legacy credential TenantValidation, VerifyPlatformJWT, and the      *)
(* gates RequireRole and RequirePermission that read what they left.       *)
(*                                                                         *)
(* A request walks the handler chain of its route; every middleware is one *)
(* step, and the clock may advance between two of them.  Requests share no *)
(* state, so one at a time shows every behaviour.  A JWT is a record of    *)
(* its header, its signer and its claims: Empty and None stand for an      *)
(* absent (or ill-typed) claim.  What is no JWT at all is Unreadable.      *)
(***************************************************************************)
EXTENDS Integers, Sequences

CONSTANTS
  Tokens,         \* the JWTs that may be presented, Unreadable among them
  Unreadable,     \* a blank or undecodable value
  Requests,       \* the headers of the requests that may arrive
  Routes,         \* the routes of the service with their configuration
  Keyring,        \* the loaded public keys, each named by the kid it derives
  Tenants,        \* canonical tenant ids
  CanonicalUUID,  \* X-Tenant-ID values -> canonical form, Empty if not a UUID
  CanonicalNames, \* the names S2S_DENY_SUB may list
  TTL, Leeway,    \* life of a service token, tolerated clock skew
  MaxTime,        \* bound: the clock
  None            \* no token, no time

Empty == ""                    \* an absent string

TenantHeaders == DOMAIN CanonicalUUID

Credentials == [scheme : {"Bearer", "Basic"}, token : Tokens]

Stages == {"idle", "gin", "http", "user", "legacy", "chi", "platform",
           "require", "handler", "refused"}

ASSUME ClockAssumption == TTL \in Nat /\ Leeway \in Nat /\ MaxTime \in Nat

ASSUME TokenAssumption ==
  /\ Unreadable \in Tokens
  /\ Unreadable.alg = Empty
  /\ None \notin Tokens
  /\ \A t \in Tokens : /\ {t.iat, t.nbf, t.exp} \subseteq Nat \cup {None}
                       /\ t.tenant \in Tenants \cup {Empty}

ASSUME RequestAssumption ==
  Requests \subseteq [service : Seq(Tokens), auth : Seq(Credentials),
                      tenant : Seq(TenantHeaders)]

ASSUME RouteAssumption ==
  \A r \in Routes : r.entry \in {"gin", "http", "legacy", "platform"}

ASSUME TenantAssumption ==
  /\ Empty \notin Tenants
  /\ Empty \in TenantHeaders /\ CanonicalUUID[Empty] = Empty
  /\ \A h \in TenantHeaders : CanonicalUUID[h] \in Tenants \cup {Empty}
  /\ \A t \in Tenants \cap TenantHeaders : CanonicalUUID[t] = t

VARIABLES
  now,        \* the clock of the receiver
  stage,      \* the middleware about to run
  route,      \* the route of the request (tenantNamespace: the Namespace of
              \* its TenantValidation or VerifyPlatformJWT)
  req,        \* its headers
  principal,  \* the verified service token (the local p of Authenticate)
  ctx,        \* the keys set in the request context
  status      \* the HTTP status of a refusal, 200 while there is none

vars == <<now, stage, route, req, principal, ctx, status>>

EmptyContext == [auth |-> Empty, principal |-> None, tenant |-> Empty,
                 claims |-> None, roles |-> {}, namespace |-> Empty]

Init ==
  /\ now = 0
  /\ stage = "idle"
  /\ route = None
  /\ req = None
  /\ principal = None
  /\ ctx = EmptyContext
  /\ status = 200

-----------------------------------------------------------------------------
(***************************************************************************)
(* Verification of a JWT.  The key is chosen by the kid of the header from *)
(* the keyring and by nothing else, so a token is authentic if the key of  *)
(* that name signed it.                                                    *)
(***************************************************************************)
PublicKeyFor(kid) == IF kid \in Keyring THEN {kid} ELSE {}

RS256Keyfunc(t) == IF t.alg = "RS256" /\ t.kid # Empty THEN PublicKeyFor(t.kid)
                                                    ELSE {}

Signed(t) == t.signer \in RS256Keyfunc(t)

(***************************************************************************)
(* The time checks of golang-jwt at the present clock.                     *)
(***************************************************************************)
Unexpired(t, leeway, opts) ==
  IF t.exp = None THEN "ExpirationRequired" \notin opts ELSE now < t.exp + leeway

Started(time, leeway) == time = None \/ time - leeway =< now

\* Mutant of CheckUserClaims: the contract of user tokens is not applied.
CheckUserClaimsSkipped(t) == TRUE

(***************************************************************************)
(* A user token has no token_use and comes from the issuer of users.       *)
(***************************************************************************)
CheckUserClaims(t) == t.use = Empty /\ t.iss = "iam-service"

ParseUser(t) ==
  /\ Signed(t)
  /\ Unexpired(t, Leeway, {"ExpirationRequired"})
  /\ Started(t.nbf, Leeway)
  /\ CheckUserClaims(t)

ParseDual(t, opts) ==
  Signed(t) /\ Unexpired(t, 0, opts) /\ Started(t.nbf, 0)

(***************************************************************************)
(* The start-up check of a receiver: Middleware panics if it fails.        *)
(***************************************************************************)
Validate(r) ==
  /\ Keyring # {}
  /\ r.audience \notin {Empty, "iam-service/s2s/token"}
  /\ r.namespace # Empty
  /\ r.requiredScopes # {} \/ r.anyScope

\* Mutant of Lifetime: the life of the token is not compared with TTL.
LifetimeUnbounded(t) == t.iat # None

Lifetime(t) == t.iat # None /\ t.exp - t.iat =< TTL

(***************************************************************************)
(* s2stoken.Verify: what makes t no credential for this receiver is 401,   *)
(* and only then what the credential does not reach is 403.                *)
(***************************************************************************)
Credential(t, r) ==
  /\ Validate(r)
  /\ Signed(t)
  /\ t.iss = "iam-service/s2s"
  /\ Unexpired(t, Leeway, {"ExpirationRequired"})
  /\ Started(t.iat, Leeway)
  /\ Started(t.nbf, Leeway)
  /\ t.typ = "s2s+jwt"
  /\ t.use = "service"
  /\ Lifetime(t)
  /\ t.audience = r.audience
  /\ t.sub # Empty /\ t.jti # Empty
  /\ t.tenantScope \in {"user", "system"}

Reaches(t, r) == t.namespace = r.namespace /\ r.requiredScopes \subseteq t.scopes

\* Mutant of Verify: 403 is decided before the credential is known good.
VerifyReachFirst(t, r) ==
  IF ~Reaches(t, r) THEN 403 ELSE IF ~Credential(t, r) THEN 401 ELSE 200

Verify(t, r) ==
  IF ~Credential(t, r) THEN 401 ELSE IF ~Reaches(t, r) THEN 403 ELSE 200

(***************************************************************************)
(* S2S_DENY_SUB, read at start: a name that is not canonical spoils the    *)
(* list, and a spoilt list denies every service token.                     *)
(***************************************************************************)
ParseDenySub(raw) == [subs |-> raw \cap CanonicalNames,
                      invalid |-> ~(raw \subseteq CanonicalNames)]

Denies(r, sub) == LET list == ParseDenySub(r.denySub)
                  IN list.invalid \/ sub \in list.subs

-----------------------------------------------------------------------------
(***************************************************************************)
(* The headers.  c.GetHeader takes the first value; SingleHeader refuses   *)
(* to choose.                                                              *)
(***************************************************************************)
GetHeader(values, absent) == IF values = <<>> THEN absent ELSE values[1]

\* Mutant of SingleHeader: the first of several values is taken.
FirstHeader(values) == TRUE

SingleHeader(values) == Len(values) =< 1

Authorization ==
  GetHeader(req.auth, [scheme |-> "Basic", token |-> Unreadable])

TenantHeader == GetHeader(req.tenant, Empty)

\* Mutant of NoServiceHeader: an empty value counts as absent.
NoServiceToken == \A i \in DOMAIN req.service : req.service[i] = Unreadable

(***************************************************************************)
(* The credential is chosen by the PRESENCE of X-Service-Token.            *)
(***************************************************************************)
NoServiceHeader == req.service = <<>>

HeaderStatus ==
  IF Len(req.service) # 1 \/ ~SingleHeader(req.auth) THEN 401
  ELSE IF ~SingleHeader(req.tenant) THEN 403
  ELSE 200

-----------------------------------------------------------------------------
Refuse(code) ==
  /\ stage' = "refused"
  /\ status' = code

(***************************************************************************)
(* c.Next(): the gate of the route, if it has one, then the handler.       *)
(***************************************************************************)
Continue(context) ==
  /\ stage' = IF route.gate = "none" THEN "handler" ELSE "require"
  /\ ctx' = context
  /\ UNCHANGED status

(***************************************************************************)
(* What Authenticate decides before it looks at the tenant.                *)
(***************************************************************************)
ServiceStatus(t) ==
  IF t = Unreadable \/ ParseDenySub(route.denySub).invalid THEN 401
  ELSE IF Verify(t, route) # 200 THEN Verify(t, route)
  ELSE IF Denies(route, t.sub) THEN 401
  ELSE 200

(***************************************************************************)
(* authenticateSystem.  The tenant of a system call is the header in its   *)
(* canonical form, on the routes that take one.                            *)
(***************************************************************************)
SystemStatus ==
  CASE route.system = "global"    -> IF TenantHeader # Empty THEN 403 ELSE 200
    [] route.system = "perTenant" ->
         IF CanonicalUUID[TenantHeader] = Empty THEN 403 ELSE 200
    [] OTHER                      -> 403

SystemTenant ==
  IF route.system = "perTenant" THEN CanonicalUUID[TenantHeader] ELSE Empty

(***************************************************************************)
(* The key s2s_auth exists behind the gin adapter only.                    *)
(***************************************************************************)
AuthKey(value) == IF route.entry = "gin" THEN value ELSE Empty

SystemContext(t) ==
  [auth |-> AuthKey("token"), principal |-> t, tenant |-> SystemTenant,
   claims |-> None, roles |-> {}, namespace |-> t.namespace]

(***************************************************************************)
(* authenticateUser, in the order of its checks.                           *)
(***************************************************************************)
UserNamespace == IF route.userNamespace = Empty THEN route.namespace
                                             ELSE route.userNamespace

UserStatus ==
  LET user == Authorization.token
      wrongRoute == \/ ~route.allowUser
                    \/ route.systemOnlyScopes \cap principal.scopes # {}
      noUser     == Authorization.scheme # "Bearer" \/ ~ParseUser(user)
      wrongUser  == \/ user.namespace # UserNamespace
                    \/ user.tenant = Empty
                    \/ TenantHeader \notin {Empty, user.tenant}
  IN IF wrongRoute THEN 403 ELSE IF noUser THEN 401
     ELSE IF wrongUser THEN 403 ELSE 200

UserContext ==
  LET user == Authorization.token
  IN [auth |-> AuthKey("token"), principal |-> principal,
      tenant |-> user.tenant, claims |-> user, roles |-> user.roles,
      namespace |-> user.namespace]

(***************************************************************************)
(* receiver.Authenticate on the one X-Service-Token, up to the Bearer of a *)
(* user, which is verified in a step of its own (at a later clock).        *)
(***************************************************************************)
Authenticate(t) ==
  \/ /\ ServiceStatus(t) # 200
     /\ Refuse(ServiceStatus(t))
     /\ UNCHANGED <<principal, ctx>>
  \/ /\ ServiceStatus(t) = 200
     /\ principal' = t
     /\ \/ /\ t.tenantScope = "user"
           /\ stage' = "user"
           /\ UNCHANGED <<ctx, status>>
        \/ /\ t.tenantScope = "system"
           /\ SystemStatus # 200
           /\ Refuse(SystemStatus)
           /\ UNCHANGED ctx
        \/ /\ t.tenantScope = "system"
           /\ SystemStatus = 200
           /\ Continue(SystemContext(t))

AuthenticateUser ==
  /\ stage = "user"
  /\ \/ UserStatus # 200 /\ Refuse(UserStatus) /\ UNCHANGED ctx
     \/ UserStatus = 200 /\ Continue(UserContext)
  /\ UNCHANGED <<now, route, req, principal>>

(***************************************************************************)
(* The two adapters.  They differ in the legacy credential they hand over  *)
(* to: the gin one runs TenantValidation, the net/http one whatever        *)
(* verifier the receiver wraps around its handler.                         *)
(***************************************************************************)
WithServiceHeader ==
  /\ ~NoServiceHeader
  /\ \/ /\ HeaderStatus # 200
        /\ Refuse(HeaderStatus)
        /\ UNCHANGED <<principal, ctx>>
     \/ HeaderStatus = 200 /\ Authenticate(req.service[1])

GinMiddleware ==
  /\ stage = "gin"
  /\ \/ /\ NoServiceHeader
        /\ ctx' = [ctx EXCEPT !.auth = "legacy_key"]
        /\ IF route.legacy THEN stage' = "legacy" /\ UNCHANGED status
                           ELSE Refuse(401)
        /\ UNCHANGED principal
     \/ WithServiceHeader
  /\ UNCHANGED <<now, route, req>>

HttpMiddleware ==
  /\ stage = "http"
  /\ \/ /\ NoServiceHeader
        /\ IF route.legacy THEN stage' = "chi" /\ UNCHANGED status
                           ELSE Refuse(401)
        /\ UNCHANGED <<principal, ctx>>
     \/ WithServiceHeader
  /\ UNCHANGED <<now, route, req>>

LegacyHttpHandler ==
  /\ stage = "chi"
  /\ \/ Refuse(401) /\ UNCHANGED ctx
     \/ Continue(ctx)
  /\ UNCHANGED <<now, route, req, principal>>

-----------------------------------------------------------------------------
(***************************************************************************)
(* TenantValidation.  Without RejectMissingTenant a token that names no    *)
(* tenant passes, and leaves nothing in the context.                       *)
(***************************************************************************)
Excluded == route.excluded

\* The checks TenantValidation and VerifyPlatformJWT have in common.
UserOfProject(user, opts) ==
  IF \/ Authorization.scheme # "Bearer"
     \/ ~ParseDual(user, opts)
     \/ ~CheckUserClaims(user)
  THEN 401
  ELSE IF route.tenantNamespace \notin {Empty, user.namespace} THEN 403
  ELSE 200

TenantStatus ==
  LET user == Authorization.token
  IN IF UserOfProject(user, {}) # 200 THEN UserOfProject(user, {})
     ELSE IF user.tenant = Empty THEN
            IF route.rejectMissingTenant THEN 403 ELSE 200
     ELSE IF TenantHeader = Empty THEN 400
     ELSE IF TenantHeader # user.tenant THEN 403
     ELSE 200

\* Mutant of TenantContext: the bypass leaves claims and roles behind.
TenantContextAlways(user) ==
  [ctx EXCEPT !.tenant = user.tenant, !.claims = user,
              !.roles = user.roles, !.namespace = user.namespace]

TenantContext(user) ==
  IF user.tenant = Empty THEN ctx
  ELSE [ctx EXCEPT !.tenant = user.tenant, !.claims = user,
                   !.roles = user.roles, !.namespace = user.namespace]

TenantValidation ==
  /\ stage = "legacy"
  /\ \/ Excluded /\ Continue(ctx)
     \/ ~Excluded /\ TenantStatus # 200 /\ Refuse(TenantStatus) /\ UNCHANGED ctx
     \/ ~Excluded /\ TenantStatus = 200
                  /\ Continue(TenantContext(Authorization.token))
  /\ UNCHANGED <<now, route, req, principal>>

PlatformStatus == UserOfProject(Authorization.token, {"ExpirationRequired"})

VerifyPlatformJWT ==
  /\ stage = "platform"
  /\ \/ PlatformStatus # 200 /\ Refuse(PlatformStatus) /\ UNCHANGED ctx
     \/ /\ PlatformStatus = 200
        /\ Continue([ctx EXCEPT !.claims = Authorization.token,
                                !.roles = Authorization.token.roles])
  /\ UNCHANGED <<now, route, req, principal>>

-----------------------------------------------------------------------------
(***************************************************************************)
(* The gates.  Both fail closed when no user is in the context.            *)
(***************************************************************************)
RolesFromContext == IF ctx.claims = None THEN {} ELSE ctx.roles

PermsFromContext == IF ctx.claims = None THEN {} ELSE ctx.claims.perms

Gate(open) ==
  /\ \/ open /\ stage' = "handler" /\ UNCHANGED status
     \/ ~open /\ Refuse(403)
  /\ UNCHANGED <<now, route, req, principal, ctx>>

RequireRole ==
  /\ stage = "require" /\ route.gate = "role"
  /\ Gate(RolesFromContext \cap route.allowed # {})

RequirePermission ==
  /\ stage = "require" /\ route.gate = "perm"
  /\ Gate(PermsFromContext \cap (route.allowed \cup {"*"}) # {})

-----------------------------------------------------------------------------
(***************************************************************************)
(* A route exists if its middleware could be built, and the gates are gin  *)
(* handlers.                                                               *)
(***************************************************************************)
Mounted(r) ==
  /\ r.entry \in {"gin", "http"} => Validate(r)
  /\ r.entry = "http" => r.gate = "none"

Arrive(r, q) ==
  /\ Mounted(r)
  /\ stage' = r.entry
  /\ route' = r
  /\ req' = q
  /\ UNCHANGED <<now, principal, ctx, status>>

Respond ==
  /\ stage \in {"handler", "refused"}
  /\ stage' = "idle"
  /\ route' = None
  /\ req' = None
  /\ principal' = None
  /\ ctx' = EmptyContext
  /\ status' = 200
  /\ UNCHANGED now

Tick ==
  /\ now < MaxTime
  /\ now' = now + 1
  /\ UNCHANGED <<stage, route, req, principal, ctx, status>>

Step ==
  \/ GinMiddleware \/ HttpMiddleware \/ AuthenticateUser \/ LegacyHttpHandler
  \/ TenantValidation \/ VerifyPlatformJWT
  \/ RequireRole \/ RequirePermission
  \/ Respond
  \/ Tick

Next ==
  \/ Step
  \/ stage = "idle" /\ \E r \in Routes, q \in Requests : Arrive(r, q)

Spec == Init /\ [][Next]_vars

-----------------------------------------------------------------------------
(***************************************************************************)
(* Every variable keeps its type; in particular the tenant left in the     *)
(* context is always in canonical form, never the header as it was sent    *)
(* (receiver.go, authenticateSystem).                                      *)
(***************************************************************************)
Contexts ==
  [auth : {Empty, "token", "legacy_key"}, principal : Tokens \cup {None},
   tenant : Tenants \cup {Empty}, claims : Tokens \cup {None},
   roles : {{}} \cup {t.roles : t \in Tokens},
   namespace : {Empty} \cup {t.namespace : t \in Tokens}]

TypeOK ==
  /\ now \in 0 .. MaxTime
  /\ stage \in Stages
  /\ route \in Routes \cup {None}
  /\ req \in Requests \cup {None}
  /\ principal \in Tokens \cup {None}
  /\ ctx \in Contexts
  /\ status \in {200, 400, 401, 403}

IssuedByIam(t) == t.alg = "RS256" /\ t.signer \in Keyring

Served == stage = "handler"

(***************************************************************************)
(* A request that carries X-Service-Token, be it empty, repeated, expired  *)
(* or denied, never reaches the legacy credential nor the handler through  *)
(* it: where it is served, the one token it sent was verified (s2sauth.go, *)
(* s2shttp.go: chosen by presence of the header).                          *)
(***************************************************************************)
NoDowngrade ==
  stage # "idle" /\ route.entry \in {"gin", "http"} /\ req.service # <<>> =>
    /\ stage \notin {"legacy", "chi"}
    /\ ctx.auth # "legacy_key"
    /\ Served => req.service = <<ctx.principal>>

(***************************************************************************)
(* A handler that finds a tenant in its context finds one that iam stands  *)
(* for: the tenant_id of a user token that iam signed, or the X-Tenant-ID  *)
(* of a system call on a route that takes one; and no X-Tenant-ID value    *)
(* contradicts it (of several, TenantValidation reads only the first).     *)
(***************************************************************************)
TenantIsAttested ==
  Served /\ ctx.tenant # Empty =>
    /\ \/ /\ ctx.claims # None
          /\ IssuedByIam(ctx.claims)
          /\ ctx.claims.tenant = ctx.tenant
          /\ \E i \in DOMAIN req.auth : req.auth[i].token = ctx.claims
       \/ /\ ctx.claims = None
          /\ IssuedByIam(ctx.principal)
          /\ ctx.principal.tenantScope = "system"
          /\ route.system = "perTenant"
          /\ req.tenant # <<>>
    /\ \A i \in DOMAIN req.tenant :
         \/ req.tenant[i] = Empty /\ ctx.principal # None
         \/ CanonicalUUID[req.tenant[i]] = ctx.tenant
         \/ ctx.principal = None /\ i > 1

(***************************************************************************)
(* A handler behind RequireRole runs only for a user token, signed by iam, *)
(* that has one of the roles, and on a route of a tenant only together     *)
(* with the tenant of that token: neither a system token, an excluded      *)
(* route nor the missing-tenant bypass of TenantValidation opens the gate  *)
(* (require_role.go: fail closed).                                         *)
(***************************************************************************)
AuthorizedRole ==
  Served /\ route.gate = "role" =>
    /\ ctx.claims # None
    /\ IssuedByIam(ctx.claims)
    /\ ctx.claims.roles \cap route.allowed # {}
    /\ route.entry # "platform" =>
         ctx.tenant = ctx.claims.tenant /\ ctx.tenant # Empty

(***************************************************************************)
(* A service token works only as one, and only where it may: never as a    *)
(* user, never for a denied sub or behind a deny list that did not parse,  *)
(* only with the scopes of the route; a system token only on system routes *)
(* and without any user, a user-scoped one only with its user and without  *)
(* scopes reserved for systems (receiver.go, C-1).                         *)
(***************************************************************************)
ServiceTokenInItsPlace ==
  Served =>
    /\ ctx.claims # None => ctx.claims.use # "service"
    /\ ctx.principal # None =>
         /\ IssuedByIam(ctx.principal) /\ ctx.principal.use = "service"
         /\ route.denySub \subseteq CanonicalNames \ {ctx.principal.sub}
         /\ route.requiredScopes \subseteq ctx.principal.scopes
         /\ \/ /\ ctx.principal.tenantScope = "system"
               /\ route.system # "denied"
               /\ ctx.claims = None
            \/ /\ ctx.principal.tenantScope = "user"
               /\ route.allowUser
               /\ ctx.principal.scopes \cap route.systemOnlyScopes = {}
               /\ ctx.claims # None

(***************************************************************************)
(* Credentials work only in their time.  A service token is accepted from  *)
(* Leeway before its issue until less than TTL + Leeway after it, whatever *)
(* exp it carries; a user token never after its exp (give or take Leeway), *)
(* and a token without exp on TenantValidation routes alone.               *)
(***************************************************************************)
ServiceTokenInTime(t) == t.iat - Leeway =< now /\ now < t.iat + TTL + Leeway

UserTokenInTime(t) ==
  IF t.exp = None THEN route.entry \in {"legacy", "gin"} /\ principal = None
                  ELSE now < t.exp + Leeway

CredentialsInTheirTime ==
  [][/\ principal = None /\ principal' # None => ServiceTokenInTime(principal')
     /\ ctx.claims = None /\ ctx'.claims # None => UserTokenInTime(ctx'.claims)
    ]_vars

(***************************************************************************)
(* 403 is told only to a caller whose credential was found good (s2stoken: *)
(* "what says this is no valid credential is 401"), except for a repeated  *)
(* X-Tenant-ID, which the adapters refuse unseen, and a gate on an         *)
(* excluded route.                                                         *)
(***************************************************************************)
KnownCaller ==
  \/ \E i \in DOMAIN req.service : /\ IssuedByIam(req.service[i])
                                   /\ req.service[i].audience = route.audience
                                   /\ req.service[i].use = "service"
  \/ \E i \in DOMAIN req.auth : /\ IssuedByIam(req.auth[i].token)
                                /\ req.auth[i].token.use = Empty
                                /\ req.service = <<>> \/ route.entry \notin {"gin", "http"}

ForbiddenOnlyToTheKnown ==
  status = 403 => \/ KnownCaller
                  \/ Len(req.tenant) > 1 /\ req.service # <<>>
                  \/ route.excluded /\ route.gate # "none"

=============================================================================
