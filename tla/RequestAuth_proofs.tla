------------------------- MODULE RequestAuth_proofs -------------------------
(***************************************************************************)
(* What a handler may rely on, for every set of tokens, requests, routes   *)
(* and keys: NoDowngrade, TenantIsAttested, AuthorizedRole and             *)
(* ServiceTokenInItsPlace of RequestAuth; that every credential is         *)
(* accepted in its time (CredentialsInTheirTime), and that only a caller   *)
(* with a good one is told 403 (ForbiddenOnlyToTheKnown).                  *)
(*                                                                         *)
(* The first four speak of the moment the handler runs; the invariant says *)
(* what holds on the way there: which credential each stage was reached    *)
(* with (Path), that nobody is in the context before a credential was      *)
(* accepted (NobodyYet), what every accepted one has (Admitted...), and    *)
(* where a request may already be told 403 (Answered).                     *)
(***************************************************************************)
EXTENDS RequestAuth, TLAPS

Combined == {"gin", "http"}
Deciding == {"idle", "gin", "http", "user", "legacy", "chi", "platform"}

Typed ==
  /\ TypeOK
  /\ stage # "idle" => route \in Routes /\ req \in Requests
  /\ stage = "user" => principal \in Tokens

\* How a stage is reached.
Path ==
  /\ stage \in {"gin", "http", "platform"} => route.entry = stage
  /\ stage = "user" => route.entry \in Combined
  /\ stage = "legacy" => \/ route.entry = "legacy"
                         \/ route.entry = "gin" /\ req.service = <<>>
  /\ stage = "chi" => route.entry = "http" /\ req.service = <<>>
  /\ ctx.auth = "legacy_key" => stage # "idle" /\ req.service = <<>>
  /\ stage # "idle" /\ route.entry = "http" => route.gate = "none"

NobodyYet ==
  /\ stage \in Deciding =>
       ctx.principal = None /\ ctx.claims = None /\ ctx.tenant = Empty
  /\ stage \in Deciding \ {"user"} => principal = None

\* What Verify and the deny list leave of the service token of a request.
ServiceFacts(t, r, q) ==
  /\ q.service = <<t>>
  /\ SingleHeader(q.tenant)
  /\ IssuedByIam(t) /\ t.use = "service" /\ t.audience = r.audience
  /\ r.denySub \subseteq CanonicalNames \ {t.sub}
  /\ r.requiredScopes \subseteq t.scopes

\* What every verifier of users leaves of the token of a user.
UserFacts(t, q) ==
  /\ IssuedByIam(t) /\ t.use = Empty
  /\ \E i \in DOMAIN q.auth : q.auth[i].token = t

Verified ==
  stage = "user" =>
    ServiceFacts(principal, route, req) /\ principal.tenantScope = "user"

\* Contexts a request may go on with: after a system token, after a token
\* with its user, after a user alone, and with nobody.
SystemAdmitted(c, r, q) ==
  /\ r.entry \in Combined /\ ServiceFacts(c.principal, r, q)
  /\ c.principal.tenantScope = "system"
  /\ c.claims = None
  /\ r.system # "denied"
  /\ c.tenant # Empty => /\ r.system = "perTenant"
                         /\ q.tenant # <<>>
                         /\ CanonicalUUID[q.tenant[1]] = c.tenant

UserAdmitted(c, r, q) ==
  /\ UserFacts(c.claims, q)
  /\ c.roles = c.claims.roles
  /\ r.entry = "platform" => c.tenant = Empty
  /\ r.entry # "platform" => c.tenant = c.claims.tenant /\ c.tenant # Empty

PairAdmitted(c, r, q) ==
  /\ r.entry \in Combined /\ ServiceFacts(c.principal, r, q)
  /\ c.principal.tenantScope = "user"
  /\ c.claims # None
  /\ UserAdmitted(c, r, q)
  /\ r.allowUser
  /\ c.principal.scopes \cap r.systemOnlyScopes = {}
  /\ q.tenant # <<>> => q.tenant[1] \in {Empty, c.tenant}

AloneAdmitted(c, r, q) ==
  /\ c.principal = None
  /\ r.entry \in Combined => q.service = <<>>
  /\ \/ c.claims = None /\ c.tenant = Empty
     \/ c.claims # None /\ UserAdmitted(c, r, q)
  /\ c.tenant # Empty => q.tenant # <<>> /\ q.tenant[1] = c.tenant

Admissible(c, r, q) ==
  /\ c.auth = "legacy_key" => q.service = <<>>
  /\ \/ c.principal # None /\ SystemAdmitted(c, r, q)
     \/ c.principal # None /\ PairAdmitted(c, r, q)
     \/ AloneAdmitted(c, r, q)

OnlyAdmissible == stage \in {"require", "handler"} => Admissible(ctx, route, req)

RoleShown ==
  stage = "handler" /\ route.gate = "role" =>
    ctx.claims # None /\ ctx.roles \cap route.allowed # {}

\* The requests that may be told 403, and where they are found to be such.
MayForbid ==
  \/ KnownCaller
  \/ Len(req.tenant) > 1 /\ req.service # <<>>
  \/ route.excluded /\ route.gate # "none"

Answered ==
  /\ stage # "refused" => status = 200
  /\ status = 403 \/ stage = "require" => MayForbid

Inv == /\ Typed /\ Path /\ NobodyYet /\ Verified /\ OnlyAdmissible /\ RoleShown
       /\ Answered

-----------------------------------------------------------------------------
\* An absent string is none of the values the code looks for.
LEMMA EmptyIsNone == Empty \notin {"service", "legacy_key", "token"}
BY DEF Empty

(* The verifiers.                                                          *)

\* A token that verifies against the keyring was signed by iam (RS256Keyfunc).
LEMMA SignedByIam == \A t : Signed(t) => IssuedByIam(t)
BY DEF Signed, RS256Keyfunc, PublicKeyFor, IssuedByIam

\* What Authenticate knows of a service token it accepts.
LEMMA ServiceAccepted ==
  ASSUME NEW t \in Tokens, ServiceStatus(t) = 200
  PROVE  /\ IssuedByIam(t) /\ t.use = "service" /\ t.audience = route.audience
         /\ t.tenantScope \in {"user", "system"}
         /\ route.denySub \subseteq CanonicalNames \ {t.sub}
         /\ route.requiredScopes \subseteq t.scopes
<1>1. /\ ~ParseDenySub(route.denySub).invalid
      /\ Verify(t, route) = 200
      /\ ~Denies(route, t.sub)
  BY DEF ServiceStatus
<1>2. Credential(t, route) /\ Reaches(t, route)
  BY <1>1 DEF Verify
<1>3. route.denySub \subseteq CanonicalNames
  BY <1>1 DEF ParseDenySub
<1>4. t.sub \notin route.denySub
  BY <1>1, <1>3 DEF Denies, ParseDenySub
<1> QED
  BY <1>2, <1>3, <1>4, SignedByIam DEF Credential, Reaches

\* What authenticateUser knows of a Bearer it accepts.
LEMMA UserAccepted ==
  ASSUME UserStatus = 200
  PROVE  /\ route.allowUser
         /\ principal.scopes \cap route.systemOnlyScopes = {}
         /\ Authorization.scheme = "Bearer"
         /\ IssuedByIam(Authorization.token) /\ Authorization.token.use = Empty
         /\ Authorization.token.tenant # Empty
         /\ TenantHeader \in {Empty, Authorization.token.tenant}
<1>1. /\ route.allowUser
      /\ route.systemOnlyScopes \cap principal.scopes = {}
      /\ Authorization.scheme = "Bearer"
      /\ ParseUser(Authorization.token)
      /\ Authorization.token.tenant # Empty
      /\ TenantHeader \in {Empty, Authorization.token.tenant}
  BY DEF UserStatus
<1> QED
  BY <1>1, SignedByIam DEF ParseUser, CheckUserClaims

\* What TenantValidation and VerifyPlatformJWT know of a Bearer they accept, or
\* find to be of another project.
LEMMA ProjectUserAccepted ==
  ASSUME NEW opts, UserOfProject(Authorization.token, opts) \in {200, 403}
  PROVE  /\ Authorization.scheme = "Bearer"
         /\ IssuedByIam(Authorization.token) /\ Authorization.token.use = Empty
<1>1. /\ Authorization.scheme = "Bearer"
      /\ ParseDual(Authorization.token, opts)
      /\ CheckUserClaims(Authorization.token)
  BY DEF UserOfProject
<1> QED
  BY <1>1, SignedByIam DEF ParseDual, CheckUserClaims

\* What TenantValidation knows besides: the tenant of the token, if it has one,
\* is the one the header names.
LEMMA TenantAccepted ==
  ASSUME TenantStatus = 200
  PROVE  /\ UserOfProject(Authorization.token, {}) = 200
         /\ \/ Authorization.token.tenant = Empty
            \/ TenantHeader # Empty /\ TenantHeader = Authorization.token.tenant
BY DEF TenantStatus

\* The first value of a header that is present.
LEMMA FirstValue ==
  ASSUME NEW S, NEW s \in Seq(S), s # <<>>
  PROVE  1 \in DOMAIN s /\ s[1] \in S
OBVIOUS

\* The values the middlewares read come from the request.
LEMMA HeadersTyped ==
  ASSUME req \in Requests
  PROVE  /\ Authorization.token \in Tokens
         /\ Authorization.scheme = "Bearer" =>
              \E i \in DOMAIN req.auth : req.auth[i].token = Authorization.token
         /\ TenantHeader \in TenantHeaders
         /\ req.tenant = <<>> => TenantHeader = Empty
         /\ req.tenant # <<>> => req.tenant[1] = TenantHeader
<1>1. /\ req.auth \in Seq(Credentials)
      /\ req.tenant \in Seq(TenantHeaders)
  BY RequestAssumption
<1>2. /\ req.tenant = <<>> => TenantHeader = Empty
      /\ req.tenant # <<>> => req.tenant[1] = TenantHeader
  BY DEF TenantHeader, GetHeader
<1>3. TenantHeader \in TenantHeaders
  <2>1. CASE req.tenant = <<>>
    BY <1>2, <2>1, TenantAssumption
  <2>2. CASE req.tenant # <<>>
    <3>1. req.tenant[1] \in TenantHeaders
      BY <1>1, <2>2, FirstValue
    <3> QED
      BY <3>1, <2>2, <1>2
  <2> QED
    BY <2>1, <2>2
<1>4. CASE req.auth = <<>>
  <2>1. Authorization = [scheme |-> "Basic", token |-> Unreadable]
    BY <1>4 DEF Authorization, GetHeader
  <2>2. Authorization.scheme = "Basic" /\ Authorization.token = Unreadable
    BY <2>1
  <2> QED
    BY <2>2, <1>2, <1>3, TokenAssumption
<1>5. CASE req.auth # <<>>
  <2>1. Authorization = req.auth[1]
    BY <1>5 DEF Authorization, GetHeader
  <2>2. 1 \in DOMAIN req.auth /\ req.auth[1] \in Credentials
    BY <1>1, <1>5, FirstValue
  <2>3. req.auth[1].token \in Tokens
    BY <2>2 DEF Credentials
  <2> QED
    BY <2>1, <2>2, <2>3, <1>2, <1>3
<1> QED
  BY <1>4, <1>5

\* A header that has one value is that value.
LEMMA OneValue ==
  ASSUME req \in Requests, Len(req.service) = 1
  PROVE  req.service[1] \in Tokens /\ req.service = <<req.service[1]>>
<1>1. req.service \in Seq(Tokens)
  BY RequestAssumption
<1> QED
  BY <1>1

(* Who may be told 403.                                                    *)

\* A verified service token makes its caller known.
LEMMA ServiceKnown ==
  ASSUME NEW t, req.service = <<t>>, IssuedByIam(t), t.use = "service",
         t.audience = route.audience
  PROVE  MayForbid
<1>1. 1 \in DOMAIN req.service /\ req.service[1] = t
  OBVIOUS
<1> QED
  BY <1>1 DEF MayForbid, KnownCaller

\* So does a verified user token where no service token decides.
LEMMA UserKnown ==
  ASSUME NEW t, UserFacts(t, req),
         req.service = <<>> \/ route.entry \notin Combined
  PROVE  MayForbid
BY DEF UserFacts, MayForbid, KnownCaller, Combined

\* What the verifiers of users alone accept, or find to be of another project.
LEMMA ProjectUserKnown ==
  ASSUME req \in Requests, NEW opts,
         UserOfProject(Authorization.token, opts) \in {200, 403},
         req.service = <<>> \/ route.entry \notin Combined
  PROVE  MayForbid
<1>1. UserFacts(Authorization.token, req)
  BY ProjectUserAccepted, HeadersTyped DEF UserFacts
<1> QED
  BY <1>1, UserKnown

\* A caller stays known.
LEMMA MayForbidKept ==
  ASSUME UNCHANGED <<route, req>>, MayForbid
  PROVE  MayForbid'
BY DEF MayForbid, KnownCaller

-----------------------------------------------------------------------------
(* The steps.                                                              *)

\* Before the first request there is nobody.
LEMMA InitInv == Init => Inv
<1> SUFFICES ASSUME Init PROVE Inv
  OBVIOUS
<1>1. /\ ctx.auth = Empty /\ ctx.principal = None /\ ctx.claims = None
      /\ ctx.tenant = Empty /\ ctx \in Contexts
  BY DEF Init, EmptyContext, Contexts
<1>2. Typed
  BY <1>1, ClockAssumption DEF Init, Typed, TypeOK, Stages
<1>3. Path /\ NobodyYet
  BY <1>1, EmptyIsNone DEF Init, Path, NobodyYet
<1>4. Verified /\ OnlyAdmissible /\ RoleShown /\ Answered
  BY DEF Init, Verified, OnlyAdmissible, RoleShown, Answered
<1> QED
  BY <1>2, <1>3, <1>4 DEF Inv

\* A refusal leaves nothing to show but that the context is no worse.
LEMMA RefuseInv ==
  ASSUME Inv, stage # "idle", NEW code \in {400, 401, 403}, Refuse(code),
         UNCHANGED <<now, route, req>>, ctx' \in Contexts,
         principal' \in Tokens \cup {None},
         ctx'.auth = "legacy_key" => req.service = <<>>,
         code = 403 => MayForbid
  PROVE  Inv'
<1>1. Typed'
  BY DEF Inv, Typed, TypeOK, Refuse, Stages
<1>2. Path'
  BY DEF Inv, Path, Refuse
<1>3. NobodyYet' /\ Verified' /\ OnlyAdmissible' /\ RoleShown'
  BY DEF Refuse, NobodyYet, Deciding, Verified, OnlyAdmissible, RoleShown
<1>4. Answered'
  BY MayForbidKept DEF Refuse, Answered
<1> QED
  BY <1>1, <1>2, <1>3, <1>4 DEF Inv

\* Going on with an admissible context, before any gate.
LEMMA ContinueInv ==
  ASSUME Inv, stage # "idle", NEW c \in Contexts, Admissible(c, route, req),
         Continue(c), UNCHANGED <<now, route, req>>,
         principal' \in Tokens \cup {None}, route.gate # "none" => MayForbid,
         stage # "refused"
  PROVE  Inv'
<1>1. stage' = IF route.gate = "none" THEN "handler" ELSE "require"
  BY DEF Continue
<1>2. ctx' = c /\ status' = status
  BY DEF Continue
<1>3. Typed'
  BY <1>1, <1>2 DEF Inv, Typed, TypeOK, Stages
<1>4. Path'
  BY <1>1, <1>2 DEF Inv, Path, Admissible
<1>5. NobodyYet' /\ Verified'
  BY <1>1 DEF NobodyYet, Deciding, Verified
<1>6. OnlyAdmissible'
  BY <1>2 DEF OnlyAdmissible
<1>7. RoleShown'
  BY <1>1 DEF RoleShown
<1>8. Answered'
  BY <1>1, <1>2, MayForbidKept DEF Inv, Answered
<1> QED
  BY <1>3, <1>4, <1>5, <1>6, <1>7, <1>8 DEF Inv

\* The system branch of Authenticate.
LEMMA SystemContextAdmissible ==
  ASSUME Inv, req \in Requests, route \in Routes, route.entry \in Combined,
         NEW t \in Tokens, ServiceFacts(t, route, req),
         t.tenantScope = "system", SystemStatus = 200
  PROVE  SystemContext(t) \in Contexts /\ Admissible(SystemContext(t), route, req)
<1> DEFINE c == SystemContext(t)
<1>1. /\ c.auth \in {Empty, "token"} /\ c.principal = t /\ c.claims = None
      /\ c.tenant = SystemTenant
  BY DEF SystemContext, AuthKey
<1>2. route.system = "global" \/ route.system = "perTenant"
  BY DEF SystemStatus
<1>3. SystemTenant \in Tenants \cup {Empty}
  BY HeadersTyped, TenantAssumption DEF SystemTenant
<1>4. c \in Contexts
  BY <1>3 DEF SystemContext, Contexts, AuthKey
<1>5. SystemTenant # Empty =>
        /\ route.system = "perTenant"
        /\ req.tenant # <<>>
        /\ CanonicalUUID[req.tenant[1]] = SystemTenant
  BY HeadersTyped, TenantAssumption DEF SystemTenant
<1>6. SystemAdmitted(c, route, req)
  BY <1>1, <1>2, <1>5 DEF SystemAdmitted
<1> QED
  BY <1>1, <1>4, <1>6, EmptyIsNone, TokenAssumption DEF Admissible

\* A request with X-Service-Token, in either adapter.
LEMMA WithServiceHeaderInv ==
  ASSUME Inv, stage \in Combined, WithServiceHeader, UNCHANGED <<now, route, req>>
  PROVE  Inv'
<1>t. /\ stage \notin {"idle", "refused"} /\ req \in Requests /\ route \in Routes
      /\ ctx \in Contexts /\ principal \in Tokens \cup {None}
      /\ route.entry \in Combined /\ route.entry = stage
      /\ ctx.auth = "legacy_key" => req.service = <<>>
  BY DEF Inv, Typed, TypeOK, Path, Combined
<1>1. CASE HeaderStatus # 200
  <2>1. HeaderStatus \in {400, 401, 403}
    BY <1>1 DEF HeaderStatus
  <2>2. Refuse(HeaderStatus) /\ UNCHANGED <<principal, ctx>>
    BY <1>1 DEF WithServiceHeader
  <2>3. HeaderStatus = 403 => MayForbid
    <3>1. req.tenant \in Seq(TenantHeaders)
      BY <1>t, RequestAssumption
    <3>2. ~SingleHeader(req.tenant) => Len(req.tenant) > 1
      BY <3>1 DEF SingleHeader
    <3>3. Len(req.service) = 1 => req.service # <<>>
      OBVIOUS
    <3> QED
      BY <3>2, <3>3 DEF HeaderStatus, MayForbid
  <2> QED
    BY <1>t, <2>1, <2>2, <2>3, RefuseInv
<1>2. CASE HeaderStatus = 200
  <2>1. Len(req.service) = 1 /\ SingleHeader(req.tenant)
    BY <1>2 DEF HeaderStatus
  <2>2. PICK t \in Tokens : t = req.service[1] /\ req.service = <<t>>
    BY <1>t, <2>1, OneValue
  <2>3. Authenticate(t)
    BY <1>2, <2>2 DEF WithServiceHeader
  <2>4. CASE ServiceStatus(t) # 200
    <3>1. ServiceStatus(t) \in {400, 401, 403}
      BY <2>4 DEF ServiceStatus, Verify
    <3>2. Refuse(ServiceStatus(t)) /\ UNCHANGED <<principal, ctx>>
      BY <2>3, <2>4 DEF Authenticate
    <3>3. ServiceStatus(t) = 403 => Credential(t, route)
      BY DEF ServiceStatus, Verify
    <3>4. ServiceStatus(t) = 403 => MayForbid
      BY <2>2, <3>3, SignedByIam, ServiceKnown DEF Credential
    <3> QED
      BY <1>t, <3>1, <3>2, <3>4, RefuseInv
  <2>5. CASE ServiceStatus(t) = 200
    <3>1. ServiceFacts(t, route, req)
      BY <2>1, <2>2, <2>5, ServiceAccepted DEF ServiceFacts
    <3>2. principal' = t
      BY <2>3, <2>5 DEF Authenticate
    <3>k. MayForbid
      BY <3>1, ServiceKnown DEF ServiceFacts
    <3>3. CASE t.tenantScope = "user" /\ stage' = "user" /\ UNCHANGED <<ctx, status>>
      <4>1. Typed'
        BY <3>2, <3>3, <1>t DEF Inv, Typed, TypeOK, Stages
      <4>2. Path'
        BY <3>3, <1>t DEF Path, Inv
      <4>3. NobodyYet'
        BY <3>3, <1>t DEF NobodyYet, Inv, Deciding, Combined
      <4>4. Verified'
        BY <3>1, <3>2, <3>3 DEF Verified
      <4>5. OnlyAdmissible' /\ RoleShown' /\ Answered'
        BY <3>3, <1>t DEF Inv, OnlyAdmissible, RoleShown, Answered
      <4> QED
        BY <4>1, <4>2, <4>3, <4>4, <4>5 DEF Inv
    <3>4. CASE SystemStatus # 200 /\ Refuse(SystemStatus) /\ UNCHANGED ctx
      <4>1. SystemStatus \in {400, 401, 403}
        BY <3>4 DEF SystemStatus
      <4> QED
        BY <1>t, <3>2, <3>k, <3>4, <4>1, RefuseInv
    <3>5. CASE t.tenantScope = "system" /\ SystemStatus = 200 /\ Continue(SystemContext(t))
      BY <1>t, <3>1, <3>2, <3>k, <3>5, SystemContextAdmissible, ContinueInv
    <3> QED
      BY <2>3, <2>5, <3>3, <3>4, <3>5 DEF Authenticate
  <2> QED
    BY <2>4, <2>5
<1> QED
  BY <1>1, <1>2

\* The adapters (s2sauth.Middleware, s2shttp.Middleware).
LEMMA AdaptersInv ==
  ASSUME Inv, GinMiddleware \/ HttpMiddleware
  PROVE  Inv'
<1>t. ctx \in Contexts /\ principal \in Tokens \cup {None} /\ now' = now
  BY DEF Inv, Typed, TypeOK, GinMiddleware, HttpMiddleware
<1>1. CASE WithServiceHeader
  BY <1>1, WithServiceHeaderInv DEF GinMiddleware, HttpMiddleware, Combined
<1>2. CASE GinMiddleware /\ ~WithServiceHeader
  <2>1. /\ stage = "gin" /\ req.service = <<>>
        /\ UNCHANGED <<now, route, req, principal>>
        /\ ctx' = [ctx EXCEPT !.auth = "legacy_key"]
        /\ \/ route.legacy /\ stage' = "legacy" /\ UNCHANGED status
           \/ ~route.legacy /\ Refuse(401)
    BY <1>2 DEF GinMiddleware, NoServiceHeader
  <2>2. /\ ctx' \in Contexts /\ ctx'.principal = ctx.principal
        /\ ctx'.claims = ctx.claims /\ ctx'.tenant = ctx.tenant
    BY <1>t, <2>1 DEF Contexts
  <2>3. route.entry = "gin" /\ req \in Requests /\ route \in Routes
    BY <2>1 DEF Inv, Path, Typed
  <2>4. CASE Refuse(401)
    BY <1>t, <2>1, <2>2, <2>4, RefuseInv
  <2>5. CASE stage' = "legacy" /\ UNCHANGED status
    <3>1. Typed'
      BY <2>1, <2>2, <2>5, <1>t DEF Inv, Typed, TypeOK, Stages
    <3>2. Path'
      BY <2>1, <2>3, <2>5 DEF Inv, Path
    <3>3. NobodyYet'
      BY <2>1, <2>2, <2>5 DEF NobodyYet, Inv, Deciding
    <3>4. Verified' /\ OnlyAdmissible' /\ RoleShown' /\ Answered'
      BY <2>1, <2>5 DEF Inv, Verified, OnlyAdmissible, RoleShown, Answered
    <3> QED
      BY <3>1, <3>2, <3>3, <3>4 DEF Inv
  <2> QED
    BY <2>1, <2>4, <2>5
<1>3. CASE HttpMiddleware /\ ~WithServiceHeader
  <2>1. /\ stage = "http" /\ req.service = <<>>
        /\ UNCHANGED <<now, route, req, principal, ctx>>
        /\ \/ route.legacy /\ stage' = "chi" /\ UNCHANGED status
           \/ ~route.legacy /\ Refuse(401)
    BY <1>3 DEF HttpMiddleware, NoServiceHeader
  <2>2. route.entry = "http" /\ req \in Requests /\ route \in Routes
    BY <2>1 DEF Inv, Path, Typed
  <2>3. CASE Refuse(401)
    BY <1>t, <2>1, <2>3, RefuseInv
  <2>4. CASE stage' = "chi" /\ UNCHANGED status
    <3>1. Typed'
      BY <2>1, <2>2, <2>4, <1>t DEF Inv, Typed, TypeOK, Stages
    <3>2. Path' /\ NobodyYet'
      BY <2>1, <2>2, <2>4 DEF Path, NobodyYet, Inv, Deciding
    <3>3. Verified' /\ OnlyAdmissible' /\ RoleShown' /\ Answered'
      BY <2>1, <2>4 DEF Inv, Verified, OnlyAdmissible, RoleShown, Answered
    <3> QED
      BY <3>1, <3>2, <3>3 DEF Inv
  <2> QED
    BY <2>1, <2>3, <2>4
<1> QED
  BY <1>1, <1>2, <1>3

\* The Bearer behind a user-scoped service token (authenticateUser).
LEMMA AuthenticateUserInv ==
  ASSUME Inv, AuthenticateUser
  PROVE  Inv'
<1> DEFINE user == Authorization.token
<1>t. /\ stage = "user" /\ req \in Requests /\ route \in Routes
      /\ ctx \in Contexts /\ principal \in Tokens /\ route.entry \in Combined
      /\ ServiceFacts(principal, route, req) /\ principal.tenantScope = "user"
      /\ ctx.auth = "legacy_key" => req.service = <<>>
      /\ UNCHANGED <<now, route, req, principal>>
  BY DEF Inv, Typed, TypeOK, Path, Verified, AuthenticateUser
<1>k. MayForbid
  BY <1>t, ServiceKnown DEF ServiceFacts
<1>1. CASE UserStatus # 200
  <2>1. UserStatus \in {400, 401, 403}
    BY <1>1 DEF UserStatus
  <2>2. Refuse(UserStatus) /\ UNCHANGED ctx
    BY <1>1 DEF AuthenticateUser
  <2> QED
    BY <1>t, <1>k, <2>1, <2>2, RefuseInv
<1>2. CASE UserStatus = 200
  <2>1. Continue(UserContext)
    BY <1>2 DEF AuthenticateUser
  <2>2. user \in Tokens /\ user.tenant \in Tenants
    BY <1>2, <1>t, UserAccepted, HeadersTyped, TokenAssumption
  <2>3. UserFacts(user, req)
    BY <1>2, <1>t, UserAccepted, HeadersTyped DEF UserFacts
  <2>4. UserContext \in Contexts
    BY <1>t, <2>2 DEF UserContext, AuthKey, Contexts
  <2>5. /\ UserContext.auth \in {Empty, "token"}
        /\ UserContext.principal = principal /\ UserContext.claims = user
        /\ UserContext.tenant = user.tenant /\ UserContext.roles = user.roles
    BY DEF UserContext, AuthKey
  <2>6. UserAdmitted(UserContext, route, req)
    BY <1>t, <1>2, <2>3, <2>5, UserAccepted DEF UserAdmitted, Combined
  <2>7. req.tenant # <<>> => req.tenant[1] \in {Empty, user.tenant}
    BY <1>2, <1>t, UserAccepted, HeadersTyped
  <2>8. PairAdmitted(UserContext, route, req)
    BY <1>t, <1>2, <2>2, <2>5, <2>6, <2>7, UserAccepted, TokenAssumption DEF PairAdmitted
  <2>9. Admissible(UserContext, route, req)
    BY <1>t, <2>5, <2>8, EmptyIsNone, TokenAssumption DEF Admissible
  <2> QED
    BY <1>t, <1>k, <2>1, <2>4, <2>9, ContinueInv
<1> QED
  BY <1>1, <1>2

\* With nobody in it the context is admissible wherever the legacy credential
\* decides.
LEMMA NobodyAdmissible ==
  ASSUME Inv, stage \in {"legacy", "chi", "platform"}
  PROVE  Admissible(ctx, route, req)
BY DEF Inv, Path, NobodyYet, Deciding, Combined, Admissible, AloneAdmitted

\* The verifier behind the net/http adapter (s2shttp.Middleware).
LEMMA LegacyHttpHandlerInv ==
  ASSUME Inv, LegacyHttpHandler
  PROVE  Inv'
<1>t. /\ stage = "chi" /\ ctx \in Contexts /\ principal \in Tokens \cup {None}
      /\ ctx.auth = "legacy_key" => req.service = <<>>
      /\ route.gate = "none"
      /\ UNCHANGED <<now, route, req, principal>>
  BY DEF Inv, Typed, TypeOK, Path, LegacyHttpHandler
<1>1. CASE Refuse(401) /\ UNCHANGED ctx
  BY <1>t, <1>1, RefuseInv
<1>2. CASE Continue(ctx)
  BY <1>t, <1>2, NobodyAdmissible, ContinueInv
<1> QED
  BY <1>1, <1>2 DEF LegacyHttpHandler

\* TenantValidation, the bypass and excluded routes included.
LEMMA TenantValidationInv ==
  ASSUME Inv, TenantValidation
  PROVE  Inv'
<1> DEFINE user == Authorization.token
<1>t. /\ stage = "legacy" /\ req \in Requests /\ route \in Routes
      /\ ctx \in Contexts /\ principal \in Tokens \cup {None}
      /\ ctx.auth = "legacy_key" => req.service = <<>>
      /\ UNCHANGED <<now, route, req, principal>>
  BY DEF Inv, Typed, TypeOK, Path, TenantValidation
<1>n. ctx.principal = None
  BY <1>t DEF Inv, NobodyYet, Deciding
<1>e. route.entry # "platform" /\ (route.entry \in Combined => req.service = <<>>)
  BY <1>t DEF Inv, Path, Combined
<1>k. TenantStatus \in {200, 403} => MayForbid
  <2>1. TenantStatus \in {200, 403} => UserOfProject(user, {}) \in {200, 403}
    BY DEF TenantStatus, UserOfProject
  <2> QED
    BY <1>t, <1>e, <2>1, ProjectUserKnown DEF Combined
<1>1. CASE Excluded /\ Continue(ctx)
  <2>1. route.gate # "none" => MayForbid
    BY <1>1 DEF Excluded, MayForbid
  <2> QED
    BY <1>t, <1>1, <2>1, NobodyAdmissible, ContinueInv
<1>2. CASE TenantStatus # 200 /\ Refuse(TenantStatus) /\ UNCHANGED ctx
  <2>1. TenantStatus \in {400, 401, 403}
    BY <1>2 DEF TenantStatus, UserOfProject
  <2> QED
    BY <1>t, <1>k, <1>2, <2>1, RefuseInv
<1>3. CASE TenantStatus = 200 /\ Continue(TenantContext(user))
  <2>1. CASE user.tenant = Empty
    <3>1. TenantContext(user) = ctx
      BY <2>1 DEF TenantContext
    <3> QED
      BY <1>t, <1>k, <1>3, <3>1, NobodyAdmissible, ContinueInv
  <2>2. CASE user.tenant # Empty
    <3> DEFINE c == TenantContext(user)
    <3>1. user \in Tokens /\ user.tenant \in Tenants
      BY <2>2, <1>t, HeadersTyped, TokenAssumption
    <3>2. /\ c \in Contexts /\ c.auth = ctx.auth /\ c.principal = None
          /\ c.claims = user /\ c.tenant = user.tenant /\ c.roles = user.roles
      BY <2>2, <3>1, <1>t, <1>n DEF TenantContext, Contexts
    <3>3. UserFacts(user, req)
      BY <1>3, <1>t, TenantAccepted, ProjectUserAccepted, HeadersTyped DEF UserFacts
    <3>4. UserAdmitted(c, route, req)
      BY <1>e, <2>2, <3>2, <3>3 DEF UserAdmitted
    <3>5. req.tenant # <<>> /\ req.tenant[1] = user.tenant
      BY <1>3, <1>t, <2>2, TenantAccepted, HeadersTyped
    <3>6. AloneAdmitted(c, route, req)
      BY <1>e, <3>1, <3>2, <3>4, <3>5, TokenAssumption DEF AloneAdmitted
    <3>7. Admissible(c, route, req)
      BY <1>t, <3>2, <3>6 DEF Admissible
    <3> QED
      BY <1>t, <1>k, <1>3, <3>2, <3>7, ContinueInv
  <2> QED
    BY <2>1, <2>2
<1> QED
  BY <1>1, <1>2, <1>3 DEF TenantValidation

\* VerifyPlatformJWT: a user without tenant.
LEMMA VerifyPlatformJWTInv ==
  ASSUME Inv, VerifyPlatformJWT
  PROVE  Inv'
<1> DEFINE user == Authorization.token
           c == [ctx EXCEPT !.claims = user, !.roles = user.roles]
<1>t. /\ stage = "platform" /\ req \in Requests /\ route.entry = "platform"
      /\ ctx \in Contexts /\ principal \in Tokens \cup {None}
      /\ ctx.auth = "legacy_key" => req.service = <<>>
      /\ UNCHANGED <<now, route, req, principal>>
  BY DEF Inv, Typed, TypeOK, Path, VerifyPlatformJWT
<1>n. ctx.principal = None /\ ctx.tenant = Empty
  BY <1>t DEF Inv, NobodyYet, Deciding
<1>k. PlatformStatus \in {200, 403} => MayForbid
  BY <1>t, ProjectUserKnown DEF PlatformStatus, Combined
<1>1. CASE PlatformStatus # 200 /\ Refuse(PlatformStatus) /\ UNCHANGED ctx
  <2>1. PlatformStatus \in {400, 401, 403}
    BY <1>1 DEF PlatformStatus, UserOfProject
  <2> QED
    BY <1>t, <1>k, <1>1, <2>1, RefuseInv
<1>2. CASE PlatformStatus = 200 /\ Continue(c)
  <2>1. user \in Tokens
    BY <1>t, HeadersTyped
  <2>2. /\ c \in Contexts /\ c.auth = ctx.auth /\ c.principal = None
        /\ c.claims = user /\ c.tenant = Empty /\ c.roles = user.roles
    BY <2>1, <1>t, <1>n DEF Contexts
  <2>3. UserFacts(user, req)
    BY <1>2, <1>t, ProjectUserAccepted, HeadersTyped DEF PlatformStatus, UserFacts
  <2>4. UserAdmitted(c, route, req)
    BY <1>t, <2>2, <2>3 DEF UserAdmitted
  <2>5. AloneAdmitted(c, route, req)
    BY <1>t, <2>1, <2>2, <2>4, TokenAssumption DEF AloneAdmitted, Combined
  <2>6. Admissible(c, route, req)
    BY <1>t, <2>2, <2>5 DEF Admissible
  <2> QED
    BY <1>t, <1>k, <1>2, <2>2, <2>6, ContinueInv
<1> QED
  BY <1>1, <1>2 DEF VerifyPlatformJWT

\* The gates leave the context alone (RequireRole, RequirePermission).
LEMMA GatesInv ==
  ASSUME Inv, RequireRole \/ RequirePermission
  PROVE  Inv'
<1>t. /\ stage = "require" /\ route \in Routes /\ req \in Requests
      /\ ctx \in Contexts /\ principal \in Tokens \cup {None}
      /\ Admissible(ctx, route, req) /\ MayForbid
      /\ UNCHANGED <<now, route, req, principal, ctx>>
      /\ \/ stage' = "handler" /\ UNCHANGED status
         \/ Refuse(403)
  BY DEF Inv, Typed, TypeOK, OnlyAdmissible, Answered, RequireRole, RequirePermission,
         Gate
<1>1. CASE Refuse(403)
  BY <1>t, <1>1, RefuseInv DEF Admissible
<1>2. CASE stage' = "handler" /\ UNCHANGED status
  <2>1. Typed'
    BY <1>t, <1>2 DEF Inv, Typed, TypeOK, Stages
  <2>2. Path' /\ NobodyYet' /\ Verified'
    BY <1>t, <1>2 DEF Inv, Path, NobodyYet, Deciding, Verified, Admissible
  <2>3. OnlyAdmissible'
    BY <1>t, <1>2 DEF OnlyAdmissible
  <2>4. RoleShown'
    <3>1. CASE route.gate = "role"
      <4>1. RolesFromContext \cap route.allowed # {}
        BY <1>2, <3>1 DEF RequireRole, RequirePermission, Gate, Refuse
      <4> QED
        BY <4>1, <1>t DEF RolesFromContext, RoleShown
    <3>2. CASE route.gate # "role"
      BY <3>2, <1>t DEF RoleShown
    <3> QED
      BY <3>1, <3>2
  <2>5. Answered'
    BY <1>t, <1>2 DEF Inv, Answered
  <2> QED
    BY <2>1, <2>2, <2>3, <2>4, <2>5 DEF Inv
<1> QED
  BY <1>t, <1>1, <1>2

\* A request starts at the entry of its route, with an empty context.
LEMMA ArriveInv ==
  ASSUME Inv, stage = "idle", NEW r \in Routes, NEW q \in Requests, Arrive(r, q)
  PROVE  Inv'
<1>1. /\ r.entry \in {"gin", "http", "legacy", "platform"}
      /\ stage' = r.entry /\ route' = r /\ req' = q
      /\ r.entry = "http" => r.gate = "none"
      /\ UNCHANGED <<now, principal, ctx, status>>
  BY RouteAssumption DEF Arrive, Mounted
<1>2. Typed'
  BY <1>1 DEF Inv, Typed, TypeOK, Stages
<1>3. Path' /\ NobodyYet'
  BY <1>1 DEF Inv, Path, NobodyYet, Deciding
<1>4. Verified' /\ OnlyAdmissible' /\ RoleShown' /\ Answered'
  BY <1>1 DEF Inv, Verified, OnlyAdmissible, RoleShown, Answered
<1> QED
  BY <1>2, <1>3, <1>4 DEF Inv

\* Nothing of a request survives its answer.
LEMMA RespondInv ==
  ASSUME Inv, Respond
  PROVE  Inv'
<1>1. /\ ctx'.auth = Empty /\ ctx'.principal = None /\ ctx'.claims = None
      /\ ctx'.tenant = Empty /\ ctx' \in Contexts
  BY DEF Respond, EmptyContext, Contexts
<1>2. Typed'
  BY <1>1 DEF Respond, Inv, Typed, TypeOK, Stages
<1>3. Path' /\ NobodyYet'
  BY <1>1, EmptyIsNone DEF Respond, Path, NobodyYet
<1>4. Verified' /\ OnlyAdmissible' /\ RoleShown' /\ Answered'
  BY DEF Respond, Verified, OnlyAdmissible, RoleShown, Answered
<1> QED
  BY <1>2, <1>3, <1>4 DEF Inv

\* Admission is decided once: the clock takes nothing back.
LEMMA TickInv ==
  ASSUME Inv, Tick \/ UNCHANGED vars
  PROVE  Inv'
<1>1. UNCHANGED <<stage, route, req, principal, ctx, status>>
  BY DEF Tick, vars
<1>2. now' \in 0 .. MaxTime
  BY ClockAssumption DEF Inv, Typed, TypeOK, Tick, vars
<1>3. Typed' /\ Path' /\ NobodyYet'
  BY <1>1, <1>2 DEF Inv, Typed, TypeOK, Path, NobodyYet
<1>4. Verified' /\ OnlyAdmissible' /\ RoleShown' /\ Answered'
  BY <1>1, MayForbidKept DEF Inv, Verified, OnlyAdmissible, RoleShown, Answered
<1> QED
  BY <1>3, <1>4 DEF Inv

\* Every step keeps the invariant.
LEMMA NextInv == Inv /\ [Next]_vars => Inv'
<1> SUFFICES ASSUME Inv, [Next]_vars PROVE Inv'
  OBVIOUS
<1> QED
  BY AdaptersInv, AuthenticateUserInv, LegacyHttpHandlerInv, TenantValidationInv,
     VerifyPlatformJWTInv, GatesInv, ArriveInv, RespondInv, TickInv
     DEF Next, Step

-----------------------------------------------------------------------------
\* What each stage and each accepted credential guarantees, at every moment.
THEOREM Invariant == Spec => []Inv
<1> QED
  BY InitInv, NextInv, PTL DEF Spec

\* Every variable keeps its type, and tenants in the context are canonical.
THEOREM TypeCorrect == Spec => []TypeOK
<1>1. Inv => TypeOK
  BY DEF Inv, Typed
<1> QED
  BY <1>1, Invariant, PTL

\* A request with X-Service-Token never falls back on the legacy credential
\* (s2sauth.Middleware, s2shttp.Middleware).
THEOREM NoDowngradeHolds == Spec => []NoDowngrade
<1>1. Inv => NoDowngrade
  <2> SUFFICES ASSUME Inv, stage # "idle", route.entry \in Combined, req.service # <<>>
               PROVE  /\ stage \notin {"legacy", "chi"}
                      /\ ctx.auth # "legacy_key"
                      /\ Served => req.service = <<ctx.principal>>
    BY DEF NoDowngrade, Combined
  <2>1. stage \notin {"legacy", "chi"} /\ ctx.auth # "legacy_key"
    BY DEF Inv, Path, Combined
  <2>2. Served => req.service = <<ctx.principal>>
    BY DEF Inv, Served, OnlyAdmissible, Admissible, SystemAdmitted, PairAdmitted,
           AloneAdmitted, ServiceFacts
  <2> QED
    BY <2>1, <2>2
<1> QED
  BY <1>1, Invariant, PTL

\* A tenant in the context of a handler is one iam stands for, and what the
\* request says of its tenant does not contradict it.
THEOREM TenantIsAttestedHolds == Spec => []TenantIsAttested
<1>1. Inv => TenantIsAttested
  <2> SUFFICES ASSUME Inv, Served, ctx.tenant # Empty PROVE TenantIsAttested
    BY DEF TenantIsAttested
  <2> DEFINE Agrees == \A i \in DOMAIN req.tenant :
                         \/ req.tenant[i] = Empty /\ ctx.principal # None
                         \/ CanonicalUUID[req.tenant[i]] = ctx.tenant
                         \/ ctx.principal = None /\ i > 1
  <2>0. Admissible(ctx, route, req)
    BY DEF Inv, Served, OnlyAdmissible
  <2>1. req.tenant \in Seq(TenantHeaders) /\ ctx.tenant \in Tenants
    BY RequestAssumption DEF Inv, Typed, TypeOK, Contexts, Served
  <2>2. req.tenant # <<>> => 1 \in DOMAIN req.tenant /\ req.tenant[1] \in TenantHeaders
    BY <2>1, FirstValue
  <2>3. SingleHeader(req.tenant) => \A i \in DOMAIN req.tenant : i = 1 /\ req.tenant # <<>>
    BY <2>1 DEF SingleHeader
  <2>4. CASE ctx.principal # None /\ SystemAdmitted(ctx, route, req)
    <3>1. Agrees
      BY <2>3, <2>4 DEF SystemAdmitted, ServiceFacts
    <3> QED
      BY <2>4, <3>1 DEF SystemAdmitted, ServiceFacts, TenantIsAttested
  <2>5. CASE ctx.principal # None /\ PairAdmitted(ctx, route, req)
    <3>1. Agrees
      BY <2>1, <2>2, <2>3, <2>5, TenantAssumption DEF PairAdmitted, ServiceFacts
    <3>2. UserFacts(ctx.claims, req) /\ ctx.claims # None /\ ctx.claims.tenant = ctx.tenant
      BY <2>5 DEF PairAdmitted, UserAdmitted
    <3> QED
      BY <3>1, <3>2 DEF TenantIsAttested, UserFacts
  <2>6. CASE AloneAdmitted(ctx, route, req)
    <3>1. /\ ctx.principal = None /\ ctx.claims # None /\ UserAdmitted(ctx, route, req)
          /\ req.tenant # <<>> /\ req.tenant[1] = ctx.tenant
      BY <2>6 DEF AloneAdmitted
    <3>2. CanonicalUUID[req.tenant[1]] = ctx.tenant
      BY <2>1, <2>2, <3>1, TenantAssumption
    <3>3. \A i \in DOMAIN req.tenant : i = 1 \/ i > 1
      BY <2>1
    <3>4. Agrees
      BY <3>1, <3>2, <3>3
    <3>5. UserFacts(ctx.claims, req) /\ ctx.claims.tenant = ctx.tenant
      BY <3>1 DEF UserAdmitted
    <3> QED
      BY <3>1, <3>4, <3>5 DEF TenantIsAttested, UserFacts
  <2> QED
    BY <2>0, <2>4, <2>5, <2>6 DEF Admissible
<1> QED
  BY <1>1, Invariant, PTL

\* RequireRole opens only for a user iam signed who has the role, together
\* with the tenant of that user.
THEOREM AuthorizedRoleHolds == Spec => []AuthorizedRole
<1>1. Inv => AuthorizedRole
  <2> SUFFICES ASSUME Inv, Served, route.gate = "role"
               PROVE  /\ ctx.claims # None
                      /\ IssuedByIam(ctx.claims)
                      /\ ctx.claims.roles \cap route.allowed # {}
                      /\ route.entry # "platform" =>
                           ctx.tenant = ctx.claims.tenant /\ ctx.tenant # Empty
    BY DEF AuthorizedRole
  <2>1. ctx.claims # None /\ ctx.roles \cap route.allowed # {}
    BY DEF Inv, Served, RoleShown
  <2>2. UserAdmitted(ctx, route, req)
    BY <2>1 DEF Inv, Served, OnlyAdmissible, Admissible, SystemAdmitted, PairAdmitted,
                AloneAdmitted
  <2> QED
    BY <2>1, <2>2 DEF UserAdmitted, UserFacts
<1> QED
  BY <1>1, Invariant, PTL

\* Service tokens work only as such and only where they may.
THEOREM ServiceTokenInItsPlaceHolds == Spec => []ServiceTokenInItsPlace
<1>1. Inv => ServiceTokenInItsPlace
  <2> SUFFICES ASSUME Inv, Served PROVE ServiceTokenInItsPlace
    BY DEF ServiceTokenInItsPlace
  <2>0. Admissible(ctx, route, req)
    BY DEF Inv, Served, OnlyAdmissible
  <2>1. ctx.claims # None => ctx.claims.use # "service"
    BY <2>0, EmptyIsNone DEF Admissible, SystemAdmitted, PairAdmitted, AloneAdmitted,
                             UserAdmitted, UserFacts
  <2>2. CASE ctx.principal = None
    BY <2>1, <2>2 DEF ServiceTokenInItsPlace
  <2>3. CASE ctx.principal # None
    <3>1. SystemAdmitted(ctx, route, req) \/ PairAdmitted(ctx, route, req)
      BY <2>0, <2>3 DEF Admissible, AloneAdmitted
    <3>2. ServiceFacts(ctx.principal, route, req)
      BY <3>1 DEF SystemAdmitted, PairAdmitted
    <3> QED
      BY <2>1, <3>1, <3>2 DEF ServiceTokenInItsPlace, SystemAdmitted, PairAdmitted,
                              ServiceFacts
  <2> QED
    BY <2>2, <2>3
<1> QED
  BY <1>1, Invariant, PTL

\* 403 is told to callers whose credential was found good, but for the two
\* cases the property names (s2stoken.Verify, receiver.Authenticate).
THEOREM ForbiddenOnlyToTheKnownHolds == Spec => []ForbiddenOnlyToTheKnown
<1>1. Inv => ForbiddenOnlyToTheKnown
  BY DEF Inv, Answered, MayForbid, ForbiddenOnlyToTheKnown
<1> QED
  BY <1>1, Invariant, PTL

-----------------------------------------------------------------------------
(* The time of the credentials.                                            *)

\* The first half of CredentialsInTheirTime.
ServiceTimely ==
  principal = None /\ principal' # None => ServiceTokenInTime(principal')

\* The second half.
UserTimely ==
  ctx.claims = None /\ ctx'.claims # None => UserTokenInTime(ctx'.claims)

\* A service token is a credential in its time only: its exp is compared with
\* the clock, and its iat with both (s2stoken.Verify).
LEMMA CredentialInTime ==
  ASSUME NEW t \in Tokens, NEW r, now \in Nat, Credential(t, r)
  PROVE  ServiceTokenInTime(t)
<1>1. /\ Unexpired(t, Leeway, {"ExpirationRequired"})
      /\ Started(t.iat, Leeway)
      /\ Lifetime(t)
  BY DEF Credential
<1>2. t.exp # None /\ t.iat # None
  BY <1>1 DEF Unexpired, Lifetime
<1>3. t.exp \in Nat /\ t.iat \in Nat
  BY <1>2, TokenAssumption
<1>4. /\ now < t.exp + Leeway
      /\ t.iat - Leeway =< now
      /\ t.exp - t.iat =< TTL
  BY <1>1, <1>2 DEF Unexpired, Started, Lifetime
<1> QED
  BY <1>3, <1>4, ClockAssumption DEF ServiceTokenInTime

\* The same of the tokens of users, by each of their verifiers.
LEMMA ParsedUserInTime ==
  ASSUME NEW t \in Tokens, ParseUser(t)
  PROVE  UserTokenInTime(t)
BY DEF ParseUser, Unexpired, UserTokenInTime

LEMMA DualUserInTime ==
  ASSUME NEW t \in Tokens, NEW opts, now \in Nat, ParseDual(t, opts),
         t.exp = None => route.entry \in {"legacy", "gin"} /\ principal = None
  PROVE  UserTokenInTime(t)
<1>1. Unexpired(t, 0, opts)
  BY DEF ParseDual
<1>2. CASE t.exp = None
  BY <1>2 DEF UserTokenInTime
<1>3. CASE t.exp # None
  <2>1. t.exp \in Nat
    BY <1>3, TokenAssumption
  <2>2. now < t.exp + 0
    BY <1>1, <1>3 DEF Unexpired
  <2>3. now < t.exp + Leeway
    BY <2>1, <2>2, ClockAssumption
  <2> QED
    BY <1>3, <2>3 DEF UserTokenInTime
<1> QED
  BY <1>2, <1>3

\* Only Authenticate lets a service token in.
LEMMA ServiceTimelyStep ==
  ASSUME Inv, [Next]_vars
  PROVE  ServiceTimely
<1> SUFFICES ASSUME principal = None, principal' # None
             PROVE  ServiceTokenInTime(principal')
  BY DEF ServiceTimely
<1>1. WithServiceHeader
  BY DEF Next, Step, GinMiddleware, HttpMiddleware, AuthenticateUser, LegacyHttpHandler,
         TenantValidation, VerifyPlatformJWT, RequireRole, RequirePermission, Gate,
         Respond, Tick, Arrive, vars
<1>2. stage # "idle"
  BY DEF Next, Step, GinMiddleware, HttpMiddleware, AuthenticateUser, LegacyHttpHandler,
         TenantValidation, VerifyPlatformJWT, RequireRole, RequirePermission, Gate,
         Respond, Tick, Arrive, vars
<1>3. /\ HeaderStatus = 200
      /\ ServiceStatus(req.service[1]) = 200
      /\ principal' = req.service[1]
  BY <1>1 DEF WithServiceHeader, Authenticate
<1>4. Credential(req.service[1], route)
  BY <1>3 DEF ServiceStatus, Verify
<1>5. req.service[1] \in Tokens
  BY <1>2, <1>3, OneValue DEF Inv, Typed, HeaderStatus
<1>6. now \in Nat
  BY ClockAssumption DEF Inv, Typed, TypeOK
<1> QED
  BY <1>3, <1>4, <1>5, <1>6, CredentialInTime

\* Three middlewares let a user in (authenticateUser, TenantValidation,
\* VerifyPlatformJWT).
LEMMA UserTimelyStep ==
  ASSUME Inv, [Next]_vars
  PROVE  UserTimely
<1> DEFINE user == Authorization.token
<1> SUFFICES ASSUME ctx.claims = None, ctx'.claims # None
             PROVE  UserTokenInTime(ctx'.claims)
  BY DEF UserTimely
<1>t. now \in Nat /\ ctx \in Contexts
  BY ClockAssumption DEF Inv, Typed, TypeOK
<1>u. stage # "idle" => user \in Tokens
  BY HeadersTyped DEF Inv, Typed
<1>1. CASE AuthenticateUser
  <2>1. UserStatus = 200 /\ ctx' = UserContext
    BY <1>1 DEF AuthenticateUser, Continue
  <2>2. ParseUser(user)
    BY <2>1 DEF UserStatus
  <2>3. ctx'.claims = user
    BY <2>1 DEF UserContext
  <2> QED
    BY <1>1, <1>u, <2>2, <2>3, ParsedUserInTime DEF AuthenticateUser
<1>2. CASE TenantValidation
  <2>1. TenantStatus = 200 /\ ctx' = TenantContext(user)
    BY <1>2 DEF TenantValidation, Continue
  <2>2. ctx'.claims = user
    BY <1>t, <2>1 DEF TenantContext, Contexts
  <2>3. ParseDual(user, {})
    BY <2>1 DEF TenantStatus, UserOfProject
  <2>4. route.entry \in {"legacy", "gin"} /\ principal = None
    BY <1>2 DEF TenantValidation, Inv, Path, NobodyYet, Deciding
  <2> QED
    BY <1>2, <1>t, <1>u, <2>2, <2>3, <2>4, DualUserInTime DEF TenantValidation
<1>3. CASE VerifyPlatformJWT
  <2>1. /\ PlatformStatus = 200
        /\ ctx' = [ctx EXCEPT !.claims = user, !.roles = user.roles]
    BY <1>3 DEF VerifyPlatformJWT, Continue
  <2>2. ctx'.claims = user
    BY <1>t, <2>1 DEF Contexts
  <2>3. ParseDual(user, {"ExpirationRequired"})
    BY <2>1 DEF PlatformStatus, UserOfProject
  <2>4. user.exp # None
    BY <2>3 DEF ParseDual, Unexpired
  <2> QED
    BY <1>3, <1>t, <1>u, <2>2, <2>3, <2>4, DualUserInTime DEF VerifyPlatformJWT
<1>4. CASE WithServiceHeader
  BY <1>4 DEF WithServiceHeader, Refuse, Authenticate, Continue, SystemContext
<1>5. CASE /\ GinMiddleware \/ HttpMiddleware
           /\ ~WithServiceHeader
  BY <1>5, <1>t DEF GinMiddleware, HttpMiddleware, Contexts
<1>6. CASE \/ LegacyHttpHandler \/ RequireRole \/ RequirePermission
           \/ Respond \/ Tick \/ UNCHANGED vars
  BY <1>6 DEF LegacyHttpHandler, Continue, RequireRole, RequirePermission, Gate,
              Respond, EmptyContext, Tick, vars
<1>7. CASE \E r \in Routes, q \in Requests : Arrive(r, q)
  BY <1>7 DEF Arrive
<1> QED
  BY <1>1, <1>2, <1>3, <1>4, <1>5, <1>6, <1>7 DEF Next, Step

\* Every credential is accepted in its time, whatever the routes and the
\* tokens: a service token for at most TTL + 2 * Leeway, whatever exp it has.
THEOREM CredentialsInTheirTimeHolds == Spec => CredentialsInTheirTime
<1>1. Inv /\ [Next]_vars =>
        [/\ principal = None /\ principal' # None => ServiceTokenInTime(principal')
         /\ ctx.claims = None /\ ctx'.claims # None => UserTokenInTime(ctx'.claims)]_vars
  BY ServiceTimelyStep, UserTimelyStep DEF ServiceTimely, UserTimely
<1> QED
  BY <1>1, Invariant, PTL DEF Spec, CredentialsInTheirTime

=============================================================================
