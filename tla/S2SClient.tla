------------------------------ MODULE S2SClient ------------------------------
(***************************************************************************)
(* The service-token emitter of infrastructure/s2stoken/client/client.go:  *)
(* a cache of tokens per (aud, scope), each guarded by a one-slot channel  *)
(* used as a single-flight lock, and a circuit breaker per audience.       *)
(*                                                                         *)
(* A goroutine that calls Token, Refresh or Invalidate is a Caller.  When  *)
(* the cache cannot answer, the caller starts an issuing goroutine and     *)
(* hands it the lock: the issuer stores the result and releases, the       *)
(* caller waits for the result or for its own context, whichever is first. *)
(* A token is a number; iam[t] is what iam signed into it.  Time is one    *)
(* clock, read by everybody; every time stored by the code is absolute.    *)
(* Metrics are left out.  The entries of the map exist from the start with *)
(* the zero value the code creates them with.                              *)
(***************************************************************************)
EXTENDS Integers

CONSTANTS
    Caller,           \* goroutines that use the client
    NoCaller,         \* nobody waits for an issuance
    Entry,            \* the (aud, scope) keys of the cache
    NoEntry,          \* the entry of a token that was not minted yet
    Aud,              \* audiences
    AudOf,            \* the audience of each entry
    Ops,              \* the operations callers invoke
    Status,           \* HTTP statuses iam answers with
    ExpiresIn,        \* the values of expires_in iam answers with
    TTL,              \* s2stoken.TTL, the longest life of a token
    Timeout,          \* Config.Timeout of one issuance
    RenewBefore,      \* Config.RenewBefore
    FailureThreshold, \* Config.FailureThreshold
    OpenFor,          \* Config.OpenFor
    RetryBackoff,     \* DefaultRetryBackoff
    MinReissueAge,    \* MinReissueAge
    MaxTime,          \* bound: the clock stops here
    MaxTokens         \* bound: iam mints at most this many tokens

ASSUME ClientAssumption ==
    /\ NoCaller \notin Caller
    /\ NoEntry \notin Entry
    /\ AudOf \in [Entry -> Aud]
    /\ Ops \subseteq {"Token", "Refresh", "Invalidate"}
    /\ Status \subseteq Nat
    /\ ExpiresIn \subseteq Int
    /\ TTL \in Nat /\ Timeout \in Nat /\ RenewBefore \in Nat
    /\ FailureThreshold \in Nat /\ FailureThreshold > 0
    /\ OpenFor \in Nat /\ RetryBackoff \in Nat /\ MinReissueAge \in Nat
    /\ MaxTime \in Nat /\ MaxTime > 0 /\ MaxTokens \in Nat

VARIABLES
    now,       \* the clock (Config.Now)
    entries,   \* the cached state of each entry, without its lock
    lock,      \* lock[e]: the channel of e is full
    breakers,  \* the breaker of each audience
    issue,     \* the issuing goroutine of each entry
    pc,        \* where each caller is
    req,       \* arguments and captured locals of each caller's call, and the
               \* floor of its entry when it began (history)
    ctxDone,   \* callers whose context has ended
    done,      \* the done channel each caller waits on
    ret,       \* what each caller's last call returned
    iam,       \* what iam signed into each token
    minted,    \* how many tokens iam minted
    crossed,   \* history: requests of each entry that went out while the circuit
               \* of its audience was open, since it last opened (up to 2)
    floor      \* history: tokens minted when an entry was last invalidated

vars == <<now, entries, lock, breakers, issue, pc, req, ctxDone, done, ret,
          iam, minted, crossed, floor>>
callerVars == <<pc, req, ctxDone, done, ret>>
iamVars == <<iam, minted, crossed>>

Zero == 0                        \* time.Time{}, before every reading of the clock
NoToken == 0                     \* the empty string
TokenId == 1..MaxTokens

TripReasons == {"transport", "http_5xx", "http_429", "decode"}
Reasons == TripReasons \cup {"http_4xx", "sign"}
Errors == Reasons \cup {"", "args", "ctx", "circuit_open"}

Result == [tok: 0..MaxTokens, err: Errors]
NoResult == [tok |-> NoToken, err |-> ""]
NoReq == [op |-> "Token", entry |-> NoEntry, sent |-> NoToken, at |-> Zero, valid |-> FALSE,
          since |-> NoToken]
NoIssue == [phase |-> "none", waiter |-> NoCaller, start |-> Zero, deadline |-> Zero,
            valid |-> FALSE, reason |-> "", tok |-> NoToken, ttl |-> 0]
EmptyEntry == [token |-> NoToken, issuedAt |-> Zero, renewAt |-> Zero, expiresAt |-> Zero,
               lastErr |-> "", retryAt |-> Zero]
ClosedBreaker == [failures |-> 0, openUntil |-> Zero]

Init ==
    /\ now = 1
    /\ entries = [e \in Entry |-> EmptyEntry]
    /\ lock = [e \in Entry |-> FALSE]
    /\ breakers = [a \in Aud |-> ClosedBreaker]
    /\ issue = [e \in Entry |-> NoIssue]
    /\ pc = [c \in Caller |-> "idle"]
    /\ req = [c \in Caller |-> NoReq]
    /\ ctxDone = {}
    /\ done = [c \in Caller |-> [full |-> FALSE, res |-> NoResult]]
    /\ ret = [c \in Caller |-> NoResult]
    /\ iam = [t \in TokenId |-> [entry |-> NoEntry, exp |-> Zero]]
    /\ minted = 0
    /\ crossed = [e \in Entry |-> 0]
    /\ floor = [e \in Entry |-> 0]

-----------------------------------------------------------------------------
(* The decisions of the code, as functions of an entry or a breaker.       *)

\* allow: closed, or past openUntil.
Allow(b, t) == b.failures < FailureThreshold \/ ~(t < b.openUntil)

\* The count of failures started again when the circuit opens.
RecordFailureForgets(b, t) ==
    IF b.failures + 1 < FailureThreshold THEN [b EXCEPT !.failures = b.failures + 1]
    ELSE [failures |-> 0, openUntil |-> t + OpenFor]

\* The window of an open circuit extended instead of restarted.
RecordFailureAccumulates(b, t) ==
    LET f == IF b.failures < FailureThreshold THEN b.failures + 1 ELSE b.failures
    IN  [failures |-> f,
         openUntil |-> IF f >= FailureThreshold
                       THEN (IF b.openUntil > t THEN b.openUntil ELSE t) + OpenFor
                       ELSE b.openUntil]

\* recordFailure; t is the instant captured before the attempt started.  The
\* count stops at FailureThreshold: allow and recordFailure only compare it
\* with the threshold, so larger counts behave alike.
RecordFailure(b, t) ==
    LET f == IF b.failures < FailureThreshold THEN b.failures + 1 ELSE b.failures
    IN  [failures |-> f,
         openUntil |-> IF f >= FailureThreshold THEN t + OpenFor ELSE b.openUntil]

TripsBreaker(reason) == reason \in TripReasons

\* The reason issue reports for an answer other than 200.
ReasonOf(status) ==
    CASE status = 429 -> "http_429"
      [] status # 429 /\ status < 500 -> "http_4xx"
      [] OTHER -> "http_5xx"

CapTTL(expiresIn) == IF expiresIn > TTL THEN TTL ELSE expiresIn

\* obtainLocked: the cached token needs no renewal yet.
Cached(n, t) == n.token # NoToken /\ t < n.renewAt
\* obtainLocked: the cached token still serves if iam does not answer.
Valid(n, t) == n.token # NoToken /\ t < n.expiresAt
\* The backoff test skipped while there is a token to renew.
InBackoffWithoutToken(n, t) == n.token = NoToken /\ n.lastErr # "" /\ t < n.retryAt
\* obtainLocked: iam rejected this entry recently.
InBackoff(n, t) == n.lastErr # "" /\ t < n.retryAt

\* The adoption test of Refresh without its expiry check.
AdoptableUnchecked(n, sent, t) == n.token # NoToken /\ n.token # sent
\* The adoption test of Refresh taking any live token.
AdoptableAny(n, sent, t) == n.token # NoToken /\ t < n.expiresAt
\* Refresh: somebody else already renewed the token.
Adoptable(n, sent, t) == n.token # NoToken /\ n.token # sent /\ t < n.expiresAt

\* The age test of Refresh dropped.
NeverTooYoung(n, sent, t) == FALSE
\* Refresh: the rejected token is too young for its age to be the reason.
TooYoung(n, sent, t) == n.token = sent /\ t - n.issuedAt < MinReissueAge

\* Invalidate keeping the backoff state but also the token.
KeptEntry(n) == n
\* Invalidate: the token is dropped, the backoff of the last rejection stays.
ClearedEntry(n) ==
    [EmptyEntry EXCEPT !.lastErr = n.lastErr, !.retryAt = n.retryAt]

\* A token stored as if it had been issued when its answer is processed.
StoredLate(i) ==
    [EmptyEntry EXCEPT !.token = i.tok, !.issuedAt = now,
                       !.renewAt = now + i.ttl - RenewBefore, !.expiresAt = now + i.ttl]
\* issueAndStore, success: every time counts from before the request was sent.
Stored(i) ==
    [EmptyEntry EXCEPT !.token = i.tok, !.issuedAt = i.start,
                       !.renewAt = i.start + i.ttl - RenewBefore,
                       !.expiresAt = i.start + i.ttl]

\* issueAndStore, failure: only a rejection that does not trip the breaker
\* starts the backoff of the entry.
Failed(n, i) ==
    IF TripsBreaker(i.reason) THEN n
    ELSE [n EXCEPT !.lastErr = i.reason, !.retryAt = i.start + RetryBackoff]

-----------------------------------------------------------------------------
(* Callers.                                                                *)

Release(e) == lock' = [lock EXCEPT ![e] = FALSE]

\* The call ends: its locals are gone and its caller sees res.
Return(c, res) ==
    /\ pc' = [pc EXCEPT ![c] = "idle"]
    /\ ret' = [ret EXCEPT ![c] = res]
    /\ req' = [req EXCEPT ![c] = NoReq]
    /\ ctxDone' = ctxDone \ {c}

\* What Token or Refresh makes of the token obtainLocked gave it.
Outcome(c, res) ==
    IF req[c].op = "Refresh" /\ (res.err # "" \/ res.tok = req[c].sent)
    THEN [tok |-> NoToken, err |-> res.err]
    ELSE res

\* Token, Refresh: empty aud or scope.
RejectArgs(c) ==
    /\ pc[c] = "idle"
    /\ Ops \cap {"Token", "Refresh"} # {}
    /\ Return(c, [tok |-> NoToken, err |-> "args"])
    /\ UNCHANGED <<now, entries, lock, breakers, issue, done, iamVars, floor>>

\* A call enters; Refresh is about a token that was minted for the entry.
Call(c, op, e, sent) ==
    /\ pc[c] = "idle"
    /\ IF op = "Refresh" THEN sent \in TokenId /\ iam[sent].entry = e ELSE sent = NoToken
    /\ pc' = [pc EXCEPT ![c] = "try"]
    /\ req' = [req EXCEPT ![c] = [op |-> op, entry |-> e, sent |-> sent, at |-> Zero,
                                  valid |-> FALSE, since |-> floor[e]]]
    /\ ret' = [ret EXCEPT ![c] = NoResult]
    /\ UNCHANGED <<now, entries, lock, breakers, issue, ctxDone, done, iamVars, floor>>

\* The caller's context ends (Invalidate uses context.Background).
CtxEnd(c) ==
    /\ pc[c] # "idle"
    /\ req[c].op # "Invalidate"
    /\ c \notin ctxDone
    /\ ctxDone' = ctxDone \cup {c}
    /\ UNCHANGED <<now, entries, lock, breakers, issue, pc, req, done, ret, iamVars, floor>>

AfterAcquire(op) ==
    CASE op = "Token" -> "obtain"
      [] op = "Refresh" -> "refresh"
      [] OTHER -> "invalidate"

\* acquire: the channel has room.  The first select takes it even when the
\* context has ended.
Acquire(c) ==
    LET e == req[c].entry IN
    /\ pc[c] \in {"try", "queued"}
    /\ ~lock[e]
    /\ lock' = [lock EXCEPT ![e] = TRUE]
    /\ pc' = [pc EXCEPT ![c] = AfterAcquire(req[c].op)]
    /\ UNCHANGED <<now, entries, breakers, issue, req, ctxDone, done, ret, iamVars, floor>>

\* acquire: the first select falls to its default.
Enqueue(c) ==
    /\ pc[c] = "try"
    /\ lock[req[c].entry]
    /\ pc' = [pc EXCEPT ![c] = "queued"]
    /\ UNCHANGED <<now, entries, lock, breakers, issue, req, ctxDone, done, ret, iamVars, floor>>

\* acquire without the ctx.Done case of its second select.
NeverGiveUp(c) == FALSE /\ UNCHANGED vars

\* acquire: the context ends while queued.
GiveUp(c) ==
    /\ pc[c] = "queued"
    /\ c \in ctxDone
    /\ Return(c, [tok |-> NoToken, err |-> "ctx"])
    /\ UNCHANGED <<now, entries, lock, breakers, issue, done, iamVars, floor>>

\* Refresh, once it has the lock: adopt, decline, or force a renewal while
\* keeping the token.
RefreshLocked(c) ==
    LET e == req[c].entry
        n == entries[e]
        sent == req[c].sent
    IN
    /\ pc[c] = "refresh"
    /\ \/ /\ Adoptable(n, sent, now)
          /\ Return(c, [tok |-> n.token, err |-> ""])
          /\ Release(e)
          /\ UNCHANGED entries
       \/ /\ ~Adoptable(n, sent, now)
          /\ TooYoung(n, sent, now)
          /\ Return(c, NoResult)
          /\ Release(e)
          /\ UNCHANGED entries
       \/ /\ ~Adoptable(n, sent, now)
          /\ ~TooYoung(n, sent, now)
          /\ entries' = [entries EXCEPT ![e].renewAt = Zero]
          /\ pc' = [pc EXCEPT ![c] = "obtain"]
          /\ UNCHANGED <<lock, ret, req, ctxDone>>
    /\ UNCHANGED <<now, breakers, issue, done, iamVars, floor>>

\* Invalidate, once it has the lock.
InvalidateLocked(c) ==
    LET e == req[c].entry IN
    /\ pc[c] = "invalidate"
    /\ entries' = [entries EXCEPT ![e] = ClearedEntry(entries[e])]
    /\ floor' = [floor EXCEPT ![e] = minted]
    /\ Release(e)
    /\ Return(c, NoResult)
    /\ UNCHANGED <<now, breakers, issue, done, iamVars>>

\* obtainLocked up to the circuit breaker: answer from the cache or from the
\* backoff, or go on with the captured clock and validity.
ObtainLocked(c) ==
    LET e == req[c].entry
        n == entries[e]
    IN
    /\ pc[c] = "obtain"
    /\ \/ /\ Cached(n, now)
          /\ Return(c, Outcome(c, [tok |-> n.token, err |-> ""]))
          /\ Release(e)
       \/ /\ ~Cached(n, now)
          /\ InBackoff(n, now)
          /\ Return(c, Outcome(c, IF Valid(n, now) THEN [tok |-> n.token, err |-> ""]
                                  ELSE [tok |-> NoToken, err |-> n.lastErr]))
          /\ Release(e)
       \/ /\ ~Cached(n, now)
          /\ ~InBackoff(n, now)
          /\ req' = [req EXCEPT ![c].at = now, ![c].valid = Valid(n, now)]
          /\ pc' = [pc EXCEPT ![c] = "gate"]
          /\ UNCHANGED <<lock, ret, ctxDone>>
    /\ UNCHANGED <<now, entries, breakers, issue, done, iamVars, floor>>

\* obtainLocked from the circuit breaker on: refuse, or set the deadline of the
\* issuance, start its goroutine and hand it the lock.  The request itself goes
\* out later (IssueSend).
Gate(c) ==
    LET e == req[c].entry
        n == entries[e]
        b == breakers[AudOf[e]]
    IN
    /\ pc[c] = "gate"
    /\ \/ /\ ~Allow(b, req[c].at)
          /\ Return(c, Outcome(c, IF req[c].valid THEN [tok |-> n.token, err |-> ""]
                                  ELSE [tok |-> NoToken, err |-> "circuit_open"]))
          /\ Release(e)
          /\ UNCHANGED issue
       \/ /\ Allow(b, req[c].at)
          /\ issue' = [issue EXCEPT ![e] = [NoIssue EXCEPT !.phase = "started", !.waiter = c,
                                            !.start = req[c].at, !.deadline = now + Timeout,
                                            !.valid = req[c].valid]]
          /\ pc' = [pc EXCEPT ![c] = "wait"]
          /\ UNCHANGED <<lock, ret, req, ctxDone>>
    /\ UNCHANGED <<now, entries, breakers, done, iamVars, floor>>

\* obtainLocked: the result arrives; the issuer releases the lock.
Deliver(c) ==
    /\ pc[c] = "wait"
    /\ done[c].full
    /\ Return(c, Outcome(c, done[c].res))
    /\ done' = [done EXCEPT ![c] = [full |-> FALSE, res |-> NoResult]]
    /\ UNCHANGED <<now, entries, lock, breakers, issue, iamVars, floor>>

Forget(c) ==
    [e \in Entry |-> IF issue[e].waiter = c THEN [issue[e] EXCEPT !.waiter = NoCaller]
                                             ELSE issue[e]]

\* An abandoning caller that also releases the lock it handed over.
AbandonAndRelease(c) ==
    /\ pc[c] = "wait"
    /\ c \in ctxDone
    /\ Return(c, [tok |-> NoToken, err |-> "ctx"])
    /\ issue' = Forget(c)
    /\ done' = [done EXCEPT ![c] = [full |-> FALSE, res |-> NoResult]]
    /\ Release(req[c].entry)
    /\ UNCHANGED <<now, entries, breakers, iamVars, floor>>

\* obtainLocked: the context ends first; nobody reads the result any more and
\* the issuer still holds the lock.
Abandon(c) ==
    /\ pc[c] = "wait"
    /\ c \in ctxDone
    /\ Return(c, [tok |-> NoToken, err |-> "ctx"])
    /\ issue' = Forget(c)
    /\ done' = [done EXCEPT ![c] = [full |-> FALSE, res |-> NoResult]]
    /\ UNCHANGED <<now, entries, lock, breakers, iamVars, floor>>

-----------------------------------------------------------------------------
(* The issuing goroutine of an entry, and iam.                             *)

\* The circuit of the audience of e is open.
CircuitOpen(e) == now < breakers[AudOf[e]].openUntil

\* issue: the assertion is signed and the request goes out, if its context has
\* not ended.  The breaker was asked in Gate and is not asked again.
IssueSend(e) ==
    /\ issue[e].phase = "started"
    /\ now < issue[e].deadline
    /\ issue' = [issue EXCEPT ![e].phase = "calling"]
    /\ crossed' = IF CircuitOpen(e) /\ crossed[e] < 2
                  THEN [crossed EXCEPT ![e] = crossed[e] + 1] ELSE crossed
    /\ UNCHANGED <<now, entries, lock, breakers, callerVars, iam, minted, floor>>

\* issue fails before or without an answer: signing precedes the request; the
\* connection fails or the timeout ends it before or after it went out.
IssueFails(e, reason) ==
    /\ \/ issue[e].phase = "started"
       \/ issue[e].phase = "calling" /\ reason = "transport"
    /\ issue' = [issue EXCEPT ![e].phase = "replied", ![e].reason = reason]
    /\ UNCHANGED <<now, entries, lock, breakers, callerVars, iamVars, floor>>

\* iam answers with a status other than 200, within the timeout.
IamRefuses(e, status) ==
    /\ issue[e].phase = "calling"
    /\ now < issue[e].deadline
    /\ status # 200
    /\ issue' = [issue EXCEPT ![e].phase = "replied", ![e].reason = ReasonOf(status)]
    /\ UNCHANGED <<now, entries, lock, breakers, callerVars, iamVars, floor>>

\* iam mints a token that lives expiresIn from now; the client checks and
\* caps the lifetime it is told.
IamIssues(e, expiresIn) ==
    /\ issue[e].phase = "calling"
    /\ now < issue[e].deadline
    /\ IF expiresIn <= 0
       THEN /\ issue' = [issue EXCEPT ![e].phase = "replied", ![e].reason = "decode"]
            /\ UNCHANGED iamVars
       ELSE /\ minted < MaxTokens
            /\ minted' = minted + 1
            /\ iam' = [iam EXCEPT ![minted + 1] = [entry |-> e, exp |-> now + expiresIn]]
            /\ UNCHANGED crossed
            /\ issue' = [issue EXCEPT ![e].phase = "replied", ![e].tok = minted + 1,
                                      ![e].ttl = CapTTL(expiresIn)]
    /\ UNCHANGED <<now, entries, lock, breakers, callerVars, floor>>

\* The result of issueAndStore; on failure the token that was valid when the
\* attempt started still serves.
IssueResult(n, i) ==
    IF i.reason = "" THEN [tok |-> i.tok, err |-> ""]
    ELSE IF i.valid THEN [tok |-> n.token, err |-> ""]
    ELSE [tok |-> NoToken, err |-> i.reason]

\* issueAndStore after issue, and the send on the done channel.
IssueStore(e) ==
    LET i == issue[e]
        a == AudOf[e]
    IN
    /\ i.phase = "replied"
    /\ IF i.reason = ""
       THEN /\ breakers' = [breakers EXCEPT ![a] = ClosedBreaker]
            /\ entries' = [entries EXCEPT ![e] = Stored(i)]
       ELSE /\ breakers' = IF TripsBreaker(i.reason)
                           THEN [breakers EXCEPT ![a] = RecordFailure(breakers[a], i.start)]
                           ELSE breakers
            /\ entries' = [entries EXCEPT ![e] = Failed(entries[e], i)]
    /\ done' = IF i.waiter = NoCaller THEN done
               ELSE [done EXCEPT ![i.waiter] = [full |-> TRUE, res |-> IssueResult(entries[e], i)]]
    /\ issue' = [issue EXCEPT ![e] = [NoIssue EXCEPT !.phase = "stored"]]
    /\ crossed' = [f \in Entry |-> IF AudOf[f] = a /\ ~CircuitOpen(f) THEN 0 ELSE crossed[f]]
    /\ UNCHANGED <<now, lock, pc, req, ctxDone, ret, iam, minted, floor>>

\* An issuer that forgets the release.
IssueLeaks(e) ==
    /\ issue[e].phase = "stored"
    /\ issue' = [issue EXCEPT ![e] = NoIssue]
    /\ UNCHANGED <<now, entries, lock, breakers, callerVars, iamVars, floor>>

\* The deferred release.
IssueRelease(e) ==
    /\ issue[e].phase = "stored"
    /\ issue' = [issue EXCEPT ![e] = NoIssue]
    /\ Release(e)
    /\ UNCHANGED <<now, entries, breakers, callerVars, iamVars, floor>>

Tick ==
    /\ now < MaxTime
    /\ now' = now + 1
    /\ UNCHANGED <<entries, lock, breakers, issue, callerVars, iamVars, floor>>

-----------------------------------------------------------------------------

CallerStep(c) ==
    \/ Acquire(c) \/ Enqueue(c) \/ GiveUp(c) \/ RefreshLocked(c) \/ InvalidateLocked(c)
    \/ ObtainLocked(c) \/ Gate(c) \/ Deliver(c) \/ Abandon(c)

CallerStart(c) ==
    \/ RejectArgs(c)
    \/ \E op \in Ops, e \in Entry, sent \in 0..MaxTokens : Call(c, op, e, sent)

IssueRequest(e) ==
    \/ IssueSend(e)
    \/ \E reason \in {"sign", "transport"} : IssueFails(e, reason)
    \/ \E status \in Status : IamRefuses(e, status)
    \/ \E x \in ExpiresIn : IamIssues(e, x)

Next ==
    \/ \E c \in Caller : CallerStart(c) \/ CtxEnd(c) \/ CallerStep(c)
    \/ \E e \in Entry : IssueRequest(e) \/ IssueStore(e) \/ IssueRelease(e)
    \/ Tick

Spec == Init /\ [][Next]_vars

\* The scheduler runs every goroutine that can run; nothing is said of iam.
CallerFairness == \A c \in Caller : WF_vars(CallerStep(c))
\* The issuing request ends by itself (its context has a timeout), and a
\* channel serves its blocked senders in order.
IssuerFairness ==
    /\ \A e \in Entry : WF_vars(IssueRequest(e)) /\ WF_vars(IssueStore(e) \/ IssueRelease(e))
    /\ \A c \in Caller : SF_vars(Acquire(c))

CallerFairSpec == Spec /\ CallerFairness

-----------------------------------------------------------------------------
(* Properties.                                                             *)

PCs == {"idle", "try", "queued", "refresh", "invalidate", "obtain", "gate", "wait"}
Critical == {"refresh", "invalidate", "obtain", "gate"}

MaybeReason == Reasons \cup {""}
Rejections == {"", "http_4xx", "sign"}
Phases == {"none", "started", "calling", "replied", "stored"}
AllOps == {"Token", "Refresh", "Invalidate"}

EntryState ==
    [token: 0..MaxTokens, issuedAt: Int, renewAt: Int, expiresAt: Int,
     lastErr: Rejections, retryAt: Int]
BreakerState == [failures: 0..FailureThreshold, openUntil: Int]
IssueState ==
    [phase: Phases, waiter: Caller \cup {NoCaller},
     start: Int, deadline: Int, valid: BOOLEAN, reason: MaybeReason, tok: 0..MaxTokens, ttl: Int]
Request ==
    [op: AllOps, entry: Entry \cup {NoEntry},
     sent: 0..MaxTokens, at: Int, valid: BOOLEAN, since: 0..MaxTokens]

\* Every variable has its type.
TypeOK ==
    /\ now \in 1..MaxTime
    /\ entries \in [Entry -> EntryState]
    /\ lock \in [Entry -> BOOLEAN]
    /\ breakers \in [Aud -> BreakerState]
    /\ issue \in [Entry -> IssueState]
    /\ pc \in [Caller -> PCs]
    /\ req \in [Caller -> Request]
    /\ ctxDone \subseteq Caller
    /\ done \in [Caller -> [full: BOOLEAN, res: Result]]
    /\ ret \in [Caller -> Result]
    /\ iam \in [TokenId -> [entry: Entry \cup {NoEntry}, exp: Int]]
    /\ minted \in 0..MaxTokens
    /\ crossed \in [Entry -> 0..2]
    /\ floor \in [Entry -> 0..MaxTokens]

Holders(e) == {c \in Caller : pc[c] \in Critical /\ req[c].entry = e}

\* The channel of an entry is full exactly while one caller or one issuing
\* goroutine works on the entry, never two of them: the handover of the lock
\* (obtainLocked, handedOff) releases exactly once however the caller leaves.
SingleFlight ==
    \A e \in Entry :
        /\ \A c, d \in Holders(e) : c = d
        /\ issue[e].phase # "none" => Holders(e) = {}
        /\ lock[e] <=> (Holders(e) # {} \/ issue[e].phase # "none")

\* The client never believes a token to live longer than iam signed, however
\* long the answer took to arrive and to be stored (issueAndStore counts from
\* the instant captured before the request).
ConservativeExpiry ==
    \A e \in Entry :
        LET t == entries[e].token IN
        t # NoToken => iam[t].entry = e /\ entries[e].expiresAt <= iam[t].exp

\* iam is asked for a new token only when the cached one is in its renewal
\* window or at least MinReissueAge old, whatever sequence of Token and
\* Refresh calls, 401s and failed renewals came before (Refresh).
ReissueSpacing ==
    \A e \in Entry :
        LET n == entries[e]
            i == issue[e]
        IN  i.phase \in {"started", "calling", "replied"} /\ n.token # NoToken =>
                \/ i.start >= n.expiresAt - RenewBefore
                \/ i.start - n.issuedAt >= MinReissueAge

\* No request for an entry starts before the backoff of its last permanent
\* rejection ends, not even for a renewal Refresh forces (obtainLocked).
BackoffRespected ==
    \A e \in Entry :
        issue[e].phase \in {"started", "calling"} /\ entries[e].lastErr # "" =>
            issue[e].start >= entries[e].retryAt

\* A token minted before Invalidate returned is never in the cache again,
\* not even the one an abandoned issuance was still waiting for.
InvalidatedStaysGone ==
    \A e \in Entry : entries[e].token # NoToken => entries[e].token > floor[e]

\* A failure shuts the client out of iam for at most OpenFor and a rejection
\* for at most RetryBackoff from the current instant (recordFailure).
LockoutBounded ==
    /\ \A a \in Aud : breakers[a].openUntil <= now + OpenFor
    /\ \A e \in Entry : entries[e].retryAt <= now + RetryBackoff

\* Opening the circuit of an audience stops the requests to iam: while it stays
\* open at most one request of each entry still goes out, the one allowed before
\* the failure of another entry opened it, and no second one follows, not even
\* for a caller that read the clock long before (allow, recordFailure).
OpenCircuitCrossedOnce == \A e \in Entry : crossed[e] <= 1

\* A token handed out was accepted by its receiver at some instant of the
\* call: served from the cache or adopted by Refresh, at that very moment; after
\* an attempt to renew it, when the attempt started, since the code decides
\* then whether the old token may still serve (obtainLocked, issueAndStore).
ServedTokenWasLive ==
    [][\A c \in Caller :
        pc[c] # "idle" /\ pc'[c] = "idle" /\ ret'[c].tok # NoToken
            => (IF pc[c] \in {"gate", "wait"} THEN req[c].at ELSE now) < iam[ret'[c].tok].exp]_vars

\* A caller whose context ends always gets its answer, even if iam never
\* answers (acquire and obtainLocked select on ctx.Done).
CancelledCallersReturn ==
    \A c \in Caller : (pc[c] # "idle" /\ c \in ctxDone) ~> pc[c] = "idle"

\* Every call returns, and no entry stays locked for ever, provided every
\* request to iam ends.
EveryCallReturns ==
    IssuerFairness =>
        /\ \A c \in Caller : pc[c] # "idle" ~> pc[c] = "idle"
        /\ \A e \in Entry : lock[e] ~> ~lock[e]

-----------------------------------------------------------------------------
(* The client implements TokenService.  Locks, waiting, the cache and the  *)
(* breaker are hidden; a call is under way while its caller is not idle.   *)

AbsCall(c) ==
    IF pc[c] = "idle" THEN [op |-> "none", entry |-> NoEntry, sent |-> NoToken, since |-> NoToken]
    ELSE [op |-> req[c].op, entry |-> req[c].entry, sent |-> req[c].sent, since |-> req[c].since]

AbsAnswer(res) ==
    IF res.err # "" THEN [kind |-> "failed", tok |-> NoToken]
    ELSE IF res.tok # NoToken THEN [kind |-> "token", tok |-> res.tok]
    ELSE [kind |-> "nothing", tok |-> NoToken]

Service == INSTANCE TokenService WITH
    calls <- [c \in Caller |-> AbsCall(c)],
    answers <- [c \in Caller |-> AbsAnswer(ret[c])],
    owner <- [t \in TokenId |-> iam[t].entry],
    minted <- minted,
    retired <- floor

\* Whatever the interleaving, a call of Token or Refresh that succeeds returns
\* a token minted for its audience and scope, not invalidated before the call
\* began and, for Refresh, newer than the rejected one; Token without an
\* error never returns an empty token (Token, Refresh, obtainLocked).
ImplementsTokenService == Service!ServiceSpec

=============================================================================
