-------------------------- MODULE S2SClient_proofs --------------------------
(***************************************************************************)
(* Proofs about S2SClient for every set of callers and entries, every      *)
(* setting of the client and every bound: its types, the single-flight     *)
(* lock, what the cache may hold and when iam is asked.                    *)
(*                                                                         *)
(* None of the properties of the cache is inductive.  They rest on facts   *)
(* about work under way: a clock reading carried from before a request is  *)
(* in the past, an answer not stored yet belongs to its entry and was      *)
(* minted after the last Invalidate, and whoever passed the checks of      *)
(* obtainLocked still meets them when the request goes out.  The last two  *)
(* survive only because of the single-flight lock.  The breaker is shared: *)
(* there, a request once allowed may go out after the circuit opened, but  *)
(* leaves behind an entry that asks again before it sends another.         *)
(*                                                                         *)
(* The second half is the refinement of TokenService.                      *)
(***************************************************************************)
EXTENDS S2SClient, TLAPS

\* A caller inside a call works on an entry of the cache.
CallsHaveEntries == \A c \in Caller : pc[c] # "idle" => req[c].entry \in Entry

-----------------------------------------------------------------------------
(* Typing.                                                                 *)

Typed == TypeOK /\ CallsHaveEntries

LEMMA ConstantValues ==
    /\ NoToken \in 0..MaxTokens /\ NoResult \in Result /\ NoReq \in Request
    /\ NoIssue \in IssueState /\ EmptyEntry \in EntryState /\ ClosedBreaker \in BreakerState
    /\ \A err \in Errors : [tok |-> NoToken, err |-> err] \in Result
    /\ \A tok \in 0..MaxTokens : [tok |-> tok, err |-> ""] \in Result
<1> USE ClientAssumption DEF NoToken, Zero
<1>1. NoToken \in 0..MaxTokens
  OBVIOUS
<1>2. NoResult \in Result
  BY DEF NoResult, Result, Errors
<1>3. NoReq \in Request
  BY DEF NoReq, Request, AllOps
<1>4. NoIssue \in IssueState
  BY DEF NoIssue, IssueState, Phases, MaybeReason
<1>5. EmptyEntry \in EntryState
  BY DEF EmptyEntry, EntryState, Rejections
<1>6. ClosedBreaker \in BreakerState
  BY DEF ClosedBreaker, BreakerState
<1>7. \A err \in Errors : [tok |-> NoToken, err |-> err] \in Result
  BY DEF Result
<1>8. \A tok \in 0..MaxTokens : [tok |-> tok, err |-> ""] \in Result
  BY DEF Result, Errors
<1> QED
  BY <1>1, <1>2, <1>3, <1>4, <1>5, <1>6, <1>7, <1>8

LEMMA InitTyped == Init => Typed
<1> SUFFICES ASSUME Init PROVE Typed
  OBVIOUS
<1>1. now \in 1..MaxTime /\ minted \in 0..MaxTokens
  BY ClientAssumption DEF Init
<1>2. /\ entries \in [Entry -> EntryState] /\ breakers \in [Aud -> BreakerState]
      /\ issue \in [Entry -> IssueState] /\ req \in [Caller -> Request]
      /\ ret \in [Caller -> Result]
  BY ConstantValues DEF Init
<1>3. done \in [Caller -> [full: BOOLEAN, res: Result]]
  BY ConstantValues DEF Init
<1>4. lock \in [Entry -> BOOLEAN] /\ ctxDone \subseteq Caller /\ pc \in [Caller -> PCs]
  BY DEF Init, PCs
<1>5. iam \in [TokenId -> [entry: Entry \cup {NoEntry}, exp: Int]]
  BY DEF Init, Zero
<1>6. floor \in [Entry -> 0..MaxTokens] /\ crossed \in [Entry -> 0..2]
  BY ClientAssumption DEF Init
<1>7. CallsHaveEntries
  BY DEF Init, CallsHaveEntries
<1> QED
  BY <1>1, <1>2, <1>3, <1>4, <1>5, <1>6, <1>7 DEF Typed, TypeOK

\* Returning keeps the caller's side typed.
LEMMA ReturnTyped ==
    ASSUME Typed, NEW c \in Caller, NEW res \in Result, Return(c, res)
    PROVE  /\ pc' \in [Caller -> PCs]
           /\ ret' \in [Caller -> Result]
           /\ req' \in [Caller -> Request]
           /\ ctxDone' \subseteq Caller
           /\ \A d \in Caller : pc'[d] # "idle" => req'[d].entry \in Entry
<1>1. pc' \in [Caller -> PCs] /\ ret' \in [Caller -> Result] /\ ctxDone' \subseteq Caller
  BY DEF Typed, TypeOK, Return, PCs
<1>2. req' \in [Caller -> Request]
  BY ConstantValues DEF Typed, TypeOK, Return
<1>3. \A d \in Caller : pc'[d] # "idle" => req'[d].entry \in Entry
  BY DEF Typed, TypeOK, CallsHaveEntries, Return
<1> QED
  BY <1>1, <1>2, <1>3

LEMMA OutcomeTyped ==
    ASSUME NEW c, NEW res \in Result
    PROVE  Outcome(c, res) \in Result
<1>1. [tok |-> NoToken, err |-> res.err] \in Result
  BY ConstantValues DEF Result
<1> QED
  BY <1>1 DEF Outcome

LEMMA CallerStepTyped ==
    ASSUME Typed, NEW c \in Caller, CallerStep(c)
    PROVE  Typed'
<1>1. CASE Acquire(c)
  BY <1>1 DEF Acquire, iamVars, Typed, TypeOK, CallsHaveEntries, AfterAcquire, PCs, Request
<1>2. CASE Enqueue(c)
  BY <1>2 DEF Enqueue, iamVars, Typed, TypeOK, CallsHaveEntries, PCs
<1>3. CASE GiveUp(c)
  <2>1. [tok |-> NoToken, err |-> "ctx"] \in Result
    BY ConstantValues DEF Errors
  <2> QED
    BY <1>3, <2>1, ReturnTyped DEF GiveUp, Typed, TypeOK, CallsHaveEntries, iamVars
<1>4. CASE RefreshLocked(c)
  <2>e. req[c].entry \in Entry
    BY <1>4 DEF RefreshLocked, Typed, CallsHaveEntries
  <2> DEFINE e == req[c].entry
             n == entries[e]
  <2>n. n \in EntryState
    BY <2>e DEF Typed, TypeOK
  <2>1. [tok |-> n.token, err |-> ""] \in Result
    BY <2>n, ConstantValues DEF EntryState
  <2>3. CASE Return(c, [tok |-> n.token, err |-> ""]) /\ Release(e) /\ UNCHANGED entries
    BY <1>4, <2>1, <2>3, ReturnTyped
    DEF RefreshLocked, Release, Typed, TypeOK, CallsHaveEntries, iamVars
  <2>4. CASE Return(c, NoResult) /\ Release(e) /\ UNCHANGED entries
    BY <1>4, <2>4, ConstantValues, ReturnTyped
    DEF RefreshLocked, Release, Typed, TypeOK, CallsHaveEntries, iamVars
  <2>5. CASE /\ entries' = [entries EXCEPT ![e].renewAt = Zero]
             /\ pc' = [pc EXCEPT ![c] = "obtain"]
             /\ UNCHANGED <<lock, ret, req, ctxDone>>
    <3>1. [n EXCEPT !.renewAt = Zero] \in EntryState
      BY <2>n DEF EntryState, Zero
    <3>2. entries' \in [Entry -> EntryState]
      BY <2>5, <3>1 DEF Typed, TypeOK
    <3>3. pc' \in [Caller -> PCs] /\ CallsHaveEntries'
      BY <2>5, <2>e DEF Typed, TypeOK, CallsHaveEntries, PCs
    <3> QED
      BY <1>4, <2>5, <3>2, <3>3 DEF RefreshLocked, Typed, TypeOK, iamVars
  <2> QED
    BY <1>4, <2>3, <2>4, <2>5 DEF RefreshLocked
<1>5. CASE InvalidateLocked(c)
  <2> DEFINE e == req[c].entry
  <2>e. e \in Entry /\ entries[e] \in EntryState
    BY <1>5 DEF InvalidateLocked, Typed, TypeOK, CallsHaveEntries
  <2>1. ClearedEntry(entries[e]) \in EntryState
    <3>1. entries[e].lastErr \in Rejections /\ entries[e].retryAt \in Int
      BY <2>e DEF EntryState
    <3> QED
      BY <3>1, ConstantValues DEF ClearedEntry, EntryState
  <2>2. entries' \in [Entry -> EntryState] /\ floor' \in [Entry -> 0..MaxTokens]
    BY <1>5, <2>1 DEF InvalidateLocked, Typed, TypeOK
  <2> QED
    BY <1>5, <2>2, ConstantValues, ReturnTyped
    DEF InvalidateLocked, Release, Typed, TypeOK, CallsHaveEntries, iamVars
<1>6. CASE ObtainLocked(c)
  <2> DEFINE e == req[c].entry
             n == entries[e]
  <2>n. e \in Entry /\ n \in EntryState
    BY <1>6 DEF ObtainLocked, Typed, TypeOK, CallsHaveEntries
  <2>1. [tok |-> n.token, err |-> ""] \in Result
    BY <2>n, ConstantValues DEF EntryState
  <2>2. [tok |-> NoToken, err |-> n.lastErr] \in Result
    <3>1. n.lastErr \in Rejections
      BY <2>n DEF EntryState
    <3> QED
      BY <3>1, ConstantValues DEF Rejections, Errors, Reasons
  <2>3. ASSUME NEW res \in Result, Return(c, Outcome(c, res)), Release(e)
        PROVE  Typed'
    BY <1>6, <2>3, ReturnTyped, OutcomeTyped
    DEF ObtainLocked, Release, Typed, TypeOK, CallsHaveEntries, iamVars
  <2>4. CASE /\ req' = [req EXCEPT ![c].at = now, ![c].valid = Valid(n, now)]
             /\ pc' = [pc EXCEPT ![c] = "gate"]
             /\ UNCHANGED <<lock, ret, ctxDone>>
    <3>1. Valid(n, now) \in BOOLEAN
      BY DEF Valid
    <3>2. req[c] \in Request /\ now \in Int
      BY DEF Typed, TypeOK
    <3>3. [req[c] EXCEPT !.at = now, !.valid = Valid(n, now)] \in Request
      BY <3>1, <3>2 DEF Request
    <3>4. req' \in [Caller -> Request]
      BY <2>4, <3>3 DEF Typed, TypeOK
    <3>5. pc' \in [Caller -> PCs]
      BY <2>4 DEF Typed, TypeOK, PCs
    <3>6. \A d \in Caller : req'[d].entry = req[d].entry
      BY <2>4 DEF Typed, TypeOK, Request
    <3>7. CallsHaveEntries'
      BY <2>4, <2>n, <3>6 DEF CallsHaveEntries, Typed, TypeOK
    <3> QED
      BY <1>6, <2>4, <3>4, <3>5, <3>7 DEF ObtainLocked, Typed, TypeOK, iamVars
  <2> QED
    BY <1>6, <2>1, <2>2, <2>3, <2>4 DEF ObtainLocked
<1>7. CASE Gate(c)
  <2> DEFINE e == req[c].entry
             n == entries[e]
  <2>n. e \in Entry /\ n \in EntryState
    BY <1>7 DEF Gate, Typed, TypeOK, CallsHaveEntries
  <2>1. /\ [tok |-> n.token, err |-> ""] \in Result
        /\ [tok |-> NoToken, err |-> "circuit_open"] \in Result
    BY <2>n, ConstantValues DEF Errors, EntryState
  <2>2. ASSUME NEW res \in Result, Return(c, Outcome(c, res)), Release(e), UNCHANGED issue
        PROVE  Typed'
    BY <1>7, <2>2, ReturnTyped, OutcomeTyped
    DEF Gate, Release, Typed, TypeOK, CallsHaveEntries, iamVars
  <2> DEFINE i == [NoIssue EXCEPT !.phase = "started", !.waiter = c,
                                  !.start = req[c].at, !.deadline = now + Timeout,
                                  !.valid = req[c].valid]
  <2>3. CASE /\ issue' = [issue EXCEPT ![e] = i]
             /\ pc' = [pc EXCEPT ![c] = "wait"]
             /\ UNCHANGED <<lock, ret, req, ctxDone>>
    <3>1. req[c].at \in Int /\ req[c].valid \in BOOLEAN /\ now + Timeout \in Int
      BY ClientAssumption DEF Typed, TypeOK, Request
    <3>2. i \in IssueState
      BY <3>1, ConstantValues DEF IssueState, Phases
    <3>3. issue' \in [Entry -> IssueState]
      BY <2>3, <3>2 DEF Typed, TypeOK
    <3>4. pc' \in [Caller -> PCs] /\ CallsHaveEntries'
      BY <2>3, <2>n DEF Typed, TypeOK, CallsHaveEntries, PCs
    <3> QED
      BY <1>7, <2>3, <3>3, <3>4 DEF Gate, Typed, TypeOK, iamVars
  <2> QED
    BY <1>7, <2>1, <2>2, <2>3 DEF Gate
<1>8. CASE Deliver(c)
  <2>1. done[c].res \in Result
    BY DEF Typed, TypeOK
  <2> QED
    BY <1>8, <2>1, ConstantValues, ReturnTyped, OutcomeTyped
    DEF Deliver, Typed, TypeOK, CallsHaveEntries, iamVars
<1>9. CASE Abandon(c)
  <2>1. [tok |-> NoToken, err |-> "ctx"] \in Result
    BY ConstantValues DEF Errors
  <2>2. issue' \in [Entry -> IssueState]
    <3>1. \A e \in Entry : [issue[e] EXCEPT !.waiter = NoCaller] \in IssueState
      BY DEF Typed, TypeOK, IssueState
    <3> QED
      BY <1>9, <3>1 DEF Abandon, Forget, Typed, TypeOK
  <2> QED
    BY <1>9, <2>1, <2>2, ConstantValues, ReturnTyped
    DEF Abandon, Typed, TypeOK, CallsHaveEntries, iamVars
<1> QED
  BY <1>1, <1>2, <1>3, <1>4, <1>5, <1>6, <1>7, <1>8, <1>9 DEF CallerStep

LEMMA IssuerStepTyped ==
    ASSUME Typed, NEW e \in Entry, IssueRequest(e) \/ IssueStore(e) \/ IssueRelease(e)
    PROVE  Typed'
<1>i. issue[e] \in IssueState /\ entries[e] \in EntryState /\ now \in Int /\ AudOf[e] \in Aud
  BY ClientAssumption DEF Typed, TypeOK
<1>1. ASSUME NEW reason \in Reasons,
             issue' = [issue EXCEPT ![e].phase = "replied", ![e].reason = reason]
      PROVE  issue' \in [Entry -> IssueState]
  <2>1. "replied" \in Phases /\ reason \in MaybeReason
    BY DEF Phases, MaybeReason
  <2>2. [issue[e] EXCEPT !.phase = "replied", !.reason = reason] \in IssueState
    BY <1>i, <2>1 DEF IssueState
  <2> QED
    BY <1>1, <2>2 DEF Typed, TypeOK
<1>2. ASSUME NEW reason \in {"sign", "transport"}, IssueFails(e, reason)
      PROVE  Typed'
  <2>1. reason \in Reasons
    BY DEF Reasons, TripReasons
  <2> QED
    BY <1>1, <1>2, <2>1
    DEF IssueFails, Typed, TypeOK, CallsHaveEntries, callerVars, iamVars
<1>3. ASSUME NEW status \in Status, IamRefuses(e, status)
      PROVE  Typed'
  <2>1. ReasonOf(status) \in Reasons
    BY DEF ReasonOf, Reasons, TripReasons
  <2> QED
    BY <1>1, <1>3, <2>1
    DEF IamRefuses, Typed, TypeOK, CallsHaveEntries, callerVars, iamVars
<1>4. ASSUME NEW x \in ExpiresIn, IamIssues(e, x)
      PROVE  Typed'
  <2>1. CASE x <= 0
    <3>1. "decode" \in Reasons
      BY DEF Reasons, TripReasons
    <3> QED
      BY <1>1, <1>4, <2>1, <3>1
      DEF IamIssues, Typed, TypeOK, CallsHaveEntries, callerVars, iamVars
  <2>2. CASE ~(x <= 0)
    <3>1. minted' \in 0..MaxTokens /\ minted' = minted + 1 /\ minted' \in TokenId
      BY <1>4, <2>2, ClientAssumption DEF IamIssues, Typed, TypeOK, TokenId
    <3>2. iam' \in [TokenId -> [entry: Entry \cup {NoEntry}, exp: Int]]
      <4>1. now + x \in Int
        BY <1>i, ClientAssumption
      <4>2. [entry |-> e, exp |-> now + x] \in [entry: Entry \cup {NoEntry}, exp: Int]
        BY <4>1
      <4> QED
        BY <1>4, <2>2, <4>2 DEF IamIssues, Typed, TypeOK
    <3>3. issue' \in [Entry -> IssueState]
      <4>1. CapTTL(x) \in Int /\ "replied" \in Phases
        BY ClientAssumption DEF CapTTL, Phases
      <4>2. [issue[e] EXCEPT !.phase = "replied", !.tok = minted + 1, !.ttl = CapTTL(x)]
                \in IssueState
        BY <1>i, <3>1, <4>1 DEF IssueState
      <4> QED
        BY <1>4, <2>2, <4>2 DEF IamIssues, Typed, TypeOK
    <3>4. crossed' = crossed
      BY <1>4, <2>2 DEF IamIssues
    <3> QED
      BY <1>4, <3>1, <3>2, <3>3, <3>4
      DEF IamIssues, Typed, TypeOK, CallsHaveEntries, callerVars
  <2> QED
    BY <2>1, <2>2
<1>7. CASE IssueSend(e)
  <2>1. [issue[e] EXCEPT !.phase = "calling"] \in IssueState
    BY <1>i DEF IssueState, Phases
  <2>2. crossed \in [Entry -> 0..2]
    BY DEF Typed, TypeOK
  <2>3. crossed' \in [Entry -> 0..2]
    BY <1>7, <2>2 DEF IssueSend
  <2> QED
    BY <1>7, <2>1, <2>3 DEF IssueSend, Typed, TypeOK, CallsHaveEntries, callerVars
<1>5. CASE IssueStore(e)
  <2> DEFINE i == issue[e]
             n == entries[e]
             b == breakers[AudOf[e]]
  <2>1. /\ i.start \in Int /\ i.ttl \in Int /\ i.tok \in 0..MaxTokens /\ i.reason \in MaybeReason
        /\ i.waiter \in Caller \cup {NoCaller}
    BY <1>i DEF IssueState
  <2>2. /\ n.token \in 0..MaxTokens
        /\ b \in BreakerState
    BY <1>i DEF EntryState, Typed, TypeOK
  <2>3. Stored(i) \in EntryState
    <3>1. i.start + i.ttl \in Int /\ i.start + i.ttl - RenewBefore \in Int
      BY <2>1, ClientAssumption
    <3> QED
      BY <2>1, <3>1, ConstantValues DEF Stored, EntryState
  <2>4. ASSUME i.reason # "" PROVE Failed(n, i) \in EntryState
    <3>1. CASE TripsBreaker(i.reason)
      BY <1>i, <3>1 DEF Failed
    <3>2. CASE ~TripsBreaker(i.reason)
      <4>0. i.reason \in Rejections
        BY <2>1, <2>4, <3>2 DEF TripsBreaker, MaybeReason, Reasons, Rejections
      <4>1. i.start + RetryBackoff \in Int
        BY <2>1, ClientAssumption
      <4>2. [n EXCEPT !.lastErr = i.reason, !.retryAt = i.start + RetryBackoff] \in EntryState
        BY <1>i, <4>0, <4>1 DEF EntryState
      <4> QED
        BY <3>2, <4>2 DEF Failed
    <3> QED
      BY <3>1, <3>2
  <2>5. RecordFailure(b, i.start) \in BreakerState
    <3>1. b.failures \in 0..FailureThreshold /\ b.openUntil \in Int
      BY <2>2 DEF BreakerState
    <3>2. i.start + OpenFor \in Int
      BY <2>1, ClientAssumption
    <3>3. b.failures < FailureThreshold => b.failures + 1 \in 0..FailureThreshold
      BY <3>1, ClientAssumption
    <3> QED
      BY <3>1, <3>2, <3>3 DEF RecordFailure, BreakerState
  <2>6. entries' \in [Entry -> EntryState]
    BY <1>5, <2>3, <2>4 DEF IssueStore, Typed, TypeOK
  <2>7. breakers' \in [Aud -> BreakerState]
    BY <1>5, <1>i, <2>5, ConstantValues DEF IssueStore, Typed, TypeOK
  <2>8. IssueResult(n, i) \in Result
    <3>1. i.reason \in Errors
      BY <2>1 DEF MaybeReason, Errors
    <3> QED
      BY <2>1, <2>2, <3>1, ConstantValues DEF IssueResult
  <2>9. done' \in [Caller -> [full: BOOLEAN, res: Result]]
    BY <1>5, <2>1, <2>8 DEF IssueStore, Typed, TypeOK
  <2>10. issue' \in [Entry -> IssueState]
    <3>1. [NoIssue EXCEPT !.phase = "stored"] \in IssueState
      BY ConstantValues DEF IssueState, Phases
    <3> QED
      BY <1>5, <3>1 DEF IssueStore, Typed, TypeOK
  <2>11. crossed' \in [Entry -> 0..2]
    <3>1. \A f \in Entry : crossed[f] \in 0..2 /\ 0 \in 0..2
      BY DEF Typed, TypeOK
    <3>2. crossed' = [f \in Entry |-> IF AudOf[f] = AudOf[e] /\ ~CircuitOpen(f) THEN 0
                                      ELSE crossed[f]]
      BY <1>5 DEF IssueStore
    <3> QED
      BY <3>1, <3>2
  <2> QED
    BY <1>5, <2>6, <2>7, <2>9, <2>10, <2>11
    DEF IssueStore, Typed, TypeOK, CallsHaveEntries, iamVars
<1>6. CASE IssueRelease(e)
  BY <1>6, ConstantValues
  DEF IssueRelease, Release, Typed, TypeOK, CallsHaveEntries, callerVars, iamVars
<1> QED
  BY <1>2, <1>3, <1>4, <1>5, <1>6, <1>7 DEF IssueRequest

LEMMA NextTyped == Typed /\ [Next]_vars => Typed'
<1> SUFFICES ASSUME Typed, [Next]_vars PROVE Typed'
  OBVIOUS
<1>1. ASSUME NEW c \in Caller, RejectArgs(c) PROVE Typed'
  <2>1. [tok |-> NoToken, err |-> "args"] \in Result
    BY ConstantValues DEF Errors
  <2> QED
    BY <1>1, <2>1, ReturnTyped DEF RejectArgs, Typed, TypeOK, CallsHaveEntries, iamVars
<1>2. ASSUME NEW c \in Caller, NEW op \in Ops, NEW e \in Entry, NEW sent \in 0..MaxTokens,
             Call(c, op, e, sent)
      PROVE  Typed'
  <2>1. [op |-> op, entry |-> e, sent |-> sent, at |-> Zero, valid |-> FALSE,
         since |-> floor[e]] \in Request
    BY ClientAssumption DEF Request, AllOps, Zero, Typed, TypeOK
  <2>2. req' \in [Caller -> Request] /\ ret' \in [Caller -> Result] /\ pc' \in [Caller -> PCs]
    BY <1>2, <2>1, ConstantValues DEF Call, Typed, TypeOK, PCs
  <2>3. CallsHaveEntries'
    BY <1>2 DEF Call, Typed, TypeOK, CallsHaveEntries
  <2> QED
    BY <1>2, <2>2, <2>3 DEF Call, Typed, TypeOK, iamVars
<1>3. ASSUME NEW c \in Caller, CtxEnd(c) PROVE Typed'
  BY <1>3 DEF CtxEnd, Typed, TypeOK, CallsHaveEntries, iamVars
<1>4. CASE Tick
  BY <1>4, ClientAssumption
  DEF Tick, Typed, TypeOK, CallsHaveEntries, callerVars, iamVars
<1>5. CASE UNCHANGED vars
  BY <1>5 DEF vars, Typed, TypeOK, CallsHaveEntries
<1> QED
  BY <1>1, <1>2, <1>3, <1>4, <1>5, CallerStepTyped, IssuerStepTyped DEF Next, CallerStart

\* Every variable keeps its type: in particular the breaker's count stays
\* within its threshold and a call in progress always names a cached entry.
THEOREM TypeCorrect == Spec => []TypeOK
<1>1. Spec => []Typed
  BY InitTyped, NextTyped, PTL DEF Spec
<1>2. Typed => TypeOK
  BY DEF Typed
<1> QED
  BY <1>1, <1>2, PTL

-----------------------------------------------------------------------------
(* The handover of the single-flight lock.                                 *)

Busy(e) == issue[e].phase # "none"

\* A step that moves nobody in or out of the critical section.
LEMMA QuietStep ==
    ASSUME SingleFlight, UNCHANGED lock,
           \A e \in Entry : Holders(e)' = Holders(e) /\ (Busy(e)' <=> Busy(e))
    PROVE  SingleFlight'
BY DEF SingleFlight, Busy

\* Leaving a call from outside the critical section moves nobody.
LEMMA ReturnOutside ==
    ASSUME Typed, NEW c \in Caller, pc[c] \notin Critical, NEW res, Return(c, res)
    PROVE  \A e \in Entry : Holders(e)' = Holders(e)
BY DEF Return, Holders, Critical, Typed, TypeOK

\* The holder of an entry leaves with the lock released: the entry is free.
LEMMA ReturnAndRelease ==
    ASSUME Typed, SingleFlight, NEW c \in Caller, pc[c] \in Critical,
           NEW res, Return(c, res), Release(req[c].entry),
           \A e \in Entry : Busy(e)' <=> Busy(e)
    PROVE  SingleFlight'
<1>0. PICK f \in Entry : f = req[c].entry
  BY DEF Typed, CallsHaveEntries, Critical
<1>1. c \in Holders(f) /\ ~Busy(f)
  BY <1>0 DEF Holders, SingleFlight, Busy
<1>2. Holders(f) = {c}
  BY <1>1 DEF SingleFlight
<1>3. \A e \in Entry : Holders(e)' = Holders(e) \ {c}
  BY DEF Return, Holders, Critical, Typed, TypeOK
<1>4. \A e \in Entry : e # f => Holders(e)' = Holders(e)
  BY <1>0, <1>3 DEF Holders
<1>5. lock' = [lock EXCEPT ![f] = FALSE] /\ lock \in [Entry -> BOOLEAN]
  BY <1>0 DEF Release, Typed, TypeOK
<1>6. Holders(f)' = {}
  BY <1>1, <1>2, <1>3
<1>7. ASSUME NEW e \in Entry
      PROVE  /\ \A x, y \in Holders(e)' : x = y
             /\ Busy(e)' => Holders(e)' = {}
             /\ lock'[e] <=> (Holders(e)' # {} \/ Busy(e)')
  <2>1. CASE e = f
    BY <1>1, <1>5, <1>6, <2>1
  <2>2. CASE e # f
    BY <1>4, <1>5, <2>2 DEF SingleFlight, Busy
  <2> QED
    BY <2>1, <2>2
<1> QED
  BY <1>7 DEF SingleFlight, Busy

LEMMA CallerStepSingleFlight ==
    ASSUME Typed, SingleFlight, NEW c \in Caller, CallerStep(c)
    PROVE  SingleFlight'
<1>1. CASE Acquire(c)
  <2>0. PICK f \in Entry : f = req[c].entry
    BY <1>1 DEF Acquire, Typed, CallsHaveEntries
  <2>1. Holders(f) = {} /\ ~Busy(f)
    BY <1>1, <2>0 DEF Acquire, SingleFlight, Busy
  <2>2. AfterAcquire(req[c].op) \in Critical
    BY DEF AfterAcquire, Critical
  <2>3. Holders(f)' = {c}
    BY <1>1, <2>0, <2>1, <2>2 DEF Acquire, Holders, Typed, TypeOK
  <2>4. \A e \in Entry : e # f => Holders(e)' = Holders(e)
    BY <1>1, <2>0, <2>2 DEF Acquire, Holders, Typed, TypeOK
  <2>5. lock' = [lock EXCEPT ![f] = TRUE] /\ lock \in [Entry -> BOOLEAN] /\ issue' = issue
    BY <1>1, <2>0 DEF Acquire, Typed, TypeOK
  <2>6. ASSUME NEW e \in Entry
        PROVE  /\ \A x, y \in Holders(e)' : x = y
               /\ Busy(e)' => Holders(e)' = {}
               /\ lock'[e] <=> (Holders(e)' # {} \/ Busy(e)')
    <3>1. CASE e = f
      BY <2>1, <2>3, <2>5, <3>1 DEF Busy
    <3>2. CASE e # f
      BY <2>4, <2>5, <3>2 DEF SingleFlight, Busy
    <3> QED
      BY <3>1, <3>2
  <2> QED
    BY <2>6 DEF SingleFlight, Busy
<1>2. CASE Enqueue(c)
  <2>1. \A e \in Entry : Holders(e)' = Holders(e)
    BY <1>2 DEF Enqueue, Holders, Critical, Typed, TypeOK
  <2> QED
    BY <1>2, <2>1, QuietStep DEF Enqueue, Busy
<1>3. CASE GiveUp(c)
  BY <1>3, ReturnOutside, QuietStep DEF GiveUp, Busy, Critical
<1>4. CASE RefreshLocked(c)
  <2>1. pc[c] \in Critical /\ UNCHANGED issue
    BY <1>4 DEF RefreshLocked, Critical
  <2>2. ASSUME NEW res, Return(c, res), Release(req[c].entry) PROVE SingleFlight'
    BY <2>1, <2>2, ReturnAndRelease DEF Busy
  <2>3. CASE pc' = [pc EXCEPT ![c] = "obtain"] /\ UNCHANGED <<lock, ret, req, ctxDone>>
    <3>1. \A e \in Entry : Holders(e)' = Holders(e)
      BY <2>1, <2>3 DEF Holders, Critical, Typed, TypeOK
    <3> QED
      BY <2>1, <2>3, <3>1, QuietStep DEF Busy
  <2> QED
    BY <1>4, <2>2, <2>3 DEF RefreshLocked
<1>5. CASE InvalidateLocked(c)
  BY <1>5, ReturnAndRelease DEF InvalidateLocked, Critical, Busy
<1>6. CASE ObtainLocked(c)
  <2>1. pc[c] \in Critical /\ UNCHANGED issue
    BY <1>6 DEF ObtainLocked, Critical
  <2>2. ASSUME NEW res, Return(c, res), Release(req[c].entry) PROVE SingleFlight'
    BY <2>1, <2>2, ReturnAndRelease DEF Busy
  <2>3. CASE /\ req' = [req EXCEPT ![c].at = now,
                                   ![c].valid = Valid(entries[req[c].entry], now)]
             /\ pc' = [pc EXCEPT ![c] = "gate"]
             /\ UNCHANGED <<lock, ret, ctxDone>>
    <3>1. \A d \in Caller : req'[d].entry = req[d].entry
      BY <2>3 DEF Typed, TypeOK, Request
    <3>2. \A e \in Entry : Holders(e)' = Holders(e)
      BY <2>1, <2>3, <3>1 DEF Holders, Critical, Typed, TypeOK
    <3> QED
      BY <2>1, <2>3, <3>2, QuietStep DEF Busy
  <2> QED
    BY <1>6, <2>2, <2>3 DEF ObtainLocked
<1>7. CASE Gate(c)
  <2>1. pc[c] \in Critical
    BY <1>7 DEF Gate, Critical
  <2>2. ASSUME NEW res, Return(c, res), Release(req[c].entry), UNCHANGED issue
        PROVE  SingleFlight'
    BY <2>1, <2>2, ReturnAndRelease DEF Busy
  <2>0. PICK f \in Entry : f = req[c].entry
    BY <2>1 DEF Typed, CallsHaveEntries, Critical
  <2> DEFINE i == [NoIssue EXCEPT !.phase = "started", !.waiter = c,
                                  !.start = req[c].at, !.deadline = now + Timeout,
                                  !.valid = req[c].valid]
  <2>3. CASE /\ issue' = [issue EXCEPT ![f] = i]
             /\ pc' = [pc EXCEPT ![c] = "wait"]
             /\ UNCHANGED <<lock, ret, req, ctxDone>>
    <3>1. c \in Holders(f) /\ lock[f]
      BY <2>0, <2>1 DEF Holders, SingleFlight
    <3>2. Holders(f) = {c}
      BY <3>1 DEF SingleFlight
    <3>3. \A e \in Entry : Holders(e)' = Holders(e) \ {c}
      BY <2>3 DEF Holders, Critical, Typed, TypeOK
    <3>4. Holders(f)' = {}
      BY <3>1, <3>2, <3>3
    <3>5. i.phase = "started"
      BY DEF NoIssue
    <3>6. Busy(f)' /\ \A e \in Entry : e # f => (Busy(e)' <=> Busy(e))
      BY <2>3, <3>1, <3>5 DEF Busy, Typed, TypeOK
    <3>7. \A e \in Entry : e # f => Holders(e)' = Holders(e)
      BY <2>0, <3>3 DEF Holders
    <3>8. ASSUME NEW e \in Entry
          PROVE  /\ \A x, y \in Holders(e)' : x = y
                 /\ Busy(e)' => Holders(e)' = {}
                 /\ lock'[e] <=> (Holders(e)' # {} \/ Busy(e)')
      <4>1. CASE e = f
        BY <2>3, <3>1, <3>4, <3>6, <4>1
      <4>2. CASE e # f
        BY <2>3, <3>6, <3>7, <4>2 DEF SingleFlight, Busy
      <4> QED
        BY <4>1, <4>2
    <3> QED
      BY <3>8 DEF SingleFlight, Busy
  <2> QED
    BY <1>7, <2>0, <2>2, <2>3 DEF Gate
<1>8. CASE Deliver(c)
  BY <1>8, ReturnOutside, QuietStep DEF Deliver, Busy, Critical
<1>9. CASE Abandon(c)
  <2>1. \A e \in Entry : Busy(e)' <=> Busy(e)
    BY <1>9 DEF Abandon, Forget, Busy, Typed, TypeOK, IssueState
  <2> QED
    BY <1>9, <2>1, ReturnOutside, QuietStep DEF Abandon, Critical
<1> QED
  BY <1>1, <1>2, <1>3, <1>4, <1>5, <1>6, <1>7, <1>8, <1>9 DEF CallerStep

LEMMA IssuerStepSingleFlight ==
    ASSUME Typed, SingleFlight, NEW f \in Entry, IssueRequest(f) \/ IssueStore(f) \/ IssueRelease(f)
    PROVE  SingleFlight'
<1>h. ASSUME UNCHANGED <<pc, req>> PROVE \A e \in Entry : Holders(e)' = Holders(e)
  BY <1>h DEF Holders
<1>1. CASE IssueRequest(f)
  <2>1. /\ issue[f].phase \in {"started", "calling"}
        /\ issue'[f].phase \in {"calling", "replied"}
        /\ \A e \in Entry : e # f => issue'[e] = issue[e]
    <3> issue \in [Entry -> IssueState]
      BY DEF Typed, TypeOK
    <3>0. ASSUME IssueSend(f) PROVE <2>1
      BY <3>0 DEF IssueSend, IssueState
    <3>1. ASSUME NEW reason, IssueFails(f, reason) PROVE <2>1
      BY <3>1 DEF IssueFails, IssueState
    <3>2. ASSUME NEW status, IamRefuses(f, status) PROVE <2>1
      BY <3>2 DEF IamRefuses, IssueState
    <3>3. ASSUME NEW x, IamIssues(f, x) PROVE <2>1
      BY <3>3 DEF IamIssues, IssueState
    <3> QED
      BY <1>1, <3>0, <3>1, <3>2, <3>3 DEF IssueRequest
  <2>2. \A e \in Entry : Busy(e)' <=> Busy(e)
    BY <2>1 DEF Busy
  <2> QED
    BY <1>1, <1>h, <2>2, QuietStep
    DEF IssueRequest, IssueSend, IssueFails, IamRefuses, IamIssues, callerVars
<1>2. CASE IssueStore(f)
  <2>1. \A e \in Entry : Busy(e)' <=> Busy(e)
    BY <1>2 DEF IssueStore, Busy, NoIssue, Typed, TypeOK
  <2> QED
    BY <1>2, <1>h, <2>1, QuietStep DEF IssueStore
<1>3. CASE IssueRelease(f)
  <2>1. Busy(f) /\ Holders(f) = {}
    BY <1>3 DEF IssueRelease, Busy, SingleFlight
  <2>2. ~Busy(f)' /\ \A e \in Entry : e # f => (Busy(e)' <=> Busy(e))
    BY <1>3 DEF IssueRelease, Busy, NoIssue, Typed, TypeOK
  <2>3. \A e \in Entry : Holders(e)' = Holders(e)
    BY <1>3, <1>h DEF IssueRelease, callerVars
  <2>4. lock' = [lock EXCEPT ![f] = FALSE] /\ lock \in [Entry -> BOOLEAN]
    BY <1>3 DEF IssueRelease, Release, Typed, TypeOK
  <2>5. ASSUME NEW e \in Entry
        PROVE  /\ \A x, y \in Holders(e)' : x = y
               /\ Busy(e)' => Holders(e)' = {}
               /\ lock'[e] <=> (Holders(e)' # {} \/ Busy(e)')
    <3>1. CASE e = f
      BY <2>1, <2>2, <2>3, <2>4, <3>1
    <3>2. CASE e # f
      BY <2>2, <2>3, <2>4, <3>2 DEF SingleFlight, Busy
    <3> QED
      BY <3>1, <3>2
  <2> QED
    BY <2>5 DEF SingleFlight, Busy
<1> QED
  BY <1>1, <1>2, <1>3

LEMMA NextSingleFlight == Typed /\ SingleFlight /\ [Next]_vars => SingleFlight'
<1> SUFFICES ASSUME Typed, SingleFlight, [Next]_vars PROVE SingleFlight'
  OBVIOUS
<1>1. ASSUME NEW c \in Caller, RejectArgs(c) PROVE SingleFlight'
  BY <1>1, ReturnOutside, QuietStep DEF RejectArgs, Critical, Busy
<1>2. ASSUME NEW c \in Caller, NEW op, NEW e, NEW sent, Call(c, op, e, sent)
      PROVE  SingleFlight'
  <2>1. \A x \in Entry : Holders(x)' = Holders(x)
    BY <1>2 DEF Call, Holders, Critical, Typed, TypeOK
  <2> QED
    BY <1>2, <2>1, QuietStep DEF Call, Busy
<1>3. ASSUME NEW c \in Caller, CtxEnd(c) PROVE SingleFlight'
  BY <1>3, QuietStep DEF CtxEnd, Holders, Busy
<1>4. CASE Tick
  BY <1>4, QuietStep DEF Tick, callerVars, Holders, Busy
<1>5. CASE UNCHANGED vars
  BY <1>5, QuietStep DEF vars, Holders, Busy
<1> QED
  BY <1>1, <1>2, <1>3, <1>4, <1>5, CallerStepSingleFlight, IssuerStepSingleFlight
  DEF Next, CallerStart

LEMMA InitSingleFlight == Init => SingleFlight
<1> SUFFICES ASSUME Init, NEW e \in Entry PROVE Holders(e) = {} /\ ~lock[e] /\ ~Busy(e)
  BY DEF SingleFlight, Busy
<1>1. Holders(e) = {}
  BY DEF Init, Holders, Critical
<1>2. ~lock[e] /\ ~Busy(e)
  BY DEF Init, Busy, NoIssue
<1> QED
  BY <1>1, <1>2

\* The single-flight lock of an entry is held exactly while one caller or one
\* issuing goroutine works on it: obtainLocked hands it over and it is
\* released once, whether the caller waits for the result or abandons it.
THEOREM SingleFlightHolds == Spec => []SingleFlight
<1>1. Spec => [](Typed /\ SingleFlight)
  BY InitTyped, NextTyped, InitSingleFlight, NextSingleFlight, PTL DEF Spec
<1> QED
  BY <1>1, PTL

-----------------------------------------------------------------------------
(* The cache, the backoff and the breaker.                                 *)

\* Clock readings kept across steps are in the past.
CapturedInPast ==
    /\ \A c \in Caller : req[c].at <= now
    /\ \A e \in Entry : issue[e].start <= now

\* The token was minted for the entry after its last invalidation and is
\* believed to live no longer than it does.
TokenFacts(e, tok, expiresAt) ==
    /\ tok \in 1..minted
    /\ tok > floor[e]
    /\ iam[tok].entry = e
    /\ expiresAt <= iam[tok].exp

\* Tokens in the cache, and answers on their way into it, are sound.
CacheFactsOf(e) ==
    /\ floor[e] <= minted
    /\ entries[e].token # NoToken => TokenFacts(e, entries[e].token, entries[e].expiresAt)
    /\ issue[e].phase = "replied" /\ issue[e].reason = "" =>
           TokenFacts(e, issue[e].tok, issue[e].start + issue[e].ttl)

CacheFacts == \A e \in Entry : CacheFactsOf(e)

\* At time t a renewal of what n holds is due.
Due(n, t) ==
    n.token # NoToken =>
        \/ t >= n.expiresAt - RenewBefore
        \/ t - n.issuedAt >= MinReissueAge

BackoffOver(n, t) == n.lastErr # "" => t >= n.retryAt

\* A request for what n holds may go out with the clock reading t.
MayAsk(n, t) == Due(n, t) /\ BackoffOver(n, t)

\* Renewal was forced only when due; whoever passed the checks of
\* obtainLocked keeps them true until the answer is stored.
RenewalFacts ==
    /\ \A e \in Entry :
           /\ entries[e].renewAt = entries[e].expiresAt - RenewBefore \/ Due(entries[e], now)
           /\ issue[e].phase \in {"started", "calling", "replied"} => MayAsk(entries[e], issue[e].start)
    /\ \A c \in Caller : pc[c] = "gate" => MayAsk(entries[req[c].entry], req[c].at)

Facts == CapturedInPast /\ CacheFacts /\ RenewalFacts /\ LockoutBounded

Inv == Typed /\ SingleFlight /\ Facts

shared == <<now, entries, breakers, issue, iam, minted, floor>>

-----------------------------------------------------------------------------
(* Steps that leave the shared state alone.                                *)

\* A step of callers only keeps the facts if it captures no clock and brings
\* nobody to the breaker.
LEMMA CallersOnly ==
    ASSUME Facts, UNCHANGED shared,
           \A d \in Caller : /\ req'[d].at <= now
                             /\ pc'[d] = "gate" => pc[d] = "gate" /\ req'[d] = req[d]
    PROVE  Facts'
<1>1. CapturedInPast'
  BY DEF Facts, CapturedInPast, shared
<1>2. CacheFacts'
  BY DEF Facts, CacheFacts, CacheFactsOf, TokenFacts, shared
<1>3. RenewalFacts'
  BY DEF Facts, RenewalFacts, shared
<1>4. LockoutBounded'
  BY DEF Facts, LockoutBounded, shared
<1> QED
  BY <1>1, <1>2, <1>3, <1>4 DEF Facts

\* Returning captures no clock and brings nobody to the breaker.
LEMMA ReturnQuiet ==
    ASSUME Typed, CapturedInPast, NEW c \in Caller, NEW res, Return(c, res)
    PROVE  \A d \in Caller : /\ req'[d].at <= now
                             /\ pc'[d] = "gate" => pc[d] = "gate" /\ req'[d] = req[d]
<1>1. NoReq.at <= now
  BY DEF NoReq, Zero, Typed, TypeOK
<1>2. req \in [Caller -> Request] /\ pc \in [Caller -> PCs]
  BY DEF Typed, TypeOK
<1>3. \A d \in Caller : req'[d] = IF d = c THEN NoReq ELSE req[d]
  BY <1>2 DEF Return
<1>4. \A d \in Caller : pc'[d] = IF d = c THEN "idle" ELSE pc[d]
  BY <1>2 DEF Return
<1> QED
  BY <1>1, <1>3, <1>4 DEF CapturedInPast

\* What a step does not touch keeps its facts.
LEMMA OtherEntry ==
    ASSUME NEW f \in Entry, CacheFacts, UNCHANGED <<iam, minted>>, floor'[f] = floor[f],
           entries'[f] = entries[f], issue'[f] = issue[f]
    PROVE  CacheFactsOf(f)'
BY DEF CacheFacts, CacheFactsOf, TokenFacts

\* A newly built client satisfies the facts (New).
LEMMA InitFacts == Init => Facts
<1> SUFFICES ASSUME Init PROVE Facts
  OBVIOUS
<1>e. \A e \in Entry : /\ entries[e].token = NoToken /\ entries[e].retryAt = 0
                       /\ issue[e].phase = "none" /\ issue[e].start = 0
                       /\ floor[e] = 0
  BY DEF Init, EmptyEntry, NoIssue, Zero
<1>c. \A c \in Caller : pc[c] = "idle" /\ req[c].at = 0
  BY DEF Init, NoReq, Zero
<1>a. \A a \in Aud : breakers[a].openUntil = 0
  BY DEF Init, ClosedBreaker, Zero
<1>n. now = 1 /\ minted = 0
  BY DEF Init
<1>1. CapturedInPast
  BY <1>e, <1>c, <1>n DEF CapturedInPast
<1>2. CacheFacts
  <2> SUFFICES ASSUME NEW e \in Entry
               PROVE  floor[e] <= minted /\ entries[e].token = NoToken /\ issue[e].phase # "replied"
    BY DEF CacheFacts, CacheFactsOf
  <2> QED
    BY <1>e, <1>n
<1>3. RenewalFacts
  BY <1>e, <1>c DEF RenewalFacts, Due
<1>4. LockoutBounded
  BY <1>e, <1>a, <1>n, ClientAssumption DEF LockoutBounded
<1> QED
  BY <1>1, <1>2, <1>3, <1>4 DEF Facts

-----------------------------------------------------------------------------
(* Callers.                                                                *)

\* Every step of a caller keeps the facts (Token, Refresh, Invalidate,
\* obtainLocked).
LEMMA CallerStepFacts ==
    ASSUME Inv, NEW c \in Caller, CallerStep(c)
    PROVE  Facts'
<1>t. Typed /\ SingleFlight /\ Facts /\ CapturedInPast /\ CacheFacts /\ RenewalFacts
      /\ LockoutBounded
  BY DEF Inv, Facts
<1>p. pc \in [Caller -> PCs] /\ req \in [Caller -> Request] /\ now \in 1..MaxTime
      /\ entries \in [Entry -> EntryState] /\ issue \in [Entry -> IssueState]
      /\ minted \in 0..MaxTokens /\ floor \in [Entry -> 0..MaxTokens]
  BY <1>t DEF Typed, TypeOK
<1>q. \A d \in Caller : pc[d] = "gate" => req[d].entry \in Entry
  BY <1>t DEF Typed, CallsHaveEntries
<1>1. CASE Acquire(c)
  <2>1. \A d \in Caller : /\ req'[d].at <= now
                          /\ pc'[d] = "gate" => pc[d] = "gate" /\ req'[d] = req[d]
    BY <1>1, <1>p, <1>t DEF Acquire, AfterAcquire, CapturedInPast
  <2> QED
    BY <1>1, <1>t, <2>1, CallersOnly DEF Acquire, shared, iamVars
<1>2. CASE Enqueue(c)
  <2>1. \A d \in Caller : /\ req'[d].at <= now
                          /\ pc'[d] = "gate" => pc[d] = "gate" /\ req'[d] = req[d]
    BY <1>2, <1>p, <1>t DEF Enqueue, CapturedInPast
  <2> QED
    BY <1>2, <1>t, <2>1, CallersOnly DEF Enqueue, shared, iamVars
<1>3. CASE GiveUp(c)
  BY <1>3, <1>t, ReturnQuiet, CallersOnly DEF GiveUp, shared, iamVars
<1>4. CASE RefreshLocked(c)
  <2>0. PICK e \in Entry : e = req[c].entry
    BY <1>4, <1>t DEF RefreshLocked, Typed, CallsHaveEntries
  <2>1. CASE UNCHANGED entries /\ \E res : Return(c, res)
    BY <1>4, <2>1, <1>t, ReturnQuiet, CallersOnly DEF RefreshLocked, shared, iamVars
  <2>2. CASE /\ ~Adoptable(entries[e], req[c].sent, now)
             /\ ~TooYoung(entries[e], req[c].sent, now)
             /\ entries' = [entries EXCEPT ![e].renewAt = Zero]
             /\ pc' = [pc EXCEPT ![c] = "obtain"]
             /\ UNCHANGED <<lock, ret, req, ctxDone>>
    <3>u. UNCHANGED <<now, breakers, issue, iam, minted, floor>>
      BY <1>4 DEF RefreshLocked, iamVars
    <3>d. Due(entries[e], now)
      BY <2>2, <1>p, ClientAssumption DEF Adoptable, TooYoung, Due, EntryState
    <3>1. \A f \in Entry :
             /\ entries'[f].token = entries[f].token
             /\ entries'[f].issuedAt = entries[f].issuedAt
             /\ entries'[f].expiresAt = entries[f].expiresAt
             /\ entries'[f].lastErr = entries[f].lastErr
             /\ entries'[f].retryAt = entries[f].retryAt
             /\ f # e => entries'[f].renewAt = entries[f].renewAt
      BY <2>2, <1>p DEF EntryState
    <3>2. CapturedInPast'
      BY <2>2, <3>u, <1>t DEF CapturedInPast
    <3>3. CacheFacts'
      BY <3>1, <3>u, <1>t DEF CacheFacts, CacheFactsOf, TokenFacts
    <3>4. \A f \in Entry : \A t : MayAsk(entries[f], t) => MayAsk(entries'[f], t)
      BY <3>1 DEF MayAsk, Due, BackoffOver
    <3>5. \A d \in Caller : pc'[d] = "gate" => pc[d] = "gate"
      BY <2>2, <1>p
    <3>6. \A f \in Entry : Due(entries[f], now) => Due(entries'[f], now)
      BY <3>1 DEF Due
    <3>7. RenewalFacts'
      BY <2>2, <3>u, <3>d, <3>1, <3>4, <3>5, <3>6, <1>t, <1>q DEF RenewalFacts
    <3>8. LockoutBounded'
      BY <3>1, <3>u, <1>t DEF LockoutBounded
    <3> QED
      BY <3>2, <3>3, <3>7, <3>8 DEF Facts
  <2> QED
    BY <1>4, <2>0, <2>1, <2>2 DEF RefreshLocked
<1>5. CASE InvalidateLocked(c)
  <2>0. PICK e \in Entry : e = req[c].entry
    BY <1>5, <1>t DEF InvalidateLocked, Typed, CallsHaveEntries
  <2>u. UNCHANGED <<now, breakers, issue, iam, minted>>
    BY <1>5 DEF InvalidateLocked, iamVars
  <2>f. floor' = [floor EXCEPT ![e] = minted]
    BY <1>5, <2>0 DEF InvalidateLocked
  <2>s. issue[e].phase = "none"
    BY <1>5, <2>0, <1>t DEF InvalidateLocked, SingleFlight, Holders, Critical
  <2>1. \A f \in Entry :
           /\ f # e => entries'[f] = entries[f] /\ floor'[f] = floor[f]
           /\ entries'[f].token = (IF f = e THEN NoToken ELSE entries[f].token)
           /\ entries'[f].lastErr = entries[f].lastErr
           /\ entries'[f].retryAt = entries[f].retryAt
    BY <1>5, <2>0, <2>f, <1>p DEF InvalidateLocked, ClearedEntry, EmptyEntry, EntryState
  <2>r. \A d \in Caller : /\ req'[d].at <= now
                          /\ pc'[d] = "gate" => pc[d] = "gate" /\ req'[d] = req[d]
    BY <1>5, <1>t, ReturnQuiet DEF InvalidateLocked
  <2>2. CapturedInPast'
    BY <2>u, <2>r, <1>t DEF CapturedInPast
  <2>3. CacheFacts'
    <3>1. entries'[e].token = NoToken /\ issue'[e].phase # "replied" /\ floor'[e] <= minted'
      BY <2>u, <2>s, <2>f, <2>1, <1>p
    <3>2. CacheFactsOf(e)'
      BY <3>1 DEF CacheFactsOf
    <3> QED
      BY <2>u, <2>1, <3>2, <1>t, OtherEntry DEF CacheFacts
  <2>4. \A f \in Entry : \A t : MayAsk(entries[f], t) => MayAsk(entries'[f], t)
    BY <2>1 DEF MayAsk, Due, BackoffOver
  <2>5. Due(entries'[e], now)
    BY <2>1 DEF Due
  <2>6. RenewalFacts'
    BY <2>u, <2>1, <2>4, <2>5, <2>r, <1>t, <1>q DEF RenewalFacts
  <2>7. LockoutBounded'
    BY <2>u, <2>1, <1>t DEF LockoutBounded
  <2> QED
    BY <2>2, <2>3, <2>6, <2>7 DEF Facts
<1>6. CASE ObtainLocked(c)
  <2>0. PICK e \in Entry : e = req[c].entry
    BY <1>6, <1>t DEF ObtainLocked, Typed, CallsHaveEntries
  <2>u. UNCHANGED shared
    BY <1>6 DEF ObtainLocked, shared, iamVars
  <2>1. CASE \E res : Return(c, res)
    BY <2>1, <2>u, <1>t, ReturnQuiet, CallersOnly
  <2>2. CASE /\ ~Cached(entries[e], now)
             /\ ~InBackoff(entries[e], now)
             /\ req' = [req EXCEPT ![c].at = now, ![c].valid = Valid(entries[e], now)]
             /\ pc' = [pc EXCEPT ![c] = "gate"]
    <3>1. MayAsk(entries[e], now)
      <4>0. /\ entries[e].retryAt \in Int /\ entries[e].renewAt \in Int
            /\ entries[e].expiresAt \in Int /\ now \in Int /\ RenewBefore \in Int
        BY <1>p, ClientAssumption DEF EntryState
      <4>a. ~Cached(entries[e], now) /\ ~InBackoff(entries[e], now)
        BY <2>2
      <4>1. BackoffOver(entries[e], now)
        <5>1. now < entries[e].retryAt \/ now >= entries[e].retryAt
          BY <4>0
        <5> QED
          BY <4>a, <5>1 DEF InBackoff, BackoffOver
      <4>2. ASSUME entries[e].renewAt = entries[e].expiresAt - RenewBefore
            PROVE  Due(entries[e], now)
        BY <4>0, <4>2, <4>a DEF Cached, Due
      <4> QED
        BY <4>1, <4>2, <1>t DEF MayAsk, RenewalFacts
    <3>2. \A d \in Caller : d # c => req'[d] = req[d] /\ pc'[d] = pc[d]
      BY <2>2, <1>p
    <3>3. req'[c].at = now /\ req'[c].entry = e
      BY <2>0, <2>2, <1>p DEF Request
    <3>4. CapturedInPast'
      BY <2>u, <3>2, <3>3, <1>p, <1>t DEF CapturedInPast, shared
    <3>5. CacheFacts'
      BY <2>u, <1>t DEF CacheFacts, CacheFactsOf, TokenFacts, shared
    <3>6. RenewalFacts'
      BY <2>u, <3>1, <3>2, <3>3, <1>t DEF RenewalFacts, shared
    <3>7. LockoutBounded'
      BY <2>u, <1>t DEF LockoutBounded, shared
    <3> QED
      BY <3>4, <3>5, <3>6, <3>7 DEF Facts
  <2> QED
    BY <1>6, <2>0, <2>1, <2>2 DEF ObtainLocked
<1>7. CASE Gate(c)
  <2>0. PICK e \in Entry : e = req[c].entry
    BY <1>7, <1>t DEF Gate, Typed, CallsHaveEntries
  <2>1. CASE UNCHANGED issue /\ \E res : Return(c, res)
    BY <1>7, <2>1, <1>t, ReturnQuiet, CallersOnly DEF Gate, shared, iamVars
  <2>2. CASE /\ issue' = [issue EXCEPT ![e] = [NoIssue EXCEPT !.phase = "started",
                             !.waiter = c, !.start = req[c].at, !.deadline = now + Timeout,
                                           !.valid = req[c].valid]]
             /\ pc' = [pc EXCEPT ![c] = "wait"]
             /\ UNCHANGED <<lock, ret, req, ctxDone>>
    <3>u. UNCHANGED <<now, entries, breakers, iam, minted, floor>>
      BY <1>7 DEF Gate, iamVars
    <3>1. /\ issue'[e].phase = "started" /\ issue'[e].start = req[c].at
          /\ \A f \in Entry : f # e => issue'[f] = issue[f]
      BY <2>2, <1>p DEF NoIssue
    <3>2. MayAsk(entries[e], req[c].at)
      BY <1>7, <2>0, <1>t DEF Gate, RenewalFacts
    <3>3. CapturedInPast'
      BY <2>2, <3>u, <3>1, <1>t DEF CapturedInPast
    <3>4. CacheFacts'
      BY <3>u, <3>1, <1>t DEF CacheFacts, CacheFactsOf, TokenFacts
    <3>5. \A d \in Caller : pc'[d] = "gate" => pc[d] = "gate"
      BY <2>2, <1>p
    <3>6. RenewalFacts'
      BY <2>2, <3>u, <3>1, <3>2, <3>5, <1>t DEF RenewalFacts
    <3>7. LockoutBounded'
      BY <3>u, <1>t DEF LockoutBounded
    <3> QED
      BY <3>3, <3>4, <3>6, <3>7 DEF Facts
  <2> QED
    BY <1>7, <2>0, <2>1, <2>2 DEF Gate
<1>8. CASE Deliver(c)
  BY <1>8, <1>t, ReturnQuiet, CallersOnly DEF Deliver, shared, iamVars
<1>9. CASE Abandon(c)
  <2>u. UNCHANGED <<now, entries, breakers, iam, minted, floor>>
    BY <1>9 DEF Abandon, iamVars
  <2>1. \A f \in Entry :
           /\ issue'[f].phase = issue[f].phase /\ issue'[f].start = issue[f].start
           /\ issue'[f].reason = issue[f].reason /\ issue'[f].tok = issue[f].tok
           /\ issue'[f].ttl = issue[f].ttl
    BY <1>9, <1>p DEF Abandon, Forget, IssueState
  <2>r. \A d \in Caller : /\ req'[d].at <= now
                          /\ pc'[d] = "gate" => pc[d] = "gate" /\ req'[d] = req[d]
    BY <1>9, <1>t, ReturnQuiet DEF Abandon
  <2>2. CapturedInPast'
    BY <2>u, <2>1, <2>r, <1>t DEF CapturedInPast
  <2>3. CacheFacts'
    BY <2>u, <2>1, <1>t DEF CacheFacts, CacheFactsOf, TokenFacts
  <2>4. RenewalFacts'
    BY <2>u, <2>1, <2>r, <1>t DEF RenewalFacts
  <2>5. LockoutBounded'
    BY <2>u, <1>t DEF LockoutBounded
  <2> QED
    BY <2>2, <2>3, <2>4, <2>5 DEF Facts
<1> QED
  BY <1>1, <1>2, <1>3, <1>4, <1>5, <1>6, <1>7, <1>8, <1>9 DEF CallerStep

-----------------------------------------------------------------------------
(* The issuing goroutine, iam and the clock.                               *)

\* A failed attempt leaves the facts alone until it is stored (issue).
LEMMA FailedAnswer ==
    ASSUME Inv, NEW e \in Entry, NEW reason \in Reasons,
           issue[e].phase \in {"started", "calling"},
           issue' = [issue EXCEPT ![e].phase = "replied", ![e].reason = reason],
           UNCHANGED <<now, entries, breakers, callerVars, iamVars, floor>>
    PROVE  Facts'
<1>t. Typed /\ CapturedInPast /\ CacheFacts /\ RenewalFacts /\ LockoutBounded
  BY DEF Inv, Facts
<1>u. UNCHANGED <<now, entries, breakers, iam, minted, floor, pc, req>>
  BY DEF callerVars, iamVars
<1>r. reason # ""
  BY DEF Reasons, TripReasons
<1>1. /\ issue'[e].phase = "replied" /\ issue'[e].reason = reason
      /\ issue'[e].start = issue[e].start
      /\ \A f \in Entry : f # e => issue'[f] = issue[f]
  BY <1>t DEF Typed, TypeOK, IssueState
<1>2. CapturedInPast'
  BY <1>t, <1>u, <1>1 DEF CapturedInPast
<1>3. CacheFacts'
  <2>1. CacheFactsOf(e)'
    BY <1>t, <1>u, <1>r, <1>1 DEF CacheFacts, CacheFactsOf, TokenFacts
  <2> QED
    BY <1>t, <1>u, <1>1, <2>1, OtherEntry DEF CacheFacts
<1>4. RenewalFacts'
  BY <1>t, <1>u, <1>1 DEF RenewalFacts
<1>5. LockoutBounded'
  BY <1>t, <1>u DEF LockoutBounded
<1> QED
  BY <1>2, <1>3, <1>4, <1>5 DEF Facts

\* Every step of an issuing goroutine keeps the facts (issue, issueAndStore).
LEMMA IssuerStepFacts ==
    ASSUME Inv, NEW e \in Entry, IssueRequest(e) \/ IssueStore(e) \/ IssueRelease(e)
    PROVE  Facts'
<1>t. Typed /\ SingleFlight /\ CapturedInPast /\ CacheFacts /\ RenewalFacts /\ LockoutBounded
  BY DEF Inv, Facts
<1>p. now \in 1..MaxTime /\ entries \in [Entry -> EntryState] /\ issue \in [Entry -> IssueState]
      /\ minted \in 0..MaxTokens /\ floor \in [Entry -> 0..MaxTokens]
      /\ iam \in [TokenId -> [entry: Entry \cup {NoEntry}, exp: Int]]
      /\ breakers \in [Aud -> BreakerState]
  BY <1>t DEF Typed, TypeOK
<1>6. CASE IssueSend(e)
  <2>u. UNCHANGED <<now, entries, breakers, iam, minted, floor, pc, req>>
    BY <1>6 DEF IssueSend, callerVars
  <2>1. /\ issue[e].phase = "started" /\ issue'[e].phase = "calling"
        /\ issue'[e].start = issue[e].start
        /\ \A f \in Entry : f # e => issue'[f] = issue[f]
    BY <1>6, <1>p DEF IssueSend, IssueState
  <2>2. CapturedInPast'
    BY <2>u, <2>1, <1>t DEF CapturedInPast
  <2>3. CacheFacts'
    BY <2>u, <2>1, <1>t DEF CacheFacts, CacheFactsOf, TokenFacts
  <2>4. RenewalFacts'
    BY <2>u, <2>1, <1>t DEF RenewalFacts
  <2>5. LockoutBounded'
    BY <2>u, <1>t DEF LockoutBounded
  <2> QED
    BY <2>2, <2>3, <2>4, <2>5 DEF Facts
<1>1. ASSUME NEW reason \in {"sign", "transport"}, IssueFails(e, reason) PROVE Facts'
  <2>1. reason \in Reasons
    BY DEF Reasons, TripReasons
  <2> QED
    BY <1>1, <2>1, FailedAnswer DEF IssueFails
<1>2. ASSUME NEW status \in Status, IamRefuses(e, status) PROVE Facts'
  <2>1. ReasonOf(status) \in Reasons
    BY DEF ReasonOf, Reasons, TripReasons
  <2> QED
    BY <1>2, <2>1, FailedAnswer DEF IamRefuses
<1>3. ASSUME NEW x \in ExpiresIn, IamIssues(e, x) PROVE Facts'
  <2>1. CASE x <= 0
    <3>1. "decode" \in Reasons
      BY DEF Reasons, TripReasons
    <3> QED
      BY <1>3, <2>1, <3>1, FailedAnswer DEF IamIssues
  <2>2. CASE ~(x <= 0)
    <3>x. x \in Int /\ CapTTL(x) \in Int /\ CapTTL(x) <= x
      BY ClientAssumption DEF CapTTL
    <3>u. UNCHANGED <<now, entries, breakers, floor, pc, req>> /\ issue[e].phase = "calling"
      BY <1>3 DEF IamIssues, callerVars
    <3>m. /\ minted < MaxTokens /\ minted' = minted + 1
          /\ iam' = [iam EXCEPT ![minted + 1] = [entry |-> e, exp |-> now + x]]
          /\ issue' = [issue EXCEPT ![e].phase = "replied", ![e].tok = minted + 1,
                                    ![e].ttl = CapTTL(x)]
      BY <1>3, <2>2 DEF IamIssues
    <3>1. /\ issue'[e].phase = "replied" /\ issue'[e].tok = minted + 1
          /\ issue'[e].ttl = CapTTL(x) /\ issue'[e].start = issue[e].start
          /\ issue[e].start \in Int
          /\ \A f \in Entry : f # e => issue'[f] = issue[f]
      BY <3>m, <1>p DEF IssueState
    <3>2. /\ minted + 1 \in TokenId
          /\ iam'[minted + 1] = [entry |-> e, exp |-> now + x]
          /\ \A tok \in 1..minted : iam'[tok] = iam[tok]
      BY <3>m, <1>p, ClientAssumption DEF TokenId
    <3>3. \A f \in Entry : \A tok, until : TokenFacts(f, tok, until) => TokenFacts(f, tok, until)'
      BY <3>2, <3>m, <3>u, <1>p DEF TokenFacts
    <3>4. issue[e].start + CapTTL(x) <= now + x
      BY <3>x, <3>1, <1>p, <1>t DEF CapturedInPast
    <3>5. \A f \in Entry : floor[f] \in Int /\ floor[f] <= minted
      <4>1. \A f \in Entry : floor[f] \in Int
        BY <1>p
      <4>2. \A f \in Entry : floor[f] <= minted
        BY <1>t DEF CacheFacts, CacheFactsOf
      <4> QED
        BY <4>1, <4>2
    <3>6. PICK tok, until : tok = minted + 1 /\ until = issue[e].start + CapTTL(x)
      OBVIOUS
    <3>7. TokenFacts(e, tok, until)'
      <4>1. tok \in 1..minted' /\ tok > floor'[e]
        BY <3>u, <3>m, <3>5, <3>6, <1>p
      <4>2. iam'[tok].entry = e /\ until <= iam'[tok].exp
        BY <3>2, <3>4, <3>6
      <4> QED
        BY <4>1, <4>2 DEF TokenFacts
    <3>c. CapturedInPast'
      BY <3>u, <3>1, <1>t DEF CapturedInPast
    <3>8. CacheFacts'
      <4>1. \A f \in Entry : floor'[f] <= minted'
        BY <3>u, <3>m, <3>5, <1>p
      <4>2. \A f \in Entry : entries'[f].token # NoToken =>
                TokenFacts(f, entries[f].token, entries[f].expiresAt)'
        BY <3>u, <3>3, <1>t DEF CacheFacts, CacheFactsOf
      <4>3. TokenFacts(e, issue[e].tok, issue[e].start + issue[e].ttl)'
        BY <3>1, <3>6, <3>7
      <4>4. \A f \in Entry : f # e /\ issue'[f].phase = "replied" /\ issue'[f].reason = "" =>
                TokenFacts(f, issue[f].tok, issue[f].start + issue[f].ttl)'
        BY <3>1, <3>3, <1>t DEF CacheFacts, CacheFactsOf
      <4> QED
        BY <4>1, <4>2, <4>3, <4>4 DEF CacheFacts, CacheFactsOf
    <3>9. RenewalFacts'
      BY <3>u, <3>1, <1>t DEF RenewalFacts
    <3>10. LockoutBounded'
      BY <3>u, <1>t DEF LockoutBounded
    <3> QED
      BY <3>c, <3>8, <3>9, <3>10 DEF Facts
  <2> QED
    BY <2>1, <2>2
<1>4. CASE IssueStore(e)
  <2>u. UNCHANGED <<now, iam, minted, floor, pc, req>>
    BY <1>4 DEF IssueStore, iamVars
  <2>i. /\ issue[e].phase = "replied" /\ issue[e] \in IssueState /\ AudOf[e] \in Aud
        /\ issue[e].start \in Int /\ issue[e].ttl \in Int /\ issue[e].start <= now
    BY <1>4, <1>p, <1>t, ClientAssumption DEF IssueStore, IssueState, CapturedInPast
  <2>1. /\ issue'[e].phase = "stored" /\ issue'[e].start = 0
        /\ \A f \in Entry : f # e => issue'[f] = issue[f] /\ entries'[f] = entries[f]
    BY <1>4, <1>p DEF IssueStore, NoIssue, Zero
  <2>g. \A d \in Caller : pc[d] = "gate" => req[d].entry \in Entry \ {e}
    BY <2>i, <1>t DEF SingleFlight, Holders, Critical, Typed, CallsHaveEntries
  <2>2. CapturedInPast'
    BY <2>u, <2>1, <1>p, <1>t DEF CapturedInPast
  <2>3. CASE issue[e].reason = ""
    <3>1. /\ entries'[e].token = issue[e].tok /\ entries'[e].issuedAt = issue[e].start
          /\ entries'[e].expiresAt = issue[e].start + issue[e].ttl
          /\ entries'[e].renewAt = issue[e].start + issue[e].ttl - RenewBefore
          /\ entries'[e].retryAt = 0
      <4>1. entries' = [entries EXCEPT ![e] = Stored(issue[e])]
        BY <1>4, <2>3 DEF IssueStore
      <4>2. entries'[e] = Stored(issue[e])
        BY <4>1, <1>p
      <4> QED
        BY <4>2 DEF Stored, EmptyEntry, Zero
    <3>2. TokenFacts(e, issue[e].tok, issue[e].start + issue[e].ttl)
      BY <2>i, <2>3, <1>t DEF CacheFacts, CacheFactsOf
    <3>3. CacheFacts'
      <4>1. CacheFactsOf(e)'
        BY <2>u, <2>1, <3>1, <3>2, <1>t DEF CacheFacts, CacheFactsOf, TokenFacts
      <4> QED
        BY <2>u, <2>1, <4>1, <1>t, OtherEntry DEF CacheFacts
    <3>4. RenewalFacts'
      <4>1. entries'[e].renewAt = entries'[e].expiresAt - RenewBefore
        BY <2>i, <3>1, ClientAssumption
      <4>2. issue'[e].phase \notin {"started", "calling", "replied"}
        BY <2>1
      <4> QED
        BY <2>u, <2>1, <2>g, <4>1, <4>2, <1>t DEF RenewalFacts
    <3>5. breakers' = [breakers EXCEPT ![AudOf[e]] = ClosedBreaker]
      BY <1>4, <2>3 DEF IssueStore
    <3>6. \A a \in Aud : breakers'[a].openUntil <= now + OpenFor
      BY <3>5, <2>i, <1>p, <1>t, ClientAssumption DEF LockoutBounded, ClosedBreaker, Zero
    <3>7. \A f \in Entry : entries'[f].retryAt <= now + RetryBackoff
      BY <2>1, <3>1, <1>p, <1>t, ClientAssumption DEF LockoutBounded
    <3> QED
      BY <2>2, <2>u, <3>3, <3>4, <3>6, <3>7 DEF Facts, LockoutBounded
  <2>4. CASE issue[e].reason # ""
    <3>1. entries'[e] = Failed(entries[e], issue[e])
      BY <1>4, <2>4, <1>p DEF IssueStore
    <3>2. /\ entries'[e].token = entries[e].token /\ entries'[e].issuedAt = entries[e].issuedAt
          /\ entries'[e].expiresAt = entries[e].expiresAt
          /\ entries'[e].renewAt = entries[e].renewAt
          /\ \/ entries'[e].retryAt = entries[e].retryAt
             \/ entries'[e].retryAt = issue[e].start + RetryBackoff
      BY <3>1, <1>p DEF Failed, EntryState
    <3>3. CacheFacts'
      <4>1. CacheFactsOf(e)'
        BY <2>u, <2>1, <3>2, <1>t DEF CacheFacts, CacheFactsOf, TokenFacts
      <4> QED
        BY <2>u, <2>1, <4>1, <1>t, OtherEntry DEF CacheFacts
    <3>d. Due(entries[e], now) => Due(entries'[e], now)
      BY <3>2 DEF Due
    <3>4. RenewalFacts'
      BY <2>u, <2>1, <2>g, <3>2, <3>d, <1>t DEF RenewalFacts
    <3>5. \A a \in Aud : breakers'[a].openUntil <= now + OpenFor
      <4>1. \/ breakers' = breakers
            \/ breakers' = [breakers EXCEPT ![AudOf[e]] =
                                RecordFailure(breakers[AudOf[e]], issue[e].start)]
        BY <1>4, <2>4 DEF IssueStore
      <4>2. LET b == RecordFailure(breakers[AudOf[e]], issue[e].start)
            IN  \/ b.openUntil = issue[e].start + OpenFor
                \/ b.openUntil = breakers[AudOf[e]].openUntil
        BY DEF RecordFailure
      <4> QED
        BY <4>1, <4>2, <2>i, <1>p, <1>t, ClientAssumption DEF LockoutBounded
    <3>6. \A f \in Entry : entries'[f].retryAt <= now + RetryBackoff
      BY <2>1, <2>i, <3>2, <1>p, <1>t, ClientAssumption DEF LockoutBounded
    <3> QED
      BY <2>2, <2>u, <3>3, <3>4, <3>5, <3>6 DEF Facts, LockoutBounded
  <2> QED
    BY <2>3, <2>4
<1>5. CASE IssueRelease(e)
  <2>u. UNCHANGED <<now, entries, breakers, iam, minted, floor, pc, req>>
    BY <1>5 DEF IssueRelease, callerVars, iamVars
  <2>1. /\ issue'[e].phase = "none" /\ issue'[e].start = 0
        /\ \A f \in Entry : f # e => issue'[f] = issue[f]
    BY <1>5, <1>p DEF IssueRelease, NoIssue, Zero
  <2>2. CapturedInPast'
    BY <2>u, <2>1, <1>p, <1>t DEF CapturedInPast
  <2>3. CacheFacts'
    BY <2>u, <2>1, <1>t DEF CacheFacts, CacheFactsOf, TokenFacts
  <2>4. RenewalFacts'
    BY <2>u, <2>1, <1>t DEF RenewalFacts
  <2>5. LockoutBounded'
    BY <2>u, <1>t DEF LockoutBounded
  <2> QED
    BY <2>2, <2>3, <2>4, <2>5 DEF Facts
<1> QED
  BY <1>1, <1>2, <1>3, <1>4, <1>5, <1>6 DEF IssueRequest

\* The passing of time keeps the facts.
LEMMA TickFacts ==
    ASSUME Inv, Tick
    PROVE  Facts'
<1>t. Typed /\ CapturedInPast /\ CacheFacts /\ RenewalFacts /\ LockoutBounded
  BY DEF Inv, Facts
<1>u. UNCHANGED <<entries, breakers, issue, iam, minted, floor, pc, req>>
  BY DEF Tick, callerVars, iamVars
<1>n. now \in Int /\ now' = now + 1
  BY <1>t DEF Tick, Typed, TypeOK
<1>p. /\ \A c \in Caller : req[c].at \in Int
      /\ \A e \in Entry : issue[e].start \in Int /\ entries[e].retryAt \in Int
      /\ \A a \in Aud : breakers[a].openUntil \in Int
  BY <1>t DEF Typed, TypeOK, Request, IssueState, EntryState, BreakerState
<1>1. CapturedInPast'
  BY <1>t, <1>u, <1>n, <1>p DEF CapturedInPast
<1>2. CacheFacts'
  BY <1>t, <1>u DEF CacheFacts, CacheFactsOf, TokenFacts
<1>3. \A e \in Entry : Due(entries[e], now) => Due(entries[e], now + 1)
  <2> SUFFICES ASSUME NEW e \in Entry, Due(entries[e], now) PROVE Due(entries[e], now + 1)
    OBVIOUS
  <2>1. entries[e].expiresAt \in Int /\ entries[e].issuedAt \in Int
    BY <1>t DEF Typed, TypeOK, EntryState
  <2> QED
    BY <2>1, <1>n, ClientAssumption DEF Due
<1>4. RenewalFacts'
  BY <1>t, <1>u, <1>n, <1>3 DEF RenewalFacts
<1>5. LockoutBounded'
  BY <1>t, <1>u, <1>n, <1>p, ClientAssumption DEF LockoutBounded
<1> QED
  BY <1>1, <1>2, <1>4, <1>5 DEF Facts

-----------------------------------------------------------------------------
(* The theorems.                                                           *)

\* Every step of the client keeps the invariant.
LEMMA NextInv == Inv /\ [Next]_vars => Inv'
<1> SUFFICES ASSUME Inv, [Next]_vars PROVE Facts'
  BY NextTyped, NextSingleFlight DEF Inv
<1>t. Typed /\ Facts /\ CapturedInPast
  BY DEF Inv, Facts
<1>p. pc \in [Caller -> PCs] /\ req \in [Caller -> Request] /\ now \in 1..MaxTime
  BY <1>t DEF Typed, TypeOK
<1>1. ASSUME NEW c \in Caller, RejectArgs(c) PROVE Facts'
  BY <1>1, <1>t, ReturnQuiet, CallersOnly DEF RejectArgs, shared, iamVars
<1>2. ASSUME NEW c \in Caller, NEW op, NEW e, NEW sent, Call(c, op, e, sent) PROVE Facts'
  <2>1. \A d \in Caller : /\ req'[d].at <= now
                          /\ pc'[d] = "gate" => pc[d] = "gate" /\ req'[d] = req[d]
    <3>1. req'[c].at = 0 /\ pc'[c] = "try"
      BY <1>2, <1>p DEF Call, Zero
    <3>2. \A d \in Caller : d # c => req'[d] = req[d] /\ pc'[d] = pc[d]
      BY <1>2, <1>p DEF Call
    <3> QED
      BY <3>1, <3>2, <1>p, <1>t DEF CapturedInPast
  <2> QED
    BY <1>2, <1>t, <2>1, CallersOnly DEF Call, shared, iamVars
<1>3. ASSUME NEW c \in Caller, CtxEnd(c) PROVE Facts'
  BY <1>3, <1>t, CallersOnly DEF CtxEnd, CapturedInPast, shared, iamVars
<1>4. CASE UNCHANGED vars
  BY <1>4, <1>t, CallersOnly DEF vars, CapturedInPast, shared
<1> QED
  BY <1>1, <1>2, <1>3, <1>4, CallerStepFacts, IssuerStepFacts, TickFacts DEF Next, CallerStart

\* The invariant holds throughout (New, and every operation of the client).
THEOREM CacheInvariant == Spec => []Inv
  BY InitTyped, InitSingleFlight, InitFacts, NextInv, PTL DEF Spec, Inv

\* However late an answer arrives and is stored, the client never believes a
\* token to live longer than iam signed (issueAndStore).
THEOREM ConservativeExpiryHolds == Spec => []ConservativeExpiry
<1>1. Inv => ConservativeExpiry
  BY DEF Inv, Facts, CacheFacts, CacheFactsOf, TokenFacts, ConservativeExpiry
<1> QED
  BY CacheInvariant, <1>1, PTL

\* A token minted before Invalidate returned never comes back into the cache,
\* not even from an issuance its caller abandoned (Invalidate, issueAndStore).
THEOREM InvalidatedStaysGoneHolds == Spec => []InvalidatedStaysGone
<1>1. Inv => InvalidatedStaysGone
  BY DEF Inv, Facts, CacheFacts, CacheFactsOf, TokenFacts, InvalidatedStaysGone
<1> QED
  BY CacheInvariant, <1>1, PTL

\* iam is asked for a new token only when the cached one is in its renewal
\* window or at least MinReissueAge old (Refresh, obtainLocked).
THEOREM ReissueSpacingHolds == Spec => []ReissueSpacing
<1>1. Inv => ReissueSpacing
  BY DEF Inv, Facts, RenewalFacts, MayAsk, Due, ReissueSpacing
<1> QED
  BY CacheInvariant, <1>1, PTL

\* No request goes out before the backoff of the last rejection ends
\* (obtainLocked).
THEOREM BackoffRespectedHolds == Spec => []BackoffRespected
<1>1. Inv => BackoffRespected
  BY DEF Inv, Facts, RenewalFacts, MayAsk, BackoffOver, BackoffRespected
<1> QED
  BY CacheInvariant, <1>1, PTL

\* A failure shuts the client out of iam for at most OpenFor, a rejection for
\* at most RetryBackoff, from the current instant (recordFailure).
THEOREM LockoutBoundedHolds == Spec => []LockoutBounded
<1>1. Inv => LockoutBounded
  BY DEF Inv, Facts
<1> QED
  BY CacheInvariant, <1>1, PTL

\* A breaker whose count is below the threshold shuts nothing out.
ClosedIsZero ==
    \A a \in Aud : breakers[a].failures < FailureThreshold => breakers[a].openUntil = Zero

\* The request of e that crossed the open circuit was the one allowed before it
\* opened: no other has been let in since.
CrossingOf(e) ==
    /\ crossed[e] <= 1
    /\ crossed[e] = 1 /\ CircuitOpen(e) => issue[e].phase # "started"

Crossings == ClosedIsZero /\ \A e \in Entry : CrossingOf(e)

\* A step that neither touches the breakers nor starts an issuance.
LEMMA CrossingsKept ==
    ASSUME Inv, Typed', Crossings, UNCHANGED <<breakers, crossed>>, now' >= now,
           \A f \in Entry : issue'[f].phase = "started" => issue[f].phase = "started"
    PROVE  Crossings'
<1>1. ClosedIsZero'
  BY DEF Crossings, ClosedIsZero
<1>2. ASSUME NEW f \in Entry PROVE CrossingOf(f)'
  <2>1. CrossingOf(f)
    BY DEF Crossings
  <2>2. CircuitOpen(f)' => CircuitOpen(f)
    <3>1. /\ now \in Int /\ now' \in Int /\ breakers[AudOf[f]].openUntil \in Int
      BY ClientAssumption DEF Inv, Typed, TypeOK, BreakerState
    <3> QED
      BY <3>1 DEF CircuitOpen
  <2> QED
    BY <2>1, <2>2 DEF CrossingOf
<1> QED
  BY <1>1, <1>2 DEF Crossings

\* Passing the breaker with a clock reading in the past means that the circuit
\* is not open now (allow).
LEMMA AllowedIsShut ==
    ASSUME Inv, ClosedIsZero, NEW e \in Entry, NEW t \in Int, t <= now,
           Allow(breakers[AudOf[e]], t)
    PROVE  ~CircuitOpen(e)
<1>1. /\ now \in Int /\ now >= 1 /\ AudOf[e] \in Aud
      /\ breakers[AudOf[e]].openUntil \in Int
  BY ClientAssumption DEF Inv, Typed, TypeOK, BreakerState
<1> QED
  BY <1>1 DEF Allow, ClosedIsZero, CircuitOpen, Zero

LEMMA GateCrossings ==
    ASSUME Inv, Typed', Crossings, NEW c \in Caller, Gate(c)
    PROVE  Crossings'
<1>t. Typed /\ issue \in [Entry -> IssueState] /\ now \in Int /\ CapturedInPast
  BY DEF Inv, Facts, Typed, TypeOK
<1>u. UNCHANGED <<now, breakers, crossed>>
  BY DEF Gate, iamVars
<1>1. PICK e \in Entry : e = req[c].entry
  BY <1>t DEF Gate, Typed, CallsHaveEntries
<1>2. CASE UNCHANGED issue
  BY <1>2, <1>t, <1>u, CrossingsKept
<1>3. CASE Allow(breakers[AudOf[e]], req[c].at) /\ \A f \in Entry : f # e => issue'[f] = issue[f]
  <2>1. ~CircuitOpen(e)
    <3>1. req[c].at \in Int /\ req[c].at <= now
      BY <1>t DEF Typed, TypeOK, Request, CapturedInPast
    <3> QED
      BY <1>3, <3>1, AllowedIsShut DEF Crossings
  <2>2. ASSUME NEW f \in Entry PROVE CrossingOf(f)'
    BY <1>3, <1>u, <2>1 DEF Crossings, CrossingOf, CircuitOpen
  <2> QED
    BY <1>u, <2>2 DEF Crossings, ClosedIsZero
<1> QED
  BY <1>1, <1>2, <1>3, <1>t DEF Gate

\* The request goes out: it is the first to cross, and no issuance that could
\* send another is left (issue).
LEMMA SendCrossings ==
    ASSUME Inv, Crossings, NEW e \in Entry, IssueSend(e)
    PROVE  Crossings'
<1>t. issue \in [Entry -> IssueState] /\ crossed \in [Entry -> 0..2]
  BY DEF Inv, Typed, TypeOK
<1>u. UNCHANGED <<now, breakers>>
  BY DEF IssueSend
<1>1. /\ issue[e].phase = "started" /\ issue'[e].phase = "calling"
      /\ \A f \in Entry : f # e => issue'[f] = issue[f] /\ crossed'[f] = crossed[f]
  BY <1>t DEF IssueSend, IssueState
<1>2. CrossingOf(e)'
  <2>1. CircuitOpen(e) => crossed[e] = 0
    BY <1>1, <1>t DEF Crossings, CrossingOf
  <2>2. crossed'[e] = IF CircuitOpen(e) THEN 1 ELSE crossed[e]
    BY <1>t, <2>1 DEF IssueSend
  <2>3. crossed[e] <= 1
    BY DEF Crossings, CrossingOf
  <2> QED
    BY <1>1, <2>2, <2>3 DEF CrossingOf
<1>3. ASSUME NEW f \in Entry, f # e PROVE CrossingOf(f)'
  BY <1>1, <1>3, <1>u DEF Crossings, CrossingOf, CircuitOpen
<1> QED
  BY <1>2, <1>3, <1>u DEF Crossings, ClosedIsZero

\* A stored result that finds the circuit shut starts the count again; one that
\* finds it open leaves nothing to send (issueAndStore, recordFailure).
LEMMA StoreCrossings ==
    ASSUME Inv, Crossings, NEW e \in Entry, IssueStore(e)
    PROVE  Crossings'
<1> DEFINE a == AudOf[e]
           i == issue[e]
<1>t. /\ issue \in [Entry -> IssueState] /\ crossed \in [Entry -> 0..2]
      /\ breakers \in [Aud -> BreakerState] /\ a \in Aud /\ AudOf \in [Entry -> Aud]
  BY ClientAssumption DEF Inv, Typed, TypeOK
<1>1. \A f \in Entry : issue'[f].phase = "started" => issue[f].phase = "started"
  BY <1>t DEF IssueStore, NoIssue
<1>2. \A f \in Entry : crossed'[f] = IF AudOf[f] = a /\ ~CircuitOpen(f) THEN 0 ELSE crossed[f]
  BY DEF IssueStore
<1>3. \A x \in Aud : x # a => breakers'[x] = breakers[x]
  BY <1>t DEF IssueStore
<1>4. \/ breakers'[a] = breakers[a] \/ breakers'[a] = ClosedBreaker
      \/ breakers'[a] = RecordFailure(breakers[a], i.start)
  BY <1>t DEF IssueStore
<1>5. ClosedIsZero'
  <2>1. breakers[a].failures < FailureThreshold => breakers[a].openUntil = Zero
    BY <1>t DEF Crossings, ClosedIsZero
  <2>2. breakers[a].failures \in Int /\ FailureThreshold \in Int
    BY <1>t, ClientAssumption DEF BreakerState
  <2>3. RecordFailure(breakers[a], i.start).failures < FailureThreshold
            => RecordFailure(breakers[a], i.start).openUntil = Zero
    BY <2>1, <2>2 DEF RecordFailure
  <2>4. breakers'[a].failures < FailureThreshold => breakers'[a].openUntil = Zero
    BY <1>4, <2>1, <2>3 DEF ClosedBreaker
  <2> QED
    BY <1>3, <2>4 DEF Crossings, ClosedIsZero
<1>6. ASSUME NEW f \in Entry PROVE CrossingOf(f)'
  <2>1. CrossingOf(f)
    BY DEF Crossings
  <2>2. CASE AudOf[f] = a /\ ~CircuitOpen(f)
    BY <1>2, <2>2 DEF CrossingOf
  <2>3. CASE AudOf[f] = a /\ CircuitOpen(f)
    BY <1>1, <1>2, <2>1, <2>3 DEF CrossingOf
  <2>4. CASE AudOf[f] # a
    <3>1. CircuitOpen(f)' <=> CircuitOpen(f)
      BY <1>3, <1>t, <2>4 DEF CircuitOpen, IssueStore
    <3> QED
      BY <1>1, <1>2, <2>1, <2>4, <3>1 DEF CrossingOf
  <2> QED
    BY <2>2, <2>3, <2>4
<1> QED
  BY <1>5, <1>6 DEF Crossings

LEMMA NextCrossings == Inv /\ Crossings /\ [Next]_vars => Crossings'
<1> SUFFICES ASSUME Inv, Crossings, [Next]_vars PROVE Crossings'
  OBVIOUS
<1>t. Typed /\ Typed' /\ issue \in [Entry -> IssueState] /\ now \in Int
  BY NextInv DEF Inv, Typed, TypeOK
<1>k. ASSUME UNCHANGED <<now, breakers, crossed>>,
             \A f \in Entry : issue'[f].phase = "started" => issue[f].phase = "started"
      PROVE  Crossings'
  BY <1>k, <1>t, CrossingsKept
<1>1. ASSUME NEW c \in Caller, CallerStart(c) \/ CtxEnd(c) PROVE Crossings'
  BY <1>1, <1>k DEF CallerStart, RejectArgs, Call, CtxEnd, iamVars
<1>2. ASSUME NEW c \in Caller, CallerStep(c) PROVE Crossings'
  <2>1. CASE Abandon(c)
    BY <2>1, <1>k, <1>t DEF Abandon, Forget, IssueState, iamVars
  <2>2. CASE Gate(c)
    BY <2>2, <1>t, GateCrossings
  <2>3. CASE \/ Acquire(c) \/ Enqueue(c) \/ GiveUp(c) \/ RefreshLocked(c)
             \/ InvalidateLocked(c) \/ ObtainLocked(c) \/ Deliver(c)
    BY <2>3, <1>k DEF Acquire, Enqueue, GiveUp, RefreshLocked, InvalidateLocked, ObtainLocked,
                      Deliver, iamVars
  <2> QED
    BY <1>2, <2>1, <2>2, <2>3 DEF CallerStep
<1>3. ASSUME NEW e \in Entry, IssueRequest(e) PROVE Crossings'
  <2>1. ASSUME UNCHANGED <<now, breakers, crossed>>,
               NEW reason, issue' = [issue EXCEPT ![e].phase = "replied", ![e].reason = reason]
        PROVE  Crossings'
    BY <2>1, <1>k, <1>t DEF IssueState
  <2>2. ASSUME UNCHANGED <<now, breakers, crossed>>, NEW tok, NEW ttl,
               issue' = [issue EXCEPT ![e].phase = "replied", ![e].tok = tok, ![e].ttl = ttl]
        PROVE  Crossings'
    BY <2>2, <1>k, <1>t DEF IssueState
  <2>3. ASSUME NEW reason \in {"sign", "transport"}, IssueFails(e, reason) PROVE Crossings'
    BY <2>1, <2>3 DEF IssueFails, iamVars
  <2>4. ASSUME NEW status \in Status, IamRefuses(e, status) PROVE Crossings'
    BY <2>1, <2>4 DEF IamRefuses, iamVars
  <2>5. ASSUME NEW x \in ExpiresIn, IamIssues(e, x) PROVE Crossings'
    BY <2>1, <2>2, <2>5 DEF IamIssues, iamVars
  <2> QED
    BY <1>3, <2>3, <2>4, <2>5, SendCrossings DEF IssueRequest
<1>4. ASSUME NEW e \in Entry, IssueRelease(e) PROVE Crossings'
  BY <1>4, <1>k, <1>t DEF IssueRelease, NoIssue, iamVars
<1>5. CASE Tick
  BY <1>5, <1>t, CrossingsKept DEF Tick, iamVars
<1>6. CASE UNCHANGED vars
  BY <1>6, <1>k DEF vars
<1> QED
  BY <1>1, <1>2, <1>3, <1>4, <1>5, <1>6, StoreCrossings DEF Next

\* While the circuit of an audience stays open at most one request of each
\* entry goes out, the one allowed before the failure of another entry opened
\* it, however long ago its caller read the clock (allow, recordFailure).
THEOREM OpenCircuitCrossedOnceHolds == Spec => []OpenCircuitCrossedOnce
<1>1. Init => Crossings
  <2> SUFFICES ASSUME Init PROVE Crossings
    OBVIOUS
  <2>1. ClosedIsZero
    BY DEF Init, ClosedIsZero, ClosedBreaker
  <2>2. \A e \in Entry : crossed[e] = 0
    BY DEF Init
  <2>3. \A e \in Entry : CrossingOf(e)
    BY <2>2 DEF CrossingOf
  <2> QED
    BY <2>1, <2>3 DEF Crossings
<1>2. Spec => [](Inv /\ Crossings)
  BY <1>1, InitTyped, InitSingleFlight, InitFacts, NextInv, NextCrossings, PTL DEF Spec, Inv
<1>3. Crossings => OpenCircuitCrossedOnce
  BY DEF Crossings, CrossingOf, OpenCircuitCrossedOnce
<1> QED
  BY <1>2, <1>3, PTL

-----------------------------------------------------------------------------
(***************************************************************************)
(* S2SClient implements TokenService, for every set of callers and         *)
(* entries, every setting of the client and every bound.                   *)
(*                                                                         *)
(* The invariant of the cache says what a stored token is.  Two more facts *)
(* are needed to say what a call returns: tokens of an entry enter the     *)
(* cache in the order in which they were minted, so that a token other     *)
(* than the rejected one is newer; and the result waiting in a done        *)
(* channel suits the call that will read it.                               *)
(*                                                                         *)
(* The same facts, with the clock in place of the order, show that a token *)
(* handed out was live at some instant of the call.                        *)
(***************************************************************************)

\* Tokens of an entry reach the cache in the order iam minted them.
NewestOf(e) ==
    /\ entries[e].token # NoToken =>
           \A t \in TokenId : iam[t].entry = e =>
               \/ t <= entries[e].token
               \/ issue[e].phase = "replied" /\ issue[e].reason = "" /\ t = issue[e].tok
    /\ issue[e].phase = "replied" /\ issue[e].reason = "" =>
           \A t \in TokenId : iam[t].entry = e => t <= issue[e].tok

\* A token promised as fallback is there, and a reason is only ever given by
\* the answer.
AttemptOf(e) ==
    /\ issue[e].phase \in {"started", "calling"} => issue[e].reason = ""
    /\ issue[e].phase \in {"started", "calling", "replied"} /\ issue[e].valid => entries[e].token # NoToken

TokenOrder ==
    /\ \A t \in TokenId : t > minted => iam[t].entry = NoEntry
    /\ \A e \in Entry : NewestOf(e) /\ AttemptOf(e)

\* Whoever an attempt reports to is waiting for it.
WaiterOf(e) ==
    issue[e].waiter # NoCaller =>
        LET c == issue[e].waiter IN pc[c] = "wait" /\ req[c].entry = e /\ ~done[c].full

\* The token suits the call, except that Refresh may still find in it the
\* rejected one.
Suits(c, t) ==
    /\ t \in TokenId
    /\ iam[t].entry = req[c].entry
    /\ t > req[c].since
    /\ req[c].op = "Refresh" => t >= req[c].sent

\* A result of obtainLocked: a token that suits, or an error and no token.
SoundResult(c, res) == IF res.err = "" THEN Suits(c, res.tok) ELSE res.tok = NoToken

OpAt(c) ==
    /\ pc[c] = "refresh" => req[c].op = "Refresh"
    /\ pc[c] = "invalidate" => req[c].op = "Invalidate"
    /\ pc[c] \in {"obtain", "gate", "wait"} => req[c].op # "Invalidate"

CallFacts(c) ==
    /\ OpAt(c)
    /\ pc[c] # "idle" =>
           /\ req[c].since <= floor[req[c].entry]
           /\ req[c].op = "Refresh" =>
                  req[c].sent \in TokenId /\ iam[req[c].sent].entry = req[c].entry
    /\ pc[c] = "gate" /\ req[c].valid => entries[req[c].entry].token # NoToken
    /\ done[c].full => pc[c] = "wait" /\ SoundResult(c, done[c].res)
    /\ c \in ctxDone => pc[c] # "idle" /\ req[c].op # "Invalidate"

CallsSound == (\A e \in Entry : WaiterOf(e)) /\ (\A c \in Caller : CallFacts(c))

RefInv == TokenOrder /\ CallsSound

Full == Inv /\ RefInv

-----------------------------------------------------------------------------
(* What the invariant says of one call.                                    *)

LEMMA MintedIsToken ==
    ASSUME NEW m \in 0..MaxTokens, NEW t \in 1..m
    PROVE  t \in TokenId /\ t \in Nat /\ t # NoToken
BY ClientAssumption DEF TokenId, NoToken

LEMMA TokenIdNat == \A t \in TokenId : t \in Nat /\ t # NoToken /\ t \in 1..MaxTokens
BY ClientAssumption DEF TokenId, NoToken

LEMMA UpToMaxNat == \A t \in 0..MaxTokens : t \in Nat
BY ClientAssumption

LEMMA AboveIsAbove ==
    ASSUME NEW a \in Nat, NEW b \in Nat, NEW x \in Nat, a > b, x <= b
    PROVE  a > x
OBVIOUS

\* Nobody issues for the entry a caller is working on.
LEMMA CriticalAlone ==
    ASSUME Typed, SingleFlight, NEW c \in Caller, pc[c] \in Critical
    PROVE  req[c].entry \in Entry /\ issue[req[c].entry].phase = "none"
<1>1. req[c].entry \in Entry
  BY DEF Typed, CallsHaveEntries, Critical
<1>2. c \in Holders(req[c].entry)
  BY DEF Holders
<1> QED
  BY <1>1, <1>2 DEF SingleFlight

\* Two callers never work on one entry.
LEMMA CriticalApart ==
    ASSUME Typed, SingleFlight, NEW c \in Caller, NEW d \in Caller, c # d,
           pc[c] \in Critical, pc[d] \in Critical
    PROVE  req[c].entry # req[d].entry
<1>1. req[c].entry \in Entry
  BY CriticalAlone
<1> QED
  BY <1>1 DEF SingleFlight, Holders

\* The cached token of its entry suits a call (Refresh may find the rejected
\* one there).
LEMMA CachedSuits ==
    ASSUME Full, NEW c \in Caller, pc[c] # "idle", NEW e \in Entry, e = req[c].entry,
           entries[e].token # NoToken,
           ~(issue[e].phase = "replied" /\ issue[e].reason = "")
    PROVE  Suits(c, entries[e].token)
<1> DEFINE t == entries[e].token
<1>1. t \in 1..minted /\ t > floor[e] /\ iam[t].entry = e
  BY DEF Full, Inv, Facts, CacheFacts, CacheFactsOf, TokenFacts
<1>2. minted \in 0..MaxTokens /\ floor[e] \in 0..MaxTokens /\ req[c].since \in 0..MaxTokens
      /\ req[c].sent \in 0..MaxTokens
  BY DEF Full, Inv, Typed, TypeOK, Request
<1>3. t \in TokenId
  BY <1>1, <1>2, MintedIsToken
<1>4. CallFacts(c)
  BY DEF Full, RefInv, CallsSound
<1>5. t > req[c].since
  <2>1. req[c].since <= floor[e]
    BY <1>4 DEF CallFacts
  <2>2. t \in Nat /\ floor[e] \in Nat /\ req[c].since \in Nat
    BY <1>2, <1>3, TokenIdNat, UpToMaxNat
  <2>3. t > floor[e]
    BY <1>1
  <2> QED
    BY <2>1, <2>2, <2>3, AboveIsAbove
<1>6. ASSUME req[c].op = "Refresh" PROVE t >= req[c].sent
  <2>1. req[c].sent \in TokenId /\ iam[req[c].sent].entry = e
    BY <1>4, <1>6 DEF CallFacts
  <2>2. req[c].sent <= t
    BY <2>1 DEF Full, RefInv, TokenOrder, NewestOf
  <2>3. req[c].sent \in Nat /\ t \in Nat
    BY <1>2, <1>3, TokenIdNat, UpToMaxNat
  <2> QED
    BY <2>2, <2>3
<1> QED
  BY <1>1, <1>3, <1>5, <1>6 DEF Suits

-----------------------------------------------------------------------------
(* Steps of the implementation as steps of TokenService.                   *)

\* What obtainLocked gives, as Token or Refresh pass it on, is one of the
\* answers the service allows.
LEMMA OutcomeAllowed ==
    ASSUME Typed, NEW c \in Caller, pc[c] # "idle", req[c].op # "Invalidate",
           NEW res \in Result, SoundResult(c, res)
    PROVE  AbsAnswer(Outcome(c, res)) \in Service!Answers(AbsCall(c))
<1> DEFINE call == AbsCall(c)
<1>0. req[c] \in Request /\ req[c].op \in {"Token", "Refresh"}
  BY DEF Typed, TypeOK, Request, AllOps
<1>1. call.op = req[c].op /\ call.entry = req[c].entry /\ call.sent = req[c].sent
      /\ call.since = req[c].since
  BY DEF AbsCall
<1>2. CASE res.err # ""
  <2>1. AbsAnswer(Outcome(c, res)) = Service!Failure
    BY <1>2 DEF Outcome, AbsAnswer, SoundResult, Service!Failure, Service!NoToken, NoToken
  <2> QED
    BY <2>1, <1>0, <1>1 DEF Service!Answers
<1>3. CASE res.err = "" /\ req[c].op = "Refresh" /\ res.tok = req[c].sent
  <2>1. AbsAnswer(Outcome(c, res)) = Service!Nothing
    BY <1>3 DEF Outcome, AbsAnswer, Service!Nothing, Service!NoToken, NoToken
  <2> QED
    BY <2>1, <1>1, <1>3 DEF Service!Answers
<1>4. CASE res.err = "" /\ ~(req[c].op = "Refresh" /\ res.tok = req[c].sent)
  <2>1. Suits(c, res.tok) /\ res.tok # NoToken
    BY <1>4, TokenIdNat DEF SoundResult, Suits
  <2>2. Outcome(c, res) = res
    BY <1>4 DEF Outcome
  <2>3. AbsAnswer(Outcome(c, res)) = Service!TokenAnswer(res.tok)
    BY <1>4, <2>1, <2>2 DEF AbsAnswer, Service!TokenAnswer
  <2>4. Service!Fit(call, res.tok)
    <3>1. res.tok \in 1..MaxTokens /\ [t \in TokenId |-> iam[t].entry][res.tok] = call.entry
      BY <2>1, <1>1 DEF Suits, TokenId
    <3>2. req[c].op = "Refresh" => res.tok > req[c].sent
      <4> SUFFICES ASSUME req[c].op = "Refresh" PROVE res.tok > req[c].sent
        OBVIOUS
      <4>1. res.tok \in Nat /\ req[c].sent \in Nat
        BY <2>1, <1>0, TokenIdNat, UpToMaxNat DEF Suits, Request
      <4>2. res.tok >= req[c].sent /\ res.tok # req[c].sent
        BY <1>4, <2>1 DEF Suits
      <4> QED
        BY <4>1, <4>2
    <3> QED
      BY <3>1, <3>2, <2>1, <1>1 DEF Service!Fit, Suits
  <2>5. res.tok \in 1..MaxTokens
    BY <2>1 DEF Suits, TokenId
  <2>6. call.op # "Invalidate"
    BY <1>1
  <2>7. Service!TokenAnswer(res.tok) \in Service!Answers(call)
    <3> HIDE DEF call
    <3> QED
      BY <2>4, <2>5, <2>6 DEF Service!Answers
  <2> QED
    BY <2>3, <2>7
<1> QED
  BY <1>2, <1>3, <1>4

\* The calls and answers TokenService sees.
absCalls == [d \in Caller |-> AbsCall(d)]
absAnswers == [d \in Caller |-> AbsAnswer(ret[d])]

\* A step that neither starts nor ends a call, mints nothing and retires
\* nothing is invisible.
LEMMA Invisible ==
    ASSUME Typed, UNCHANGED <<ret, iam, minted, floor>>,
           \A d \in Caller : AbsCall(d)' = AbsCall(d)
    PROVE  UNCHANGED Service!serviceVars
<1>1. absCalls' = absCalls
  BY DEF absCalls
<1>2. absAnswers' = absAnswers
  BY DEF absAnswers
<1> QED
  BY <1>1, <1>2 DEF Service!serviceVars, absCalls, absAnswers

\* A caller that moves inside its call stays in it.
LEMMA SameCall ==
    ASSUME Typed, NEW c \in Caller, pc[c] # "idle",
           \A d \in Caller : d # c => pc'[d] = pc[d] /\ req'[d] = req[d],
           pc'[c] # "idle", req'[c].op = req[c].op, req'[c].entry = req[c].entry,
           req'[c].sent = req[c].sent, req'[c].since = req[c].since
    PROVE  \A d \in Caller : AbsCall(d)' = AbsCall(d)
BY DEF AbsCall

\* Return, seen from outside: the call is over and its caller has the answer.
LEMMA ReturnSeen ==
    ASSUME Typed, NEW c \in Caller, NEW res, Return(c, res)
    PROVE  /\ absCalls' = [absCalls EXCEPT ![c] = Service!NoCall]
           /\ absAnswers' = [absAnswers EXCEPT ![c] = AbsAnswer(res)]
<1>1. pc \in [Caller -> PCs] /\ ret \in [Caller -> Result] /\ req \in [Caller -> Request]
  BY DEF Typed, TypeOK
<1>2. \A d \in Caller : /\ pc'[d] = IF d = c THEN "idle" ELSE pc[d]
                        /\ ret'[d] = IF d = c THEN res ELSE ret[d]
                        /\ req'[d] = IF d = c THEN NoReq ELSE req[d]
  BY <1>1 DEF Return
<1>3. AbsCall(c)' = Service!NoCall
  BY <1>2 DEF AbsCall, Service!NoCall, Service!NoToken, NoToken
<1>4. \A d \in Caller : d # c => AbsCall(d)' = AbsCall(d)
  BY <1>2 DEF AbsCall
<1>5. \A d \in Caller : AbsAnswer(ret[d])' = IF d = c THEN AbsAnswer(res) ELSE AbsAnswer(ret[d])
  BY <1>2 DEF AbsAnswer
<1>6. absCalls' = [absCalls EXCEPT ![c] = Service!NoCall]
  BY <1>3, <1>4 DEF absCalls
<1>7. absAnswers' = [absAnswers EXCEPT ![c] = AbsAnswer(res)]
  BY <1>5 DEF absAnswers
<1> QED
  BY <1>6, <1>7

LEMMA CallNotNone ==
    ASSUME Typed, NEW c \in Caller, pc[c] # "idle"
    PROVE  AbsCall(c) # Service!NoCall /\ AbsCall(c).op = req[c].op /\ AbsCall(c).entry = req[c].entry
<1>1. req[c].op \in {"Token", "Refresh", "Invalidate"}
  BY DEF Typed, TypeOK, Request, AllOps
<1>2. AbsCall(c).op = req[c].op /\ AbsCall(c).entry = req[c].entry
  BY DEF AbsCall
<1>3. Service!NoCall.op = "none"
  BY DEF Service!NoCall
<1> QED
  BY <1>1, <1>2, <1>3

\* Token or Refresh returns with an answer the service allows.
LEMMA ReturnSimulates ==
    ASSUME Typed, NEW c \in Caller, pc[c] # "idle", NEW res, Return(c, res),
           AbsAnswer(res) \in Service!Answers(AbsCall(c)),
           UNCHANGED <<iam, minted>>,
           floor' = IF req[c].op = "Invalidate" THEN [floor EXCEPT ![req[c].entry] = minted]
                    ELSE floor
    PROVE  Service!CallStep(c)
<1> DEFINE a == AbsAnswer(res)
<1>1. absCalls' = [absCalls EXCEPT ![c] = Service!NoCall] /\ absAnswers' = [absAnswers EXCEPT ![c] = a]
  BY ReturnSeen
<1>2. absCalls[c] = AbsCall(c) /\ absCalls[c] # Service!NoCall /\ absCalls[c].op = req[c].op
      /\ absCalls[c].entry = req[c].entry
  BY CallNotNone DEF absCalls
<1>3. absCalls'[c] = Service!NoCall
  BY <1>1 DEF absCalls
<1>4. [t \in TokenId |-> iam[t].entry]' = [t \in TokenId |-> iam[t].entry]
  OBVIOUS
<1>5. Service!End(c, a)
  BY <1>1, <1>2, <1>4 DEF Service!End, absCalls, absAnswers
<1>6. a \in Service!Answers(absCalls[c])
  BY <1>2
<1> QED
  BY <1>2, <1>3, <1>5, <1>6 DEF Service!CallStep, absCalls

LEMMA FailureAllowed ==
    ASSUME Typed, NEW c \in Caller, pc[c] # "idle", req[c].op # "Invalidate",
           NEW err \in Errors, err # ""
    PROVE  AbsAnswer([tok |-> NoToken, err |-> err]) \in Service!Answers(AbsCall(c))
<1>1. AbsAnswer([tok |-> NoToken, err |-> err]) = Service!Failure
  BY DEF AbsAnswer, Service!Failure, Service!NoToken, NoToken
<1> QED
  BY <1>1, CallNotNone DEF Service!Answers

LEMMA NothingAllowed ==
    ASSUME Typed, NEW c \in Caller, pc[c] # "idle", req[c].op # "Token"
    PROVE  AbsAnswer(NoResult) \in Service!Answers(AbsCall(c))
<1>1. AbsAnswer(NoResult) = Service!Nothing
  BY DEF AbsAnswer, NoResult, Service!Nothing, Service!NoToken, NoToken
<1> QED
  BY <1>1, CallNotNone DEF Service!Answers

\* Token, Refresh and Invalidate begin, or refuse their arguments.
LEMMA StartSimulates ==
    ASSUME Full, NEW c \in Caller, CallerStart(c)
    PROVE  Service!CallStep(c)
<1>t. Typed /\ pc \in [Caller -> PCs] /\ ret \in [Caller -> Result] /\ req \in [Caller -> Request]
  BY DEF Full, Inv, Typed, TypeOK
<1>i. [t \in TokenId |-> iam[t].entry]' = [t \in TokenId |-> iam[t].entry] /\ UNCHANGED <<minted, floor>>
  BY DEF CallerStart, RejectArgs, Call, iamVars
<1>0. pc[c] = "idle"
  BY DEF CallerStart, RejectArgs, Call
<1>c. absCalls[c] = Service!NoCall
  BY <1>0 DEF absCalls, AbsCall, Service!NoCall, Service!NoToken, NoToken
<1>1. CASE RejectArgs(c)
  <2>1. Return(c, [tok |-> NoToken, err |-> "args"])
    BY <1>1 DEF RejectArgs
  <2>2. AbsAnswer([tok |-> NoToken, err |-> "args"]) = Service!Failure
    BY DEF AbsAnswer, Service!Failure, Service!NoToken, NoToken
  <2>3. absCalls' = [absCalls EXCEPT ![c] = Service!NoCall]
        /\ absAnswers' = [absAnswers EXCEPT ![c] = Service!Failure]
    BY <2>1, <2>2, <1>t, ReturnSeen
  <2>4. absCalls' = absCalls
    BY <2>3, <1>c DEF absCalls
  <2>5. Service!Reject(c)
    BY <1>c, <1>i, <2>3, <2>4 DEF Service!Reject, absCalls, absAnswers
  <2> QED
    BY <2>5 DEF Service!CallStep
<1>2. ASSUME NEW op \in Ops, NEW e \in Entry, NEW sent \in 0..MaxTokens, Call(c, op, e, sent)
      PROVE  Service!CallStep(c)
  <2> DEFINE call == [op |-> op, entry |-> e, sent |-> sent, since |-> floor[e]]
  <2>1. \A d \in Caller : /\ pc'[d] = IF d = c THEN "try" ELSE pc[d]
                          /\ d # c => req'[d] = req[d]
                          /\ ret'[d] = IF d = c THEN NoResult ELSE ret[d]
    BY <1>2, <1>t DEF Call
  <2>2. req'[c] = [op |-> op, entry |-> e, sent |-> sent, at |-> Zero, valid |-> FALSE,
                   since |-> floor[e]]
    BY <1>2, <1>t DEF Call
  <2>3. AbsCall(c)' = call
    BY <2>1, <2>2 DEF AbsCall
  <2>4. \A d \in Caller : d # c => AbsCall(d)' = AbsCall(d)
    BY <2>1 DEF AbsCall
  <2>5. absCalls' = [absCalls EXCEPT ![c] = call]
    BY <2>3, <2>4 DEF absCalls
  <2>6. AbsAnswer(NoResult) = Service!Nothing
    BY DEF AbsAnswer, NoResult, Service!Nothing, Service!NoToken, NoToken
  <2>7. \A d \in Caller : AbsAnswer(ret[d])' = IF d = c THEN Service!Nothing ELSE AbsAnswer(ret[d])
    BY <2>1, <2>6 DEF AbsAnswer
  <2>8. absAnswers' = [absAnswers EXCEPT ![c] = Service!Nothing]
    BY <2>7 DEF absAnswers
  <2>9. IF op = "Refresh" THEN sent \in 1..MaxTokens /\ [t \in TokenId |-> iam[t].entry][sent] = e
        ELSE sent = Service!NoToken
    BY <1>2 DEF Call, TokenId, NoToken, Service!NoToken
  <2>10. Service!Begin(c, op, e, sent)
    BY <1>c, <1>i, <2>5, <2>8, <2>9 DEF Service!Begin, absCalls, absAnswers
  <2>11. op \in Service!ServiceOps
    BY ClientAssumption DEF Service!ServiceOps
  <2>12. absCalls'[c] = call
    BY <2>3 DEF absCalls
  <2>13. call # Service!NoCall
    <3>1. call.op # "none"
      BY ClientAssumption
    <3> QED
      BY <3>1 DEF Service!NoCall
  <2> HIDE DEF call
  <2> QED
    BY <1>c, <2>10, <2>11, <2>12, <2>13 DEF Service!CallStep, absCalls
<1> QED
  BY <1>1, <1>2 DEF CallerStart

\* A step of a call ends it with an allowed answer or is invisible.
LEMMA CallerStepSimulates ==
    ASSUME Full, NEW c \in Caller, CallerStep(c)
    PROVE  Service!CallStep(c) \/ UNCHANGED Service!serviceVars
<1> DEFINE e == req[c].entry
<1>t. Typed /\ SingleFlight
  BY DEF Full, Inv
<1>p. pc \in [Caller -> PCs] /\ ret \in [Caller -> Result] /\ req \in [Caller -> Request]
      /\ entries \in [Entry -> EntryState] /\ done \in [Caller -> [full: BOOLEAN, res: Result]]
      /\ breakers \in [Aud -> BreakerState]
  BY <1>t DEF Typed, TypeOK
<1>0. pc[c] # "idle"
  BY DEF CallerStep, Acquire, Enqueue, GiveUp, RefreshLocked, InvalidateLocked, ObtainLocked, Gate,
         Deliver, Abandon
<1>e. e \in Entry /\ req[c].op \in AllOps
  BY <1>0, <1>t, <1>p DEF Typed, CallsHaveEntries, Request
<1>f. CallFacts(c)
  BY DEF Full, RefInv, CallsSound
<1>n. entries[e].token \in 0..MaxTokens /\ entries[e].lastErr \in Rejections
  BY <1>p, <1>e DEF EntryState
<1>r. \A tok \in 0..MaxTokens : [tok |-> tok, err |-> ""] \in Result
  BY ConstantValues
<1>1. ASSUME \A d \in Caller : pc'[d] = (IF d = c THEN pc'[c] ELSE pc[d]), pc'[c] # "idle",
             UNCHANGED <<req, ret, iam, minted, floor>>
      PROVE  UNCHANGED Service!serviceVars
  BY <1>0, <1>1, <1>t, SameCall, Invisible
<1>2. CASE Acquire(c)
  <2>1. pc'[c] = AfterAcquire(req[c].op) /\ pc'[c] # "idle"
    BY <1>2, <1>p DEF Acquire, AfterAcquire
  <2> QED
    BY <1>1, <1>2, <1>p, <2>1 DEF Acquire, iamVars
<1>3. CASE Enqueue(c)
  BY <1>1, <1>3, <1>p DEF Enqueue, iamVars
<1>4. CASE GiveUp(c) \/ Abandon(c)
  <2>1. req[c].op # "Invalidate"
    BY <1>4, <1>f DEF GiveUp, Abandon, CallFacts
  <2>2. Return(c, [tok |-> NoToken, err |-> "ctx"]) /\ UNCHANGED <<iam, minted, floor>>
    BY <1>4 DEF GiveUp, Abandon, iamVars
  <2>3. AbsAnswer([tok |-> NoToken, err |-> "ctx"]) \in Service!Answers(AbsCall(c))
    BY <2>1, <1>0, <1>t, FailureAllowed DEF Errors
  <2> QED
    BY <2>1, <2>2, <2>3, <1>0, <1>t, ReturnSimulates
<1>5. CASE RefreshLocked(c)
  <2>1. pc[c] \in Critical /\ req[c].op = "Refresh"
    BY <1>5, <1>f DEF RefreshLocked, Critical, CallFacts, OpAt
  <2>2. UNCHANGED <<iam, minted, floor>>
    BY <1>5 DEF RefreshLocked, iamVars
  <2>3. CASE Adoptable(entries[e], req[c].sent, now)
             /\ Return(c, [tok |-> entries[e].token, err |-> ""])
    <3> DEFINE res == [tok |-> entries[e].token, err |-> ""]
    <3>1. entries[e].token # NoToken /\ entries[e].token # req[c].sent
      BY <2>3 DEF Adoptable
    <3>2. Suits(c, entries[e].token)
      BY <3>1, <2>1, <1>0, <1>t, <1>e, CriticalAlone, CachedSuits
    <3>3. res \in Result /\ SoundResult(c, res) /\ Outcome(c, res) = res
      BY <3>1, <3>2, <1>n, <1>r DEF SoundResult, Outcome
    <3>4. AbsAnswer(res) \in Service!Answers(AbsCall(c))
      BY <3>3, <2>1, <1>0, <1>t, OutcomeAllowed
    <3> QED
      BY <3>4, <2>1, <2>2, <2>3, <1>0, <1>t, ReturnSimulates
  <2>4. CASE Return(c, NoResult)
    BY <2>1, <2>2, <2>4, <1>0, <1>t, NothingAllowed, ReturnSimulates
  <2>5. CASE pc' = [pc EXCEPT ![c] = "obtain"] /\ UNCHANGED <<lock, ret, req, ctxDone>>
    BY <1>1, <1>p, <2>2, <2>5
  <2> QED
    BY <1>5, <2>3, <2>4, <2>5 DEF RefreshLocked
<1>6. CASE InvalidateLocked(c)
  <2>1. req[c].op = "Invalidate"
    BY <1>6, <1>f DEF InvalidateLocked, CallFacts, OpAt
  <2>2. Return(c, NoResult) /\ UNCHANGED <<iam, minted>>
        /\ floor' = [floor EXCEPT ![req[c].entry] = minted]
    BY <1>6 DEF InvalidateLocked, iamVars
  <2> QED
    BY <2>1, <2>2, <1>0, <1>t, NothingAllowed, ReturnSimulates
<1>7. ASSUME NEW res \in Result, SoundResult(c, res), Return(c, Outcome(c, res)),
             req[c].op # "Invalidate", UNCHANGED <<iam, minted, floor>>
      PROVE  Service!CallStep(c)
  <2>1. AbsAnswer(Outcome(c, res)) \in Service!Answers(AbsCall(c))
    BY <1>0, <1>t, <1>7, OutcomeAllowed
  <2> QED
    BY <2>1, <1>0, <1>t, <1>7, ReturnSimulates
<1>8. CASE ObtainLocked(c)
  <2>1. pc[c] \in Critical /\ req[c].op # "Invalidate"
    BY <1>8, <1>f DEF ObtainLocked, Critical, CallFacts, OpAt
  <2>2. UNCHANGED <<iam, minted, floor>>
    BY <1>8 DEF ObtainLocked, iamVars
  <2>3. ASSUME entries[e].token # NoToken
        PROVE  SoundResult(c, [tok |-> entries[e].token, err |-> ""])
    BY <2>1, <2>3, <1>0, <1>t, <1>e, CriticalAlone, CachedSuits DEF SoundResult
  <2>4. CASE Cached(entries[e], now)
             /\ Return(c, Outcome(c, [tok |-> entries[e].token, err |-> ""]))
    BY <2>1, <2>2, <2>3, <2>4, <1>7, <1>n, <1>r DEF Cached
  <2>5. CASE InBackoff(entries[e], now)
             /\ Return(c, Outcome(c, IF Valid(entries[e], now)
                                     THEN [tok |-> entries[e].token, err |-> ""]
                                     ELSE [tok |-> NoToken, err |-> entries[e].lastErr]))
    <3>1. CASE Valid(entries[e], now)
      BY <2>1, <2>2, <2>3, <2>5, <3>1, <1>7, <1>n, <1>r DEF Valid
    <3>2. CASE ~Valid(entries[e], now)
      <4>1. [tok |-> NoToken, err |-> entries[e].lastErr] \in Result
        BY <1>n, ConstantValues DEF Rejections, Errors, Reasons
      <4>2. SoundResult(c, [tok |-> NoToken, err |-> entries[e].lastErr])
        BY <2>5 DEF SoundResult, InBackoff
      <4> QED
        BY <2>1, <2>2, <2>5, <3>2, <4>1, <4>2, <1>7
    <3> QED
      BY <3>1, <3>2
  <2>6. CASE /\ req' = [req EXCEPT ![c].at = now, ![c].valid = Valid(entries[e], now)]
             /\ pc' = [pc EXCEPT ![c] = "gate"]
             /\ UNCHANGED <<lock, ret, ctxDone>>
    <3>1. \A d \in Caller : d # c => pc'[d] = pc[d] /\ req'[d] = req[d]
      BY <2>6, <1>p
    <3>2. pc'[c] # "idle" /\ req'[c].op = req[c].op /\ req'[c].entry = req[c].entry
          /\ req'[c].sent = req[c].sent /\ req'[c].since = req[c].since
      BY <2>6, <1>p DEF Request
    <3> QED
      BY <2>2, <2>6, <3>1, <3>2, <1>0, <1>t, SameCall, Invisible
  <2> QED
    BY <1>8, <2>4, <2>5, <2>6 DEF ObtainLocked
<1>9. CASE Gate(c)
  <2>1. pc[c] \in Critical /\ req[c].op # "Invalidate"
    BY <1>9, <1>f DEF Gate, Critical, CallFacts, OpAt
  <2>2. UNCHANGED <<iam, minted, floor>>
    BY <1>9 DEF Gate, iamVars
  <2>3. CASE Return(c, Outcome(c, IF req[c].valid THEN [tok |-> entries[e].token, err |-> ""]
                                  ELSE [tok |-> NoToken, err |-> "circuit_open"]))
    <3>1. CASE req[c].valid
      <4>1. entries[e].token # NoToken
        BY <1>9, <1>f, <3>1 DEF Gate, CallFacts
      <4>2. SoundResult(c, [tok |-> entries[e].token, err |-> ""])
        BY <2>1, <4>1, <1>0, <1>t, <1>e, CriticalAlone, CachedSuits DEF SoundResult
      <4> QED
        BY <2>1, <2>2, <2>3, <3>1, <4>2, <1>7, <1>n, <1>r
    <3>2. CASE ~req[c].valid
      <4>1. [tok |-> NoToken, err |-> "circuit_open"] \in Result
        BY ConstantValues DEF Errors
      <4>2. SoundResult(c, [tok |-> NoToken, err |-> "circuit_open"])
        BY DEF SoundResult
      <4> QED
        BY <2>1, <2>2, <2>3, <3>2, <4>1, <4>2, <1>7
    <3> QED
      BY <3>1, <3>2
  <2>4. CASE pc' = [pc EXCEPT ![c] = "wait"] /\ UNCHANGED <<lock, ret, req, ctxDone>>
    BY <1>1, <1>p, <2>2, <2>4
  <2> QED
    BY <1>9, <2>3, <2>4 DEF Gate
<1>10. CASE Deliver(c)
  <2>1. req[c].op # "Invalidate" /\ SoundResult(c, done[c].res)
    BY <1>10, <1>f DEF Deliver, CallFacts, OpAt
  <2>2. UNCHANGED <<iam, minted, floor>> /\ Return(c, Outcome(c, done[c].res))
    BY <1>10 DEF Deliver, iamVars
  <2>3. done[c].res \in Result
    BY <1>p
  <2> QED
    BY <2>1, <2>2, <2>3, <1>7
<1> QED
  BY <1>2, <1>3, <1>4, <1>5, <1>6, <1>8, <1>9, <1>10 DEF CallerStep

\* Minting is seen; everything else the issuer does is not (issue,
\* issueAndStore).
LEMMA IssuerSimulates ==
    ASSUME Full, NEW e \in Entry, IssueRequest(e) \/ IssueStore(e) \/ IssueRelease(e)
    PROVE  Service!Mint(e) \/ UNCHANGED Service!serviceVars
<1>t. Typed /\ iam \in [TokenId -> [entry: Entry \cup {NoEntry}, exp: Int]]
  BY DEF Full, Inv, Typed, TypeOK
<1>1. UNCHANGED <<pc, req, ret, floor>>
  BY DEF IssueRequest, IssueSend, IssueFails, IamRefuses, IamIssues, IssueStore, IssueRelease, callerVars
<1>2. absCalls' = absCalls /\ absAnswers' = absAnswers
  BY <1>1 DEF absCalls, absAnswers, AbsCall, AbsAnswer
<1>3. CASE UNCHANGED <<iam, minted>>
  BY <1>1, <1>2, <1>3 DEF Service!serviceVars, absCalls, absAnswers
<1>4. ASSUME NEW x \in ExpiresIn, minted < MaxTokens, minted' = minted + 1,
             iam' = [iam EXCEPT ![minted + 1] = [entry |-> e, exp |-> now + x]]
      PROVE  Service!Mint(e)
  <2>1. minted \in Nat
    BY UpToMaxNat, <1>t DEF Typed, TypeOK
  <2>2. \A t \in TokenId : iam'[t].entry = IF t = minted + 1 THEN e ELSE iam[t].entry
    BY <1>4, <1>t
  <2>3. [t \in TokenId |-> iam[t].entry]'
            = [[t \in TokenId |-> iam[t].entry] EXCEPT ![minted + 1] = e]
    BY <2>2
  <2> QED
    BY <1>1, <1>2, <1>4, <2>3 DEF Service!Mint, absCalls, absAnswers
<1> QED
  BY <1>3, <1>4 DEF IssueRequest, IssueSend, IssueFails, IamRefuses, IamIssues, IssueStore, IssueRelease, iamVars

\* Every step of the client is a step of TokenService or invisible.
LEMMA StepSimulates == Full /\ [Next]_vars => [Service!ServiceNext]_(Service!serviceVars)
<1> SUFFICES ASSUME Full, [Next]_vars PROVE Service!ServiceNext \/ UNCHANGED Service!serviceVars
  OBVIOUS
<1>1. ASSUME UNCHANGED <<pc, req, ret, iam, minted, floor>> PROVE UNCHANGED Service!serviceVars
  <2>1. \A d \in Caller : AbsCall(d)' = AbsCall(d)
    BY <1>1 DEF AbsCall
  <2> QED
    BY <1>1, <2>1, Invisible DEF Full, Inv
<1>2. ASSUME NEW c \in Caller, CtxEnd(c) PROVE UNCHANGED Service!serviceVars
  BY <1>1, <1>2 DEF CtxEnd, iamVars
<1>3. CASE Tick
  BY <1>1, <1>3 DEF Tick, callerVars, iamVars
<1>4. CASE UNCHANGED vars
  BY <1>1, <1>4 DEF vars
<1> QED
  BY <1>2, <1>3, <1>4, StartSimulates, CallerStepSimulates, IssuerSimulates
  DEF Next, Service!ServiceNext

\* A newly built client is a service nobody has called yet (New).
LEMMA InitSimulates == Init => Service!ServiceInit
<1> SUFFICES ASSUME Init PROVE Service!ServiceInit
  OBVIOUS
<1>1. absCalls = [c \in Caller |-> Service!NoCall]
  BY DEF Init, absCalls, AbsCall, Service!NoCall, Service!NoToken, NoToken
<1>2. absAnswers = [c \in Caller |-> Service!Nothing]
  BY DEF Init, absAnswers, AbsAnswer, NoResult, Service!Nothing, Service!NoToken, NoToken
<1>3. [t \in TokenId |-> iam[t].entry] = [t \in 1..MaxTokens |-> NoEntry]
  BY DEF Init, TokenId
<1> QED
  BY <1>1, <1>2, <1>3 DEF Init, Service!ServiceInit, absCalls, absAnswers

-----------------------------------------------------------------------------
(* The order of tokens is kept.                                            *)

LEMMA OrderOfKept ==
    ASSUME NEW f \in Entry, NewestOf(f), AttemptOf(f), UNCHANGED iam,
           entries'[f].token = entries[f].token, issue'[f].phase = issue[f].phase,
           issue'[f].reason = issue[f].reason, issue'[f].tok = issue[f].tok,
           issue'[f].valid = issue[f].valid
    PROVE  NewestOf(f)' /\ AttemptOf(f)'
BY DEF NewestOf, AttemptOf

\* A step whose only effect on tokens and attempts is on e.
LEMMA OrderElsewhere ==
    ASSUME TokenOrder, UNCHANGED <<iam, minted>>, NEW e \in Entry,
           \A f \in Entry : f # e => entries'[f] = entries[f] /\ issue'[f] = issue[f],
           NewestOf(e)', AttemptOf(e)'
    PROVE  TokenOrder'
<1>1. \A t \in TokenId : t > minted' => iam'[t].entry = NoEntry
  BY DEF TokenOrder
<1>2. ASSUME NEW f \in Entry, f # e PROVE NewestOf(f)' /\ AttemptOf(f)'
  <2>1. NewestOf(f) /\ AttemptOf(f) /\ entries'[f] = entries[f] /\ issue'[f] = issue[f]
    BY <1>2 DEF TokenOrder
  <2> QED
    BY <2>1, OrderOfKept
<1> QED
  BY <1>1, <1>2 DEF TokenOrder

LEMMA CallerStepOrder ==
    ASSUME Full, NEW c \in Caller, CallerStep(c)
    PROVE  TokenOrder'
<1>s. SUFFICES ASSUME NEW e, e = req[c].entry PROVE TokenOrder'
  OBVIOUS
<1>t. Typed /\ SingleFlight /\ TokenOrder
  BY DEF Full, Inv, RefInv
<1>p. entries \in [Entry -> EntryState] /\ issue \in [Entry -> IssueState]
  BY <1>t DEF Typed, TypeOK
<1>f. CallFacts(c)
  BY DEF Full, RefInv, CallsSound
<1>i. UNCHANGED <<iam, minted>>
  BY DEF CallerStep, Acquire, Enqueue, GiveUp, RefreshLocked, InvalidateLocked, ObtainLocked, Gate,
         Deliver, Abandon, iamVars
<1>1. ASSUME \A f \in Entry : /\ entries'[f].token = entries[f].token
                              /\ issue'[f].phase = issue[f].phase
                              /\ issue'[f].reason = issue[f].reason /\ issue'[f].tok = issue[f].tok
                              /\ issue'[f].valid = issue[f].valid
      PROVE  TokenOrder'
  <2>1. \A f \in Entry : NewestOf(f)' /\ AttemptOf(f)'
    BY <1>1, <1>i, <1>t, OrderOfKept DEF TokenOrder
  <2> QED
    BY <2>1, <1>i, <1>t DEF TokenOrder
<1>2. CASE UNCHANGED <<entries, issue>>
  BY <1>1, <1>2
<1>3. CASE RefreshLocked(c)
  <2>1. e \in Entry
    BY <1>3, <1>s, <1>t DEF RefreshLocked, Typed, CallsHaveEntries
  <2>2. UNCHANGED issue /\ (entries' = entries \/ entries' = [entries EXCEPT ![e].renewAt = Zero])
    BY <1>3, <1>s DEF RefreshLocked
  <2>3. \A f \in Entry : entries'[f].token = entries[f].token
    BY <2>1, <2>2, <1>p DEF EntryState
  <2> QED
    BY <1>1, <2>2, <2>3
<1>4. CASE InvalidateLocked(c)
  <2>1. e \in Entry /\ issue[e].phase = "none"
    BY <1>4, <1>s, <1>t, CriticalAlone DEF InvalidateLocked, Critical
  <2>2. UNCHANGED issue /\ entries' = [entries EXCEPT ![e] = ClearedEntry(entries[e])]
    BY <1>4, <1>s DEF InvalidateLocked
  <2>3. entries'[e].token = NoToken /\ \A f \in Entry : f # e => entries'[f] = entries[f]
    BY <2>1, <2>2, <1>p DEF ClearedEntry, EmptyEntry
  <2>4. NewestOf(e)' /\ AttemptOf(e)'
    BY <2>1, <2>2, <2>3 DEF NewestOf, AttemptOf
  <2> QED
    BY <1>i, <1>t, <2>1, <2>2, <2>3, <2>4, OrderElsewhere
<1>5. CASE Gate(c)
  <2>1. e \in Entry /\ issue[e].phase = "none"
    BY <1>5, <1>s, <1>t, CriticalAlone DEF Gate, Critical
  <2>2. UNCHANGED entries
    BY <1>5 DEF Gate
  <2>3. CASE UNCHANGED issue
    BY <1>2, <2>2, <2>3
  <2>4. CASE issue' = [issue EXCEPT ![e] = [NoIssue EXCEPT !.phase = "started", !.waiter = c,
                                            !.start = req[c].at, !.deadline = now + Timeout,
                                            !.valid = req[c].valid]]
    <3>1. issue'[e].phase = "started" /\ issue'[e].reason = "" /\ issue'[e].valid = req[c].valid
      BY <2>1, <2>4, <1>p DEF NoIssue
    <3>2. \A f \in Entry : f # e => issue'[f] = issue[f]
      BY <2>1, <2>4, <1>p
    <3>3. req[c].valid => entries[e].token # NoToken
      BY <1>5, <1>s, <1>f DEF Gate, CallFacts
    <3>4. NewestOf(e)
      BY <1>t, <2>1 DEF TokenOrder
    <3>5. NewestOf(e)' /\ AttemptOf(e)'
      BY <2>1, <2>2, <3>1, <3>3, <3>4, <1>i DEF NewestOf, AttemptOf
    <3> QED
      BY <1>i, <1>t, <2>1, <2>2, <3>2, <3>5, OrderElsewhere
  <2> QED
    BY <1>5, <1>s, <2>3, <2>4 DEF Gate
<1>6. CASE Abandon(c)
  <2>1. issue' = Forget(c) /\ UNCHANGED entries
    BY <1>6 DEF Abandon
  <2>2. \A f \in Entry : /\ issue'[f].phase = issue[f].phase
                         /\ issue'[f].reason = issue[f].reason /\ issue'[f].tok = issue[f].tok
                         /\ issue'[f].valid = issue[f].valid
    BY <2>1, <1>p DEF Forget, IssueState
  <2> QED
    BY <1>1, <2>1, <2>2
<1>7. CASE Acquire(c) \/ Enqueue(c) \/ GiveUp(c) \/ ObtainLocked(c) \/ Deliver(c)
  BY <1>2, <1>7 DEF Acquire, Enqueue, GiveUp, ObtainLocked, Deliver
<1> QED
  BY <1>3, <1>4, <1>5, <1>6, <1>7 DEF CallerStep

LEMMA IssuerStepOrder ==
    ASSUME Full, NEW e \in Entry, IssueRequest(e) \/ IssueStore(e) \/ IssueRelease(e)
    PROVE  TokenOrder'
<1>t. Typed /\ TokenOrder
  BY DEF Full, Inv, RefInv
<1>p. entries \in [Entry -> EntryState] /\ issue \in [Entry -> IssueState]
      /\ iam \in [TokenId -> [entry: Entry \cup {NoEntry}, exp: Int]] /\ minted \in 0..MaxTokens
  BY <1>t DEF Typed, TypeOK
<1>o. NewestOf(e) /\ AttemptOf(e)
  BY <1>t DEF TokenOrder
<1>7. CASE IssueSend(e)
  <2>1. /\ issue[e].phase = "started" /\ issue'[e].phase = "calling"
        /\ issue'[e].reason = issue[e].reason /\ issue'[e].valid = issue[e].valid
        /\ \A f \in Entry : f # e => issue'[f] = issue[f]
    BY <1>7, <1>p DEF IssueSend, IssueState
  <2>2. UNCHANGED <<entries, iam, minted>>
    BY <1>7 DEF IssueSend
  <2>3. NewestOf(e)' /\ AttemptOf(e)'
    BY <1>o, <2>1, <2>2 DEF NewestOf, AttemptOf
  <2> QED
    BY <1>t, <2>1, <2>2, <2>3, OrderElsewhere
<1>1. ASSUME issue[e].phase \in {"started", "calling"}, NEW reason, reason # "",
             issue' = [issue EXCEPT ![e].phase = "replied", ![e].reason = reason],
             UNCHANGED <<entries, iam, minted>>
      PROVE  TokenOrder'
  <2>1. /\ issue'[e].phase = "replied" /\ issue'[e].reason = reason
        /\ issue'[e].valid = issue[e].valid
        /\ \A f \in Entry : f # e => issue'[f] = issue[f]
    BY <1>1, <1>p DEF IssueState
  <2>2. NewestOf(e)' /\ AttemptOf(e)'
    BY <1>1, <1>o, <2>1 DEF NewestOf, AttemptOf
  <2> QED
    BY <1>1, <1>t, <2>1, <2>2, OrderElsewhere
<1>2. ASSUME NEW reason \in {"sign", "transport"}, IssueFails(e, reason) PROVE TokenOrder'
  BY <1>1, <1>2 DEF IssueFails, iamVars
<1>3. ASSUME NEW status \in Status, IamRefuses(e, status) PROVE TokenOrder'
  <2>1. ReasonOf(status) # ""
    BY ClientAssumption DEF ReasonOf
  <2> QED
    BY <1>1, <1>3, <2>1 DEF IamRefuses, iamVars
<1>4. ASSUME NEW x \in ExpiresIn, IamIssues(e, x) PROVE TokenOrder'
  <2>1. CASE x <= 0
    BY <1>1, <1>4, <2>1 DEF IamIssues, iamVars
  <2>2. CASE ~(x <= 0)
    <3> DEFINE new == minted + 1
    <3>1. /\ issue[e].phase = "calling" /\ minted < MaxTokens /\ minted' = new /\ UNCHANGED entries
          /\ iam' = [iam EXCEPT ![new] = [entry |-> e, exp |-> now + x]]
          /\ issue' = [issue EXCEPT ![e].phase = "replied", ![e].tok = new, ![e].ttl = CapTTL(x)]
      BY <1>4, <2>2 DEF IamIssues
    <3>2. /\ issue'[e].phase = "replied" /\ issue'[e].reason = "" /\ issue'[e].tok = new
          /\ issue'[e].valid = issue[e].valid
          /\ \A f \in Entry : f # e => issue'[f] = issue[f]
      BY <3>1, <1>o, <1>p DEF IssueState, AttemptOf
    <3>3. \A t \in TokenId : iam'[t].entry = IF t = new THEN e ELSE iam[t].entry
      BY <3>1, <1>p
    <3>4. \A t \in TokenId : t > minted => iam[t].entry = NoEntry
      BY <1>t DEF TokenOrder
    <3>m. minted \in Nat /\ new \in Nat /\ \A t \in TokenId : t \in Nat
      BY <1>p, UpToMaxNat, TokenIdNat
    <3>5. \A t \in TokenId : iam[t].entry = e => t <= new
      BY <3>4, <3>m, ClientAssumption
    <3>6. \A t \in TokenId : t > minted' => iam'[t].entry = NoEntry
      BY <3>1, <3>3, <3>4, <3>m
    <3>7. NewestOf(e)'
      <4>1. entries[e].token # NoToken =>
                \A t \in TokenId : iam[t].entry = e => t <= entries[e].token
        BY <3>1, <1>o DEF NewestOf
      <4>2. entries'[e].token = entries[e].token
        BY <3>1
      <4>3. \A t \in TokenId : iam'[t].entry = e => t = new \/ iam[t].entry = e
        BY <3>3
      <4>4. \A t \in TokenId : iam'[t].entry = e => t <= new
        BY <4>3, <3>5, <3>m
      <4> HIDE DEF new
      <4> QED
        BY <4>1, <4>2, <4>3, <4>4, <3>2 DEF NewestOf
    <3>8. AttemptOf(e)'
      BY <3>1, <3>2, <1>o DEF AttemptOf
    <3>9. ASSUME NEW f \in Entry, f # e PROVE NewestOf(f)' /\ AttemptOf(f)'
      <4>1. NewestOf(f) /\ AttemptOf(f) /\ issue'[f] = issue[f] /\ entries'[f] = entries[f]
        BY <1>t, <3>1, <3>2, <3>9 DEF TokenOrder
      <4>2. \A t \in TokenId : iam'[t].entry = f => iam[t].entry = f
        BY <3>3, <3>9
      <4> QED
        BY <4>1, <4>2 DEF NewestOf, AttemptOf
    <3> QED
      BY <3>6, <3>7, <3>8, <3>9 DEF TokenOrder
  <2> QED
    BY <2>1, <2>2
<1>5. CASE IssueStore(e)
  <2>1. issue[e].phase = "replied" /\ UNCHANGED <<iam, minted>>
        /\ issue' = [issue EXCEPT ![e] = [NoIssue EXCEPT !.phase = "stored"]]
    BY <1>5 DEF IssueStore, iamVars
  <2>2. issue'[e].phase = "stored" /\ \A f \in Entry : f # e => issue'[f] = issue[f]
    BY <2>1, <1>p DEF NoIssue
  <2>3. entries' = IF issue[e].reason = "" THEN [entries EXCEPT ![e] = Stored(issue[e])]
                   ELSE [entries EXCEPT ![e] = Failed(entries[e], issue[e])]
    BY <1>5 DEF IssueStore
  <2>4. \A f \in Entry : f # e => entries'[f] = entries[f]
    BY <2>3, <1>p
  <2>5. issue[e].reason = "" => entries'[e].token = issue[e].tok
    BY <2>3, <1>p DEF Stored, EmptyEntry
  <2>6. issue[e].reason # "" => entries'[e].token = entries[e].token
    BY <2>3, <1>p DEF Failed, EntryState
  <2>7. NewestOf(e)' /\ AttemptOf(e)'
    BY <2>1, <2>2, <2>5, <2>6, <1>o DEF NewestOf, AttemptOf
  <2> QED
    BY <2>1, <2>2, <2>4, <2>7, <1>t, OrderElsewhere
<1>6. CASE IssueRelease(e)
  <2>1. issue[e].phase = "stored" /\ issue' = [issue EXCEPT ![e] = NoIssue]
        /\ UNCHANGED <<entries, iam, minted>>
    BY <1>6 DEF IssueRelease, iamVars
  <2>2. issue'[e].phase = "none" /\ \A f \in Entry : f # e => issue'[f] = issue[f]
    BY <2>1, <1>p DEF NoIssue
  <2>3. NewestOf(e)' /\ AttemptOf(e)'
    BY <2>1, <2>2, <1>o DEF NewestOf, AttemptOf
  <2> QED
    BY <2>1, <2>2, <2>3, <1>t, OrderElsewhere
<1> QED
  BY <1>2, <1>3, <1>4, <1>5, <1>6, <1>7 DEF IssueRequest

-----------------------------------------------------------------------------
(* What is said of the calls is kept.                                      *)

\* A call that a step does not touch keeps its facts: tokens keep their entry
\* and invalidation only moves forward.
LEMMA CallKept ==
    ASSUME Full, Typed', NEW d \in Caller,
           pc'[d] = pc[d], req'[d] = req[d], done'[d] = done[d], d \in ctxDone' => d \in ctxDone,
           \A t \in TokenId : iam[t].entry \in Entry => iam'[t].entry = iam[t].entry,
           \A f \in Entry : floor[f] <= floor'[f],
           pc[d] = "gate" => entries'[req[d].entry].token = entries[req[d].entry].token
    PROVE  CallFacts(d)'
<1>t. Typed
  BY DEF Full, Inv
<1>f. CallFacts(d)
  BY DEF Full, RefInv, CallsSound
<1>1. OpAt(d)'
  BY <1>f DEF CallFacts, OpAt
<1>2. ASSUME pc[d] # "idle" PROVE req[d].entry \in Entry
  BY <1>2, <1>t DEF Typed, CallsHaveEntries
<1>3. ASSUME pc[d] # "idle" PROVE req[d].since <= floor'[req[d].entry]
  <2>1. req[d].since <= floor[req[d].entry] /\ floor[req[d].entry] <= floor'[req[d].entry]
    BY <1>2, <1>3, <1>f DEF CallFacts
  <2>2. req[d].since \in 0..MaxTokens /\ floor[req[d].entry] \in 0..MaxTokens
        /\ floor'[req[d].entry] \in 0..MaxTokens
    BY <1>2, <1>3, <1>t DEF Typed, TypeOK, Request
  <2>3. req[d].since \in Nat /\ floor[req[d].entry] \in Nat /\ floor'[req[d].entry] \in Nat
    BY <2>2, UpToMaxNat
  <2> QED
    BY <2>1, <2>3
<1>4. ASSUME pc[d] # "idle", req[d].op = "Refresh"
      PROVE  req[d].sent \in TokenId /\ iam'[req[d].sent].entry = req[d].entry
  BY <1>2, <1>4, <1>f DEF CallFacts
<1>5. ASSUME done[d].full PROVE pc[d] = "wait" /\ SoundResult(d, done[d].res)'
  <2>1. pc[d] = "wait" /\ SoundResult(d, done[d].res)
    BY <1>5, <1>f DEF CallFacts
  <2> QED
    BY <2>1, <1>2 DEF SoundResult, Suits
<1> QED
  BY <1>1, <1>3, <1>4, <1>5, <1>f DEF CallFacts

\* Only a caller that is waiting for its result is reported to.
LEMMA NoWaiter ==
    ASSUME Full, NEW c \in Caller, pc[c] # "wait" \/ done[c].full, NEW e \in Entry
    PROVE  issue[e].waiter # c
<1>1. WaiterOf(e) /\ c # NoCaller
  BY ClientAssumption DEF Full, RefInv, CallsSound
<1> QED
  BY <1>1 DEF WaiterOf

\* A step of one call, which leaves the others and their waiting alone.
LEMMA CallerMoves ==
    ASSUME Full, Typed', NEW c \in Caller, UNCHANGED iam,
           \A d \in Caller : d # c =>
               /\ pc'[d] = pc[d] /\ req'[d] = req[d] /\ done'[d] = done[d]
               /\ d \in ctxDone' => d \in ctxDone
               /\ pc[d] = "gate" => entries'[req[d].entry].token = entries[req[d].entry].token,
           \A f \in Entry : floor[f] <= floor'[f],
           \A f \in Entry :
               \/ issue'[f].waiter = NoCaller
               \/ issue'[f].waiter = issue[f].waiter /\ issue[f].waiter # c
               \/ issue'[f].waiter = c /\ pc'[c] = "wait" /\ req'[c].entry = f /\ ~done'[c].full,
           CallFacts(c)'
    PROVE  CallsSound'
<1>1. ASSUME NEW d \in Caller PROVE CallFacts(d)'
  BY <1>1, CallKept
<1>2. ASSUME NEW f \in Entry PROVE WaiterOf(f)'
  <2>1. WaiterOf(f)
    BY DEF Full, RefInv, CallsSound
  <2>2. issue[f] \in IssueState
    BY DEF Full, Inv, Typed, TypeOK
  <2>3. issue[f].waiter # NoCaller => issue[f].waiter \in Caller
    BY <2>2 DEF IssueState
  <2> QED
    BY <2>1, <2>3 DEF WaiterOf
<1> QED
  BY <1>1, <1>2 DEF CallsSound

\* Nothing is left of a call that returned.
LEMMA ReturnIdle ==
    ASSUME Typed, NEW c \in Caller, NEW res, Return(c, res), ~done'[c].full
    PROVE  /\ CallFacts(c)'
           /\ \A d \in Caller : d # c => /\ pc'[d] = pc[d] /\ req'[d] = req[d]
                                         /\ d \in ctxDone' => d \in ctxDone
<1>1. pc \in [Caller -> PCs] /\ req \in [Caller -> Request]
  BY DEF Typed, TypeOK
<1>2. pc'[c] = "idle" /\ c \notin ctxDone'
  BY <1>1 DEF Return
<1>3. CallFacts(c)'
  BY <1>2 DEF CallFacts, OpAt
<1> QED
  BY <1>1, <1>3 DEF Return

\* A call returns and no attempt reports to it any more.
LEMMA ReturnMoves ==
    ASSUME Full, Typed', NEW c \in Caller, NEW res, Return(c, res), ~done'[c].full, UNCHANGED iam,
           \A d \in Caller : d # c =>
               /\ done'[d] = done[d]
               /\ pc[d] = "gate" => entries'[req[d].entry].token = entries[req[d].entry].token,
           \A f \in Entry : floor[f] <= floor'[f],
           \A f \in Entry : issue'[f].waiter # c
                            /\ issue'[f].waiter \in {issue[f].waiter, NoCaller}
    PROVE  CallsSound'
<1>1. Typed
  BY DEF Full, Inv
<1>2. /\ CallFacts(c)'
      /\ \A d \in Caller : d # c => /\ pc'[d] = pc[d] /\ req'[d] = req[d]
                                    /\ d \in ctxDone' => d \in ctxDone
  BY <1>1, ReturnIdle
<1> QED
  BY <1>2, CallerMoves

LEMMA CallerStepCalls ==
    ASSUME Full, Typed', NEW c \in Caller, CallerStep(c)
    PROVE  CallsSound'
<1>s. SUFFICES ASSUME NEW e, e = req[c].entry PROVE CallsSound'
  OBVIOUS
<1>t. Typed /\ SingleFlight
  BY DEF Full, Inv
<1>p. pc \in [Caller -> PCs] /\ req \in [Caller -> Request] /\ entries \in [Entry -> EntryState]
      /\ done \in [Caller -> [full: BOOLEAN, res: Result]] /\ issue \in [Entry -> IssueState]
      /\ floor \in [Entry -> 0..MaxTokens] /\ minted \in 0..MaxTokens
  BY <1>t DEF Typed, TypeOK
<1>f. CallFacts(c)
  BY DEF Full, RefInv, CallsSound
<1>0. pc[c] # "idle"
  BY DEF CallerStep, Acquire, Enqueue, GiveUp, RefreshLocked, InvalidateLocked, ObtainLocked, Gate,
         Deliver, Abandon
<1>e. e \in Entry
  BY <1>0, <1>s, <1>t DEF Typed, CallsHaveEntries
<1>i. UNCHANGED iam
  BY DEF CallerStep, Acquire, Enqueue, GiveUp, RefreshLocked, InvalidateLocked, ObtainLocked, Gate,
         Deliver, Abandon, iamVars
<1>n. \A f \in Entry : floor[f] \in Nat
  BY <1>p, UpToMaxNat
<1>w. pc[c] # "wait" => ~done[c].full /\ \A f \in Entry : issue[f].waiter # c
  BY <1>f, NoWaiter DEF CallFacts
\* The call goes on, with the same request.
<1>1. ASSUME NEW at, pc[c] # "wait", pc' = [pc EXCEPT ![c] = at], OpAt(c)', at # "gate",
             UNCHANGED <<req, done, ctxDone, issue, floor>>, at \in PCs \ {"idle"},
             \A f \in Entry : entries'[f].token = entries[f].token
      PROVE  CallsSound'
  <2>1. pc'[c] = at /\ \A d \in Caller : d # c => pc'[d] = pc[d]
    BY <1>1, <1>p
  <2>2. ~done'[c].full /\ \A f \in Entry : issue'[f].waiter = issue[f].waiter /\ issue[f].waiter # c
    BY <1>1, <1>w
  <2>3. CallFacts(c)'
    BY <1>0, <1>1, <1>f, <1>i, <2>1, <2>2 DEF CallFacts
  <2>4. \A d \in Caller : pc[d] = "gate" => req[d].entry \in Entry
    BY <1>t DEF Typed, CallsHaveEntries
  <2> QED
    BY <1>1, <1>i, <1>n, <2>1, <2>2, <2>3, <2>4, CallerMoves
<1>2. CASE Acquire(c)
  <2>1. AfterAcquire(req[c].op) \in {"obtain", "refresh", "invalidate"}
        /\ (AfterAcquire(req[c].op) = "obtain" => req[c].op # "Invalidate")
        /\ (AfterAcquire(req[c].op) = "refresh" => req[c].op = "Refresh")
        /\ (AfterAcquire(req[c].op) = "invalidate" => req[c].op = "Invalidate")
    BY <1>p DEF AfterAcquire, Request, AllOps
  <2>2. pc' = [pc EXCEPT ![c] = AfterAcquire(req[c].op)] /\ pc[c] # "wait"
        /\ UNCHANGED <<req, done, ctxDone, issue, floor, entries>>
    BY <1>2 DEF Acquire
  <2>3. OpAt(c)'
    BY <2>1, <2>2, <1>p DEF OpAt
  <2> QED
    BY <1>1, <2>1, <2>2, <2>3 DEF PCs
<1>3. CASE Enqueue(c)
  <2>1. pc' = [pc EXCEPT ![c] = "queued"] /\ pc[c] # "wait"
        /\ UNCHANGED <<req, done, ctxDone, issue, floor, entries>>
    BY <1>3 DEF Enqueue
  <2>2. OpAt(c)'
    BY <2>1, <1>p DEF OpAt
  <2> QED
    BY <1>1, <2>1, <2>2 DEF PCs
\* The call ends while it works on the entry or waits for it.
<1>4. ASSUME pc[c] # "wait", NEW res, Return(c, res), UNCHANGED <<done, issue, entries, floor>>
      PROVE  CallsSound'
  <2>1. ~done'[c].full /\ \A f \in Entry : issue'[f].waiter # c /\ issue'[f].waiter = issue[f].waiter
    BY <1>4, <1>w
  <2> QED
    BY <1>4, <1>i, <1>n, <2>1, ReturnMoves
<1>5. CASE GiveUp(c)
  BY <1>4, <1>5 DEF GiveUp
<1>6. CASE RefreshLocked(c)
  <2>1. pc[c] = "refresh" /\ UNCHANGED <<issue, done, floor>>
    BY <1>6 DEF RefreshLocked
  <2>2. CASE UNCHANGED entries /\ \E res : Return(c, res)
    BY <1>4, <2>1, <2>2
  <2>3. CASE entries' = [entries EXCEPT ![e].renewAt = Zero] /\ pc' = [pc EXCEPT ![c] = "obtain"]
             /\ UNCHANGED <<lock, ret, req, ctxDone>>
    <3>1. \A f \in Entry : entries'[f].token = entries[f].token
      BY <2>3, <1>e, <1>p DEF EntryState
    <3>2. OpAt(c)'
      BY <2>1, <2>3, <1>f, <1>p DEF OpAt, CallFacts
    <3> QED
      BY <1>1, <2>1, <2>3, <3>1, <3>2 DEF PCs
  <2> QED
    BY <1>6, <1>s, <2>2, <2>3 DEF RefreshLocked
<1>7. CASE InvalidateLocked(c)
  <2>1. pc[c] \in Critical /\ pc[c] # "wait" /\ Return(c, NoResult) /\ UNCHANGED <<issue, done>>
        /\ floor' = [floor EXCEPT ![e] = minted]
        /\ entries' = [entries EXCEPT ![e] = ClearedEntry(entries[e])]
    BY <1>7, <1>s DEF InvalidateLocked, Critical
  <2>2. floor[e] <= minted
    BY <1>e DEF Full, Inv, Facts, CacheFacts, CacheFactsOf
  <2>3. \A f \in Entry : floor[f] <= floor'[f]
    BY <2>1, <2>2, <1>n, <1>p
  <2>4. \A d \in Caller : d # c /\ pc[d] = "gate" => req[d].entry \in Entry /\ req[d].entry # e
    BY <2>1, <1>s, <1>t, CriticalApart DEF Critical, Typed, CallsHaveEntries
  <2>5. \A d \in Caller : d # c /\ pc[d] = "gate"
            => entries'[req[d].entry].token = entries[req[d].entry].token
    BY <2>1, <2>4, <1>p
  <2>6. ~done'[c].full /\ \A f \in Entry : issue'[f].waiter # c /\ issue'[f].waiter = issue[f].waiter
    BY <2>1, <1>w
  <2> QED
    BY <2>1, <2>3, <2>5, <2>6, <1>i, ReturnMoves
<1>8. CASE ObtainLocked(c)
  <2>1. pc[c] = "obtain" /\ UNCHANGED <<issue, done, floor, entries>>
    BY <1>8 DEF ObtainLocked
  <2>2. CASE \E res : Return(c, res)
    BY <1>4, <2>1, <2>2
  <2>3. CASE /\ req' = [req EXCEPT ![c].at = now, ![c].valid = Valid(entries[e], now)]
             /\ pc' = [pc EXCEPT ![c] = "gate"]
             /\ UNCHANGED <<lock, ret, ctxDone>>
    <3>1. \A d \in Caller : d # c => pc'[d] = pc[d] /\ req'[d] = req[d]
      BY <2>3, <1>p
    <3>2. /\ pc'[c] = "gate" /\ req'[c].op = req[c].op /\ req'[c].entry = e
          /\ req'[c].sent = req[c].sent /\ req'[c].since = req[c].since
          /\ req'[c].valid = Valid(entries[e], now)
      BY <2>3, <1>p, <1>s DEF Request
    <3>3. ~done'[c].full /\ \A f \in Entry : issue'[f].waiter = issue[f].waiter /\ issue[f].waiter # c
      BY <2>1, <1>w
    <3>4. req'[c].valid => entries'[e].token # NoToken
      BY <2>1, <3>2 DEF Valid
    <3>5. OpAt(c)'
      BY <2>1, <3>2, <1>f DEF OpAt, CallFacts
    <3>6. CallFacts(c)'
      BY <1>0, <1>f, <1>i, <1>s, <2>1, <2>3, <3>2, <3>3, <3>4, <3>5 DEF CallFacts
    <3>7. \A d \in Caller : d # c =>
              /\ pc'[d] = pc[d] /\ req'[d] = req[d] /\ done'[d] = done[d]
              /\ d \in ctxDone' => d \in ctxDone
              /\ pc[d] = "gate" => entries'[req[d].entry].token = entries[req[d].entry].token
      BY <2>1, <2>3, <3>1
    <3>8. \A f \in Entry : floor[f] <= floor'[f]
      BY <2>1, <1>n
    <3> QED
      BY <3>3, <3>6, <3>7, <3>8, <1>i, CallerMoves
  <2> QED
    BY <1>8, <1>s, <2>2, <2>3 DEF ObtainLocked
<1>9. CASE Gate(c)
  <2>1. pc[c] = "gate" /\ UNCHANGED <<done, floor, entries>>
    BY <1>9 DEF Gate
  <2>2. CASE UNCHANGED issue /\ \E res : Return(c, res)
    BY <1>4, <2>1, <2>2
  <2>3. CASE /\ issue' = [issue EXCEPT ![e] = [NoIssue EXCEPT !.phase = "started", !.waiter = c,
                                               !.start = req[c].at, !.deadline = now + Timeout,
                                               !.valid = req[c].valid]]
             /\ pc' = [pc EXCEPT ![c] = "wait"]
             /\ UNCHANGED <<lock, ret, req, ctxDone>>
    <3>1. pc'[c] = "wait" /\ \A d \in Caller : d # c => pc'[d] = pc[d]
      BY <2>3, <1>p
    <3>2. issue'[e].waiter = c /\ \A f \in Entry : f # e => issue'[f] = issue[f]
      BY <2>3, <1>e, <1>p DEF NoIssue
    <3>3. ~done'[c].full /\ \A f \in Entry : issue[f].waiter # c
      BY <2>1, <1>w
    <3>4. OpAt(c)'
      BY <2>1, <2>3, <3>1, <1>f DEF OpAt, CallFacts
    <3>5. CallFacts(c)'
      BY <1>0, <1>f, <1>i, <2>1, <2>3, <3>1, <3>3, <3>4 DEF CallFacts
    <3>6. \A f \in Entry :
               \/ issue'[f].waiter = issue[f].waiter /\ issue[f].waiter # c
               \/ issue'[f].waiter = c /\ pc'[c] = "wait" /\ req'[c].entry = f /\ ~done'[c].full
      BY <2>3, <3>1, <3>2, <3>3, <1>s
    <3> QED
      BY <2>1, <2>3, <3>1, <3>5, <3>6, <1>i, <1>n, CallerMoves
  <2> QED
    BY <1>9, <1>s, <2>2, <2>3 DEF Gate
<1>10. CASE Deliver(c)
  <2>1. /\ \E res : Return(c, res)
        /\ done' = [done EXCEPT ![c] = [full |-> FALSE, res |-> NoResult]]
        /\ UNCHANGED <<issue, entries, floor>> /\ done[c].full
    BY <1>10 DEF Deliver
  <2>2. ~done'[c].full /\ \A d \in Caller : d # c => done'[d] = done[d]
    BY <2>1, <1>p
  <2>3. \A f \in Entry : issue'[f].waiter # c /\ issue'[f].waiter = issue[f].waiter
    BY <2>1, NoWaiter
  <2> QED
    BY <2>1, <2>2, <2>3, <1>i, <1>n, ReturnMoves
<1>11. CASE Abandon(c)
  <2>1. /\ \E res : Return(c, res)
        /\ done' = [done EXCEPT ![c] = [full |-> FALSE, res |-> NoResult]]
        /\ UNCHANGED <<entries, floor>> /\ issue' = Forget(c)
    BY <1>11 DEF Abandon
  <2>2. ~done'[c].full /\ \A d \in Caller : d # c => done'[d] = done[d]
    BY <2>1, <1>p
  <2>3. \A f \in Entry : issue'[f].waiter # c /\ issue'[f].waiter \in {issue[f].waiter, NoCaller}
    BY <2>1, <1>p, ClientAssumption DEF Forget, IssueState
  <2> QED
    BY <2>1, <2>2, <2>3, <1>i, <1>n, ReturnMoves
<1> QED
  BY <1>2, <1>3, <1>5, <1>6, <1>7, <1>8, <1>9, <1>10, <1>11 DEF CallerStep

\* Calls begin, are refused, or have their context ended.
LEMMA CallerStartCalls ==
    ASSUME Full, Typed', NEW c \in Caller, CallerStart(c) \/ CtxEnd(c)
    PROVE  CallsSound'
<1>t. Typed
  BY DEF Full, Inv
<1>p. pc \in [Caller -> PCs] /\ req \in [Caller -> Request] /\ floor \in [Entry -> 0..MaxTokens]
  BY <1>t DEF Typed, TypeOK
<1>f. CallFacts(c)
  BY DEF Full, RefInv, CallsSound
<1>u. UNCHANGED <<iam, issue, entries, floor, done>>
  BY DEF CallerStart, RejectArgs, Call, CtxEnd, iamVars
<1>n. \A f \in Entry : floor[f] <= floor'[f]
  <2>1. \A f \in Entry : floor[f] \in Nat
    BY <1>p, UpToMaxNat
  <2> QED
    BY <2>1, <1>u
<1>w. pc[c] # "wait" => ~done[c].full /\ \A f \in Entry : issue[f].waiter # c
  BY <1>f, NoWaiter DEF CallFacts
<1>1. CASE RejectArgs(c)
  BY <1>1, <1>n, <1>u, <1>w, ReturnMoves DEF RejectArgs
<1>2. ASSUME NEW op \in Ops, NEW e \in Entry, NEW sent \in 0..MaxTokens, Call(c, op, e, sent)
      PROVE  CallsSound'
  <2>1. pc[c] = "idle" /\ c \notin ctxDone /\ ~done'[c].full
    BY <1>2, <1>f, <1>u, <1>w DEF Call, CallFacts
  <2>2. /\ pc'[c] = "try" /\ ctxDone' = ctxDone
        /\ req'[c] = [op |-> op, entry |-> e, sent |-> sent, at |-> Zero, valid |-> FALSE,
                      since |-> floor[e]]
        /\ \A d \in Caller : d # c => pc'[d] = pc[d] /\ req'[d] = req[d]
    BY <1>2, <1>p DEF Call
  <2>3. /\ req'[c].op = op /\ req'[c].entry = e /\ req'[c].sent = sent /\ req'[c].since = floor[e]
        /\ op = "Refresh" => sent \in TokenId /\ iam'[sent].entry = e
    BY <1>2, <1>u, <2>2 DEF Call
  <2>4. CallFacts(c)'
    BY <1>n, <2>1, <2>2, <2>3 DEF CallFacts, OpAt
  <2> QED
    BY <1>n, <1>u, <1>w, <2>1, <2>2, <2>4, CallerMoves
<1>3. CASE CtxEnd(c)
  <2>1. pc[c] # "idle" /\ req[c].op # "Invalidate" /\ UNCHANGED <<pc, req>>
        /\ ctxDone' = ctxDone \cup {c}
    BY <1>3 DEF CtxEnd
  <2>2. ASSUME NEW d \in Caller PROVE CallFacts(d)'
    <3>1. CallFacts(d)
      BY DEF Full, RefInv, CallsSound
    <3> QED
      BY <1>u, <2>1, <3>1 DEF CallFacts, OpAt, SoundResult, Suits
  <2>3. ASSUME NEW f \in Entry PROVE WaiterOf(f)'
    <3>1. WaiterOf(f)
      BY DEF Full, RefInv, CallsSound
    <3> QED
      BY <1>u, <2>1, <3>1 DEF WaiterOf
  <2> QED
    BY <2>2, <2>3 DEF CallsSound
<1> QED
  BY <1>1, <1>2, <1>3 DEF CallerStart

\* A step of the issuer that reports nothing yet.
LEMMA IssuerQuiet ==
    ASSUME Full, Typed', UNCHANGED <<pc, req, ctxDone, done, floor, entries>>,
           \A t \in TokenId : iam[t].entry \in Entry => iam'[t].entry = iam[t].entry,
           \A f \in Entry : issue'[f].waiter \in {issue[f].waiter, NoCaller}
    PROVE  CallsSound'
<1>1. \A f \in Entry : floor[f] <= floor'[f]
  <2>1. \A f \in Entry : floor[f] \in Nat
    BY UpToMaxNat DEF Full, Inv, Typed, TypeOK
  <2> QED
    BY <2>1
<1>2. ASSUME NEW d \in Caller PROVE CallFacts(d)'
  BY <1>1, CallKept
<1>3. ASSUME NEW f \in Entry PROVE WaiterOf(f)'
  <2>1. WaiterOf(f)
    BY DEF Full, RefInv, CallsSound
  <2> QED
    BY <2>1 DEF WaiterOf
<1> QED
  BY <1>2, <1>3 DEF CallsSound

\* What issueAndStore reports suits the caller that waits for it: the new
\* token, or the old one it may still use, or an error.
LEMMA ReportSound ==
    ASSUME Full, NEW e \in Entry, issue[e].phase = "replied", NEW d \in Caller,
           d = issue[e].waiter
    PROVE  pc[d] = "wait" /\ req[d].entry = e /\ SoundResult(d, IssueResult(entries[e], issue[e]))
<1> DEFINE i == issue[e]
<1>t. Typed /\ CallFacts(d) /\ NewestOf(e) /\ AttemptOf(e) /\ CacheFactsOf(e)
  BY DEF Full, Inv, RefInv, CallsSound, TokenOrder, Facts, CacheFacts
<1>w. pc[d] = "wait" /\ req[d].entry = e
  <2>1. WaiterOf(e) /\ d # NoCaller
    BY ClientAssumption DEF Full, RefInv, CallsSound
  <2> QED
    BY <2>1 DEF WaiterOf
<1>p. req[d].since \in 0..MaxTokens /\ req[d].sent \in 0..MaxTokens /\ minted \in 0..MaxTokens
      /\ floor[e] \in 0..MaxTokens
  BY <1>t DEF Typed, TypeOK, Request
<1>1. CASE i.reason = ""
  <2>1. i.tok \in 1..minted /\ i.tok > floor[e] /\ iam[i.tok].entry = e
    BY <1>1, <1>t DEF CacheFactsOf, TokenFacts
  <2>2. i.tok \in TokenId /\ i.tok \in Nat
    BY <2>1, <1>p, MintedIsToken
  <2>3. i.tok > req[d].since
    <3>1. req[d].since <= floor[e]
      BY <1>t, <1>w DEF CallFacts
    <3>2. floor[e] \in Nat /\ req[d].since \in Nat
      BY <1>p, UpToMaxNat
    <3>3. i.tok > floor[e]
      BY <2>1
    <3> HIDE DEF i
    <3> QED
      BY <3>1, <3>2, <3>3, <2>2, AboveIsAbove
  <2>4. ASSUME req[d].op = "Refresh" PROVE i.tok >= req[d].sent
    <3>1. req[d].sent \in TokenId /\ iam[req[d].sent].entry = e
      BY <1>t, <1>w, <2>4 DEF CallFacts
    <3>2. req[d].sent <= i.tok
      BY <1>1, <1>t, <3>1 DEF NewestOf
    <3>3. req[d].sent \in Nat
      BY <1>p, UpToMaxNat
    <3> HIDE DEF i
    <3> QED
      BY <2>2, <3>2, <3>3
  <2>5. Suits(d, i.tok)
    BY <1>w, <2>1, <2>2, <2>3, <2>4 DEF Suits
  <2> QED
    BY <1>1, <1>w, <2>5 DEF SoundResult, IssueResult
<1>2. CASE i.reason # "" /\ i.valid
  <2>1. entries[e].token # NoToken
    BY <1>2, <1>t DEF AttemptOf
  <2>2. Suits(d, entries[e].token)
    BY <1>2, <1>w, <2>1, CachedSuits
  <2> QED
    BY <1>2, <1>w, <2>2 DEF SoundResult, IssueResult
<1>3. CASE i.reason # "" /\ ~i.valid
  BY <1>3, <1>w DEF SoundResult, IssueResult
<1> QED
  BY <1>1, <1>2, <1>3

LEMMA IssuerStepCalls ==
    ASSUME Full, Typed', NEW e \in Entry, IssueRequest(e) \/ IssueStore(e) \/ IssueRelease(e)
    PROVE  CallsSound'
<1>t. Typed /\ SingleFlight /\ TokenOrder
  BY DEF Full, Inv, RefInv
<1>p. entries \in [Entry -> EntryState] /\ issue \in [Entry -> IssueState]
      /\ iam \in [TokenId -> [entry: Entry \cup {NoEntry}, exp: Int]] /\ minted \in 0..MaxTokens
      /\ done \in [Caller -> [full: BOOLEAN, res: Result]]
  BY <1>t DEF Typed, TypeOK
<1>1. CASE IssueRequest(e)
  <2>1. UNCHANGED <<pc, req, ctxDone, done, floor, entries>>
    BY <1>1 DEF IssueRequest, IssueSend, IssueFails, IamRefuses, IamIssues, callerVars
  <2>2. \A f \in Entry : issue'[f].waiter = issue[f].waiter
    <3>0. ASSUME IssueSend(e) PROVE \A f \in Entry : issue'[f].waiter = issue[f].waiter
      BY <3>0, <1>p DEF IssueSend, IssueState
    <3>1. ASSUME NEW reason, issue' = [issue EXCEPT ![e].phase = "replied", ![e].reason = reason]
          PROVE  \A f \in Entry : issue'[f].waiter = issue[f].waiter
      BY <3>1, <1>p DEF IssueState
    <3>2. ASSUME NEW tok, NEW ttl,
                 issue' = [issue EXCEPT ![e].phase = "replied", ![e].tok = tok, ![e].ttl = ttl]
          PROVE  \A f \in Entry : issue'[f].waiter = issue[f].waiter
      BY <3>2, <1>p DEF IssueState
    <3>3. ASSUME NEW reason \in {"sign", "transport"}, IssueFails(e, reason)
          PROVE  \A f \in Entry : issue'[f].waiter = issue[f].waiter
      BY <3>1, <3>3 DEF IssueFails
    <3>4. ASSUME NEW status \in Status, IamRefuses(e, status)
          PROVE  \A f \in Entry : issue'[f].waiter = issue[f].waiter
      BY <3>1, <3>4 DEF IamRefuses
    <3>5. ASSUME NEW x \in ExpiresIn, IamIssues(e, x)
          PROVE  \A f \in Entry : issue'[f].waiter = issue[f].waiter
      BY <3>1, <3>2, <3>5 DEF IamIssues
    <3> QED
      BY <1>1, <3>0, <3>3, <3>4, <3>5 DEF IssueRequest
  <2>3. UNCHANGED iam \/ \E x \in Int : iam' = [iam EXCEPT ![minted + 1] = [entry |-> e, exp |-> now + x]]
    BY <1>1, ClientAssumption DEF IssueRequest, IssueSend, IssueFails, IamRefuses, IamIssues, iamVars
  <2>4. \A t \in TokenId : t # minted + 1 => iam'[t] = iam[t]
    BY <2>3, <1>p
  <2>5. \A t \in TokenId : iam[t].entry \in Entry => t # minted + 1
    <3>1. \A t \in TokenId : t > minted => iam[t].entry = NoEntry
      BY <1>t DEF TokenOrder
    <3>2. minted \in Nat
      BY <1>p, UpToMaxNat
    <3>3. minted + 1 > minted
      BY <3>2
    <3> QED
      BY <3>1, <3>3, ClientAssumption
  <2> QED
    BY <2>1, <2>2, <2>4, <2>5, IssuerQuiet
<1>2. CASE IssueRelease(e)
  <2>1. UNCHANGED <<pc, req, ctxDone, done, floor, entries, iam>>
        /\ issue' = [issue EXCEPT ![e] = NoIssue]
    BY <1>2 DEF IssueRelease, callerVars, iamVars
  <2>2. \A f \in Entry : issue'[f].waiter \in {issue[f].waiter, NoCaller}
    BY <2>1, <1>p DEF NoIssue
  <2> QED
    BY <2>1, <2>2, IssuerQuiet
<1>3. CASE IssueStore(e)
  <2> DEFINE res == IssueResult(entries[e], issue[e])
  <2>1. /\ issue[e].phase = "replied" /\ UNCHANGED <<pc, req, ctxDone, floor, iam>>
        /\ issue' = [issue EXCEPT ![e] = [NoIssue EXCEPT !.phase = "stored"]]
        /\ done' = IF issue[e].waiter = NoCaller THEN done
                   ELSE [done EXCEPT ![issue[e].waiter] = [full |-> TRUE, res |-> res]]
    BY <1>3 DEF IssueStore, iamVars
  <2>2. \A f \in Entry : f # e => entries'[f] = entries[f]
    BY <1>3, <1>p DEF IssueStore
  <2>3. issue'[e].waiter = NoCaller /\ \A f \in Entry : f # e => issue'[f] = issue[f]
    BY <2>1, <1>p DEF NoIssue
  <2>4. \A d \in Caller : d # issue[e].waiter => done'[d] = done[d]
    BY <2>1, <1>p
  <2>5. ASSUME NEW d \in Caller, d = issue[e].waiter PROVE done'[d] = [full |-> TRUE, res |-> res]
    BY <2>1, <2>5, <1>p, ClientAssumption
  <2>6. \A f \in Entry : floor[f] <= floor'[f]
    <3>1. \A f \in Entry : floor[f] \in Nat
      BY <1>t, UpToMaxNat DEF Typed, TypeOK
    <3> QED
      BY <2>1, <3>1
  <2>7. \A d \in Caller : pc[d] = "gate" => req[d].entry \in Entry /\ req[d].entry # e
    BY <1>t, <2>1, CriticalAlone DEF Critical
  <2>8. ASSUME NEW d \in Caller, d # issue[e].waiter PROVE CallFacts(d)'
    BY <2>1, <2>2, <2>4, <2>6, <2>7, <2>8, CallKept
  <2>9. ASSUME NEW d \in Caller, d = issue[e].waiter PROVE CallFacts(d)'
    <3>1. pc[d] = "wait" /\ SoundResult(d, res) /\ CallFacts(d)
      BY <2>1, <2>9, ReportSound DEF Full, RefInv, CallsSound
    <3>2. ASSUME NEW r, r = res PROVE SoundResult(d, done[d].res)'
      <4>1. done'[d].res = r
        BY <2>5, <2>9, <3>2
      <4>2. SoundResult(d, r)
        BY <3>1, <3>2
      <4>3. SoundResult(d, r)'
        BY <2>1, <4>2 DEF SoundResult, Suits
      <4> QED
        BY <4>1, <4>3 DEF SoundResult, Suits
    <3> QED
      BY <2>1, <3>1, <3>2 DEF CallFacts, OpAt
  <2>10. ASSUME NEW f \in Entry PROVE WaiterOf(f)'
    <3>1. CASE f = e
      BY <2>3, <3>1 DEF WaiterOf
    <3>2. CASE f # e /\ issue[f].waiter # NoCaller
      <4>1. WaiterOf(f) /\ WaiterOf(e) /\ issue[f].waiter \in Caller
        BY <1>p, <3>2 DEF Full, RefInv, CallsSound, IssueState
      <4>2. issue[f].waiter # issue[e].waiter
        BY <3>2, <4>1 DEF WaiterOf
      <4>3. done'[issue[f].waiter] = done[issue[f].waiter]
        BY <2>4, <4>1, <4>2
      <4> QED
        BY <2>1, <2>3, <3>2, <4>1, <4>3 DEF WaiterOf
    <3>3. CASE f # e /\ issue[f].waiter = NoCaller
      BY <2>3, <3>3 DEF WaiterOf
    <3> QED
      BY <3>1, <3>2, <3>3
  <2> QED
    BY <2>8, <2>9, <2>10 DEF CallsSound
<1> QED
  BY <1>1, <1>2, <1>3

\* A newly built client has minted nothing and nobody has called it (New).
LEMMA InitRef == Init => RefInv
<1> SUFFICES ASSUME Init PROVE RefInv
  OBVIOUS
<1>1. TokenOrder
  BY ClientAssumption DEF Init, TokenOrder, NewestOf, AttemptOf, EmptyEntry, NoIssue, NoToken
<1>2. CallsSound
  BY DEF Init, CallsSound, WaiterOf, CallFacts, OpAt, NoIssue, NoReq
<1> QED
  BY <1>1, <1>2 DEF RefInv

\* Every step of the client keeps the strengthened invariant.
LEMMA NextFull == Full /\ [Next]_vars => Full'
<1> SUFFICES ASSUME Full, [Next]_vars PROVE RefInv'
  BY NextInv DEF Full
<1>t. Typed' /\ TokenOrder
  BY NextInv DEF Full, Inv, RefInv
<1>1. ASSUME UNCHANGED <<entries, issue, iam, minted>> PROVE TokenOrder'
  <2>1. \A f \in Entry : NewestOf(f)' /\ AttemptOf(f)'
    BY <1>1, <1>t, OrderOfKept DEF TokenOrder
  <2> QED
    BY <1>1, <1>t, <2>1 DEF TokenOrder
<1>2. ASSUME NEW c \in Caller, CallerStart(c) \/ CtxEnd(c) PROVE RefInv'
  BY <1>1, <1>2, <1>t, CallerStartCalls DEF RefInv, CallerStart, RejectArgs, Call, CtxEnd, iamVars
<1>3. ASSUME NEW c \in Caller, CallerStep(c) PROVE RefInv'
  BY <1>3, <1>t, CallerStepOrder, CallerStepCalls DEF RefInv
<1>4. ASSUME NEW e \in Entry, IssueRequest(e) \/ IssueStore(e) \/ IssueRelease(e) PROVE RefInv'
  BY <1>4, <1>t, IssuerStepOrder, IssuerStepCalls DEF RefInv
<1>5. CASE Tick \/ UNCHANGED vars
  BY <1>1, <1>5, <1>t, IssuerQuiet DEF RefInv, Tick, vars, callerVars, iamVars
<1> QED
  BY <1>2, <1>3, <1>4, <1>5 DEF Next

\* The client implements TokenService: a call of Token or Refresh that
\* succeeds returns a token minted for its audience and scope, not invalidated
\* before the call began and, for Refresh, newer than the rejected one (Token,
\* Refresh, Invalidate, obtainLocked, issueAndStore).
THEOREM ClientImplementsTokenService == Spec => ImplementsTokenService
<1>1. Init => Full
  BY InitTyped, InitSingleFlight, InitFacts, InitRef DEF Full, Inv
<1>2. Spec => []Full
  BY <1>1, NextFull, PTL DEF Spec
<1> QED
  BY <1>2, InitSimulates, StepSimulates, PTL DEF Spec, ImplementsTokenService, Service!ServiceSpec

-----------------------------------------------------------------------------
(* A token that is handed out was live.                                    *)

\* What is believed of a lifetime while an entry is worked on: renewal comes
\* before expiry, a fallback outlived the start of the attempt, and so does
\* the token iam answered with; the attempt started when its caller says.
LiveEntry(e) ==
    LET n == entries[e]
        i == issue[e]
    IN  /\ n.renewAt <= n.expiresAt \/ n.renewAt = Zero
        /\ i.phase \in {"started", "calling", "replied"} /\ i.valid => i.start < n.expiresAt
        /\ i.phase = "replied" /\ i.reason = "" => i.start < iam[i.tok].exp
        /\ i.waiter # NoCaller => req[i.waiter].at = i.start

\* What a caller was promised before the breaker, and what waits for it.
LiveCall(c) ==
    /\ pc[c] = "gate" /\ req[c].valid => req[c].at < entries[req[c].entry].expiresAt
    /\ done[c].full /\ done[c].res.tok # NoToken => req[c].at < iam[done[c].res.tok].exp

Live == (\A e \in Entry : LiveEntry(e)) /\ (\A c \in Caller : LiveCall(c))

LiveInv == Full /\ Live

\* A cached token lives on as long as the client believes it does.
LEMMA CachedLives ==
    ASSUME Full, NEW e \in Entry, entries[e].token # NoToken, NEW t \in Int,
           t < entries[e].expiresAt
    PROVE  t < iam[entries[e].token].exp
<1> DEFINE tok == entries[e].token
<1>1. tok \in 1..minted /\ entries[e].expiresAt <= iam[tok].exp
  BY DEF Full, Inv, Facts, CacheFacts, CacheFactsOf, TokenFacts
<1>2. tok \in TokenId
  BY <1>1, MintedIsToken DEF Full, Inv, Typed, TypeOK
<1>3. iam[tok].exp \in Int /\ entries[e].expiresAt \in Int
  BY <1>2 DEF Full, Inv, Typed, TypeOK, EntryState
<1> QED
  BY <1>1, <1>3

\* Tokens that were minted keep what iam signed into them.
MintedKept == \A t \in TokenId : iam[t].entry \in Entry => iam'[t] = iam[t]

LEMMA LiveEntryKept ==
    ASSUME LiveInv, NEW f \in Entry, MintedKept,
           entries'[f].renewAt = entries[f].renewAt, entries'[f].expiresAt = entries[f].expiresAt,
           issue'[f].phase = issue[f].phase, issue'[f].reason = issue[f].reason,
           issue'[f].tok = issue[f].tok, issue'[f].start = issue[f].start,
           issue'[f].valid = issue[f].valid,
           issue'[f].waiter # NoCaller =>
               issue'[f].waiter = issue[f].waiter
               /\ req'[issue[f].waiter].at = req[issue[f].waiter].at
    PROVE  LiveEntry(f)'
<1>1. LiveEntry(f) /\ CacheFactsOf(f) /\ minted \in 0..MaxTokens
  BY DEF LiveInv, Live, Full, Inv, Facts, CacheFacts, Typed, TypeOK
<1>2. ASSUME issue[f].phase = "replied", issue[f].reason = ""
      PROVE  iam'[issue[f].tok] = iam[issue[f].tok]
  <2>1. issue[f].tok \in 1..minted /\ iam[issue[f].tok].entry = f
    BY <1>1, <1>2 DEF CacheFactsOf, TokenFacts
  <2>2. issue[f].tok \in TokenId
    BY <1>1, <2>1, MintedIsToken
  <2> QED
    BY <2>1, <2>2 DEF MintedKept
<1> QED
  BY <1>1, <1>2 DEF LiveEntry

LEMMA LiveCallKept ==
    ASSUME LiveInv, NEW d \in Caller, MintedKept,
           pc'[d] = "gate" =>
               /\ pc[d] = "gate" /\ req'[d] = req[d]
               /\ entries'[req[d].entry].expiresAt = entries[req[d].entry].expiresAt,
           done'[d].full => done'[d] = done[d] /\ req'[d] = req[d]
    PROVE  LiveCall(d)'
<1>1. LiveCall(d) /\ CallFacts(d) /\ Typed
  BY DEF LiveInv, Live, Full, Inv, RefInv, CallsSound
<1>2. ASSUME done[d].full, done[d].res.tok # NoToken
      PROVE  iam'[done[d].res.tok] = iam[done[d].res.tok]
  <2>1. pc[d] = "wait" /\ Suits(d, done[d].res.tok)
    BY <1>1, <1>2 DEF CallFacts, SoundResult
  <2>2. req[d].entry \in Entry
    BY <1>1, <2>1 DEF Typed, CallsHaveEntries
  <2> QED
    BY <2>1, <2>2 DEF Suits, MintedKept
<1> QED
  BY <1>1, <1>2 DEF LiveCall

\* A call returns: nothing waits for it, and the others keep their promises.
LEMMA ReturnLives ==
    ASSUME LiveInv, NEW c \in Caller, NEW res, Return(c, res), UNCHANGED iam, ~done'[c].full,
           \A d \in Caller : d # c =>
               /\ done'[d] = done[d]
               /\ pc[d] = "gate" =>
                      entries'[req[d].entry].expiresAt = entries[req[d].entry].expiresAt,
           \A f \in Entry :
               /\ entries'[f].renewAt = Zero
                  \/ /\ entries'[f].renewAt = entries[f].renewAt
                     /\ entries'[f].expiresAt = entries[f].expiresAt
               /\ entries'[f].expiresAt = entries[f].expiresAt \/ issue[f].phase = "none"
               /\ issue'[f].phase = issue[f].phase /\ issue'[f].reason = issue[f].reason
               /\ issue'[f].tok = issue[f].tok /\ issue'[f].start = issue[f].start
               /\ issue'[f].valid = issue[f].valid
               /\ issue'[f].waiter # c /\ issue'[f].waiter \in {issue[f].waiter, NoCaller}
    PROVE  Live'
<1>p. pc \in [Caller -> PCs] /\ req \in [Caller -> Request] /\ issue \in [Entry -> IssueState]
  BY DEF LiveInv, Full, Inv, Typed, TypeOK
<1>1. pc'[c] = "idle" /\ \A d \in Caller : d # c => pc'[d] = pc[d] /\ req'[d] = req[d]
  BY <1>p DEF Return
<1>2. ASSUME NEW d \in Caller PROVE LiveCall(d)'
  <2>1. CASE d = c
    BY <1>1, <2>1 DEF LiveCall
  <2>2. CASE d # c
    BY <1>1, <2>2, LiveCallKept DEF MintedKept
  <2> QED
    BY <2>1, <2>2
<1>3. ASSUME NEW f \in Entry PROVE LiveEntry(f)'
  <2>1. LiveEntry(f) /\ issue[f].waiter \in Caller \cup {NoCaller}
    BY <1>p DEF LiveInv, Live, IssueState
  <2>2. issue'[f].waiter # NoCaller => req'[issue'[f].waiter].at = req[issue[f].waiter].at
    BY <1>1, <2>1
  <2> QED
    BY <2>1, <2>2 DEF LiveEntry
<1> QED
  BY <1>2, <1>3 DEF Live

\* Every step of a caller keeps the promises (Token, Refresh, Invalidate,
\* obtainLocked).
LEMMA CallerStepLives ==
    ASSUME LiveInv, NEW c \in Caller, CallerStep(c)
    PROVE  Live'
<1>s. SUFFICES ASSUME NEW e, e = req[c].entry PROVE Live'
  OBVIOUS
<1>t. Full /\ Typed /\ SingleFlight /\ Live
  BY DEF LiveInv, Full, Inv
<1>p. pc \in [Caller -> PCs] /\ req \in [Caller -> Request] /\ entries \in [Entry -> EntryState]
      /\ issue \in [Entry -> IssueState] /\ done \in [Caller -> [full: BOOLEAN, res: Result]]
  BY <1>t DEF Typed, TypeOK
<1>f. CallFacts(c) /\ LiveCall(c)
  BY <1>t DEF Full, RefInv, CallsSound, Live
<1>i. UNCHANGED iam /\ MintedKept
  BY DEF CallerStep, Acquire, Enqueue, GiveUp, RefreshLocked, InvalidateLocked, ObtainLocked, Gate,
         Deliver, Abandon, iamVars, MintedKept
<1>w. pc[c] # "wait" => ~done[c].full /\ \A f \in Entry : issue[f].waiter # c
  BY <1>f, <1>t, NoWaiter DEF CallFacts
<1>1. ASSUME UNCHANGED <<entries, issue, req, done>>,
             \A d \in Caller : pc'[d] = "gate" => pc[d] = "gate"
      PROVE  Live'
  <2>1. ASSUME NEW f \in Entry PROVE LiveEntry(f)'
    BY <1>1, <1>i, LiveEntryKept
  <2>2. ASSUME NEW d \in Caller PROVE LiveCall(d)'
    BY <1>1, <1>i, LiveCallKept
  <2> QED
    BY <2>1, <2>2 DEF Live
<1>2. ASSUME pc[c] # "wait", NEW res, Return(c, res), UNCHANGED <<entries, issue, done>>
      PROVE  Live'
  BY <1>2, <1>i, <1>w, ReturnLives
<1>3. CASE Acquire(c)
  BY <1>1, <1>3, <1>p DEF Acquire, AfterAcquire
<1>4. CASE Enqueue(c)
  BY <1>1, <1>4, <1>p DEF Enqueue
<1>5. CASE GiveUp(c)
  BY <1>2, <1>5 DEF GiveUp
<1>6. CASE RefreshLocked(c)
  <2>1. e \in Entry /\ pc[c] = "refresh" /\ pc[c] # "wait" /\ UNCHANGED <<issue, done>>
    BY <1>6, <1>s, <1>t DEF RefreshLocked, Typed, CallsHaveEntries
  <2>2. CASE UNCHANGED entries /\ \E res : Return(c, res)
    BY <1>2, <2>1, <2>2
  <2>3. CASE entries' = [entries EXCEPT ![e].renewAt = Zero]
             /\ pc' = [pc EXCEPT ![c] = "obtain"] /\ UNCHANGED req
    <3>1. \A f \in Entry : /\ entries'[f].expiresAt = entries[f].expiresAt
                           /\ entries'[f].renewAt = IF f = e THEN Zero ELSE entries[f].renewAt
      BY <2>1, <2>3, <1>p DEF EntryState
    <3>2. ASSUME NEW f \in Entry PROVE LiveEntry(f)'
      BY <2>1, <2>3, <3>1, <1>i, <1>t DEF LiveEntry, Live
    <3>3. ASSUME NEW d \in Caller PROVE LiveCall(d)'
      <4>1. pc'[d] = "gate" => pc[d] = "gate" /\ req[d].entry \in Entry
        BY <2>3, <1>p, <1>t DEF Typed, CallsHaveEntries
      <4> QED
        BY <2>1, <2>3, <3>1, <4>1, <1>i, LiveCallKept
    <3> QED
      BY <3>2, <3>3 DEF Live
  <2> QED
    BY <1>6, <1>s, <2>2, <2>3 DEF RefreshLocked
<1>7. CASE InvalidateLocked(c)
  <2>1. e \in Entry /\ issue[e].phase = "none" /\ pc[c] \in Critical /\ pc[c] # "wait"
    BY <1>7, <1>s, <1>t, CriticalAlone DEF InvalidateLocked, Critical
  <2>2. UNCHANGED <<issue, done>> /\ Return(c, NoResult)
        /\ entries' = [entries EXCEPT ![e] = ClearedEntry(entries[e])]
    BY <1>7, <1>s DEF InvalidateLocked
  <2>3. entries'[e].renewAt = Zero /\ \A f \in Entry : f # e => entries'[f] = entries[f]
    BY <2>1, <2>2, <1>p DEF ClearedEntry, EmptyEntry
  <2>4. \A d \in Caller : d # c /\ pc[d] = "gate" => req[d].entry \in Entry /\ req[d].entry # e
    BY <1>s, <1>t, <2>1, CriticalApart, CriticalAlone DEF Critical
  <2> QED
    BY <2>1, <2>2, <2>3, <2>4, <1>i, <1>w, ReturnLives
<1>8. CASE ObtainLocked(c)
  <2>1. e \in Entry /\ pc[c] = "obtain" /\ pc[c] # "wait" /\ UNCHANGED <<entries, issue, done>>
    BY <1>8, <1>s, <1>t DEF ObtainLocked, Typed, CallsHaveEntries
  <2>2. CASE \E res : Return(c, res)
    BY <1>2, <2>1, <2>2
  <2>3. CASE req' = [req EXCEPT ![c].at = now, ![c].valid = Valid(entries[e], now)]
             /\ pc' = [pc EXCEPT ![c] = "gate"]
    <3>1. /\ req'[c].at = now /\ req'[c].valid = Valid(entries[e], now) /\ req'[c].entry = e
          /\ \A d \in Caller : d # c => req'[d] = req[d] /\ pc'[d] = pc[d]
      BY <2>3, <1>s, <1>p DEF Request
    <3>2. LiveCall(c)'
      BY <2>1, <3>1, <1>w DEF LiveCall, Valid
    <3>3. ASSUME NEW d \in Caller, d # c PROVE LiveCall(d)'
      BY <2>1, <3>1, <3>3, <1>i, LiveCallKept
    <3>4. ASSUME NEW f \in Entry PROVE LiveEntry(f)'
      <4>1. issue[f].waiter # NoCaller => issue[f].waiter \in Caller /\ issue[f].waiter # c
        BY <2>1, <1>w, <1>p DEF IssueState
      <4> QED
        BY <2>1, <3>1, <4>1, <1>i, LiveEntryKept
    <3> QED
      BY <3>2, <3>3, <3>4 DEF Live
  <2> QED
    BY <1>8, <1>s, <2>2, <2>3 DEF ObtainLocked
<1>9. CASE Gate(c)
  <2>1. e \in Entry /\ pc[c] = "gate" /\ pc[c] # "wait" /\ UNCHANGED <<entries, done>>
    BY <1>9, <1>s, <1>t DEF Gate, Typed, CallsHaveEntries
  <2>2. CASE UNCHANGED issue /\ \E res : Return(c, res)
    BY <1>2, <2>1, <2>2
  <2>3. CASE /\ issue' = [issue EXCEPT ![e] = [NoIssue EXCEPT !.phase = "started", !.waiter = c,
                                               !.start = req[c].at, !.deadline = now + Timeout,
                                               !.valid = req[c].valid]]
             /\ pc' = [pc EXCEPT ![c] = "wait"] /\ UNCHANGED req
    <3>1. /\ issue'[e].phase = "started" /\ issue'[e].waiter = c /\ issue'[e].start = req[c].at
          /\ issue'[e].valid = req[c].valid
          /\ \A f \in Entry : f # e => issue'[f] = issue[f]
      BY <2>1, <2>3, <1>p DEF NoIssue
    <3>2. LiveEntry(e)
      BY <2>1, <1>t DEF Live
    <3>3. LiveEntry(e)'
      BY <2>1, <2>3, <3>1, <3>2, <1>f, <1>s DEF LiveEntry, LiveCall
    <3>4. ASSUME NEW f \in Entry, f # e PROVE LiveEntry(f)'
      BY <2>1, <2>3, <3>1, <3>4, <1>i, LiveEntryKept
    <3>5. ASSUME NEW d \in Caller PROVE LiveCall(d)'
      <4>1. pc'[d] = "gate" => pc[d] = "gate"
        BY <2>3, <1>p
      <4> QED
        BY <2>1, <2>3, <4>1, <1>i, LiveCallKept
    <3> QED
      BY <3>3, <3>4, <3>5 DEF Live
  <2> QED
    BY <1>9, <1>s, <2>2, <2>3 DEF Gate
<1>10. CASE Deliver(c)
  <2>1. /\ done[c].full /\ UNCHANGED <<entries, issue>>
        /\ done' = [done EXCEPT ![c] = [full |-> FALSE, res |-> NoResult]]
        /\ Return(c, Outcome(c, done[c].res))
    BY <1>10 DEF Deliver
  <2>2. ~done'[c].full /\ \A d \in Caller : d # c => done'[d] = done[d]
    BY <2>1, <1>p
  <2>3. \A f \in Entry : issue[f].waiter # c
    BY <1>t, <2>1, NoWaiter
  <2> QED
    BY <2>1, <2>2, <2>3, <1>i, ReturnLives
<1>11. CASE Abandon(c)
  <2>1. /\ issue' = Forget(c) /\ UNCHANGED entries
        /\ done' = [done EXCEPT ![c] = [full |-> FALSE, res |-> NoResult]]
        /\ Return(c, [tok |-> NoToken, err |-> "ctx"])
    BY <1>11 DEF Abandon
  <2>2. ~done'[c].full /\ \A d \in Caller : d # c => done'[d] = done[d]
    BY <2>1, <1>p
  <2>3. \A f \in Entry :
           /\ issue'[f].phase = issue[f].phase /\ issue'[f].reason = issue[f].reason
           /\ issue'[f].tok = issue[f].tok /\ issue'[f].start = issue[f].start
           /\ issue'[f].valid = issue[f].valid
           /\ issue'[f].waiter # c /\ issue'[f].waiter \in {issue[f].waiter, NoCaller}
    BY <2>1, <1>p, ClientAssumption DEF Forget, IssueState
  <2> QED
    BY <2>1, <2>2, <2>3, <1>i, ReturnLives
<1> QED
  BY <1>3, <1>4, <1>5, <1>6, <1>7, <1>8, <1>9, <1>10, <1>11 DEF CallerStep

\* Every step of an issuing goroutine keeps the promises (issue,
\* issueAndStore).
LEMMA IssuerStepLives ==
    ASSUME LiveInv, NEW e \in Entry, IssueRequest(e) \/ IssueStore(e) \/ IssueRelease(e)
    PROVE  Live'
<1>t. Full /\ Typed /\ SingleFlight /\ Live /\ LiveEntry(e) /\ CapturedInPast /\ TokenOrder
  BY DEF LiveInv, Live, Full, Inv, Facts, RefInv
<1>p. /\ entries \in [Entry -> EntryState] /\ issue \in [Entry -> IssueState] /\ now \in Int
      /\ iam \in [TokenId -> [entry: Entry \cup {NoEntry}, exp: Int]] /\ minted \in 0..MaxTokens
      /\ done \in [Caller -> [full: BOOLEAN, res: Result]]
  BY <1>t DEF Typed, TypeOK
<1>i. issue[e].start \in Int /\ issue[e].start <= now /\ issue[e].waiter \in Caller \cup {NoCaller}
  BY <1>p, <1>t DEF IssueState, CapturedInPast
<1>r. UNCHANGED <<now, pc, req>>
  BY DEF IssueRequest, IssueSend, IssueFails, IamRefuses, IamIssues, IssueStore, IssueRelease, callerVars
\* The answer of e moves on; everything else stays.
<1>1. ASSUME MintedKept, UNCHANGED <<entries, done>>, LiveEntry(e)',
             \A f \in Entry : f # e => issue'[f] = issue[f]
      PROVE  Live'
  <2>1. ASSUME NEW f \in Entry, f # e PROVE LiveEntry(f)'
    BY <1>1, <1>r, <2>1, LiveEntryKept
  <2>2. ASSUME NEW d \in Caller PROVE LiveCall(d)'
    BY <1>1, <1>r, LiveCallKept
  <2> QED
    BY <1>1, <2>1, <2>2 DEF Live
<1>2. ASSUME NEW reason \in Reasons, UNCHANGED <<entries, done, iam>>,
             issue[e].phase \in {"started", "calling"},
             issue' = [issue EXCEPT ![e].phase = "replied", ![e].reason = reason]
      PROVE  Live'
  <2>1. /\ issue'[e].phase = "replied" /\ issue'[e].reason = reason /\ reason # ""
        /\ issue'[e].start = issue[e].start /\ issue'[e].valid = issue[e].valid
        /\ issue'[e].waiter = issue[e].waiter
        /\ \A f \in Entry : f # e => issue'[f] = issue[f]
    BY <1>2, <1>p DEF IssueState, Reasons, TripReasons
  <2>2. LiveEntry(e)'
    BY <1>2, <1>r, <1>t, <2>1 DEF LiveEntry
  <2> QED
    BY <1>1, <1>2, <2>1, <2>2 DEF MintedKept
<1>3. ASSUME NEW x \in ExpiresIn, IamIssues(e, x), ~(x <= 0) PROVE Live'
  <2>1. /\ UNCHANGED <<entries, done>> /\ issue[e].phase = "calling" /\ minted < MaxTokens
        /\ iam' = [iam EXCEPT ![minted + 1] = [entry |-> e, exp |-> now + x]]
        /\ issue' = [issue EXCEPT ![e].phase = "replied", ![e].tok = minted + 1,
                                  ![e].ttl = CapTTL(x)]
    BY <1>3 DEF IamIssues, callerVars
  <2>2. /\ issue'[e].phase = "replied" /\ issue'[e].tok = minted + 1
        /\ issue'[e].start = issue[e].start /\ issue'[e].valid = issue[e].valid
        /\ issue'[e].waiter = issue[e].waiter
        /\ \A f \in Entry : f # e => issue'[f] = issue[f]
    BY <2>1, <1>p DEF IssueState
  <2>3. minted + 1 \in TokenId /\ iam[minted + 1].entry = NoEntry
    BY <2>1, <1>p, <1>t, ClientAssumption DEF TokenId, TokenOrder
  <2>4. iam'[minted + 1].exp = now + x /\ \A tok \in TokenId : tok # minted + 1 => iam'[tok] = iam[tok]
    BY <2>1, <2>3, <1>p
  <2>5. MintedKept
    BY <2>3, <2>4, ClientAssumption DEF MintedKept
  <2>6. issue[e].start < now + x
    BY <1>3, <1>i, <1>p, ClientAssumption
  <2>7. LiveEntry(e)'
    BY <1>r, <1>t, <2>1, <2>2, <2>4, <2>6 DEF LiveEntry
  <2> QED
    BY <1>1, <2>1, <2>2, <2>5, <2>7
<1>7. CASE IssueSend(e)
  <2>1. /\ issue[e].phase = "started" /\ issue'[e].phase = "calling"
        /\ issue'[e].start = issue[e].start /\ issue'[e].valid = issue[e].valid
        /\ issue'[e].waiter = issue[e].waiter
        /\ \A f \in Entry : f # e => issue'[f] = issue[f]
    BY <1>7, <1>p DEF IssueSend, IssueState
  <2>2. UNCHANGED <<entries, done, iam>>
    BY <1>7 DEF IssueSend, callerVars
  <2>3. LiveEntry(e)'
    BY <1>r, <1>t, <2>1, <2>2 DEF LiveEntry
  <2> QED
    BY <1>1, <2>1, <2>2, <2>3 DEF MintedKept
<1>4. CASE IssueRequest(e)
  <2>1. ASSUME NEW reason \in {"sign", "transport"}, IssueFails(e, reason) PROVE Live'
    BY <1>2, <2>1 DEF IssueFails, callerVars, iamVars, Reasons, TripReasons
  <2>2. ASSUME NEW status \in Status, IamRefuses(e, status) PROVE Live'
    <3>1. ReasonOf(status) \in Reasons
      BY DEF ReasonOf, Reasons, TripReasons
    <3> QED
      BY <1>2, <2>2, <3>1 DEF IamRefuses, callerVars, iamVars
  <2>3. ASSUME NEW x \in ExpiresIn, IamIssues(e, x), x <= 0 PROVE Live'
    BY <1>2, <2>3 DEF IamIssues, callerVars, iamVars, Reasons, TripReasons
  <2> QED
    BY <1>3, <1>4, <1>7, <2>1, <2>2, <2>3 DEF IssueRequest
<1>5. CASE IssueRelease(e)
  <2>1. UNCHANGED <<entries, done, iam>> /\ issue' = [issue EXCEPT ![e] = NoIssue]
    BY <1>5 DEF IssueRelease, callerVars, iamVars
  <2>2. issue'[e].phase = "none" /\ issue'[e].waiter = NoCaller
        /\ \A f \in Entry : f # e => issue'[f] = issue[f]
    BY <2>1, <1>p DEF NoIssue
  <2>3. LiveEntry(e)'
    BY <1>t, <2>1, <2>2 DEF LiveEntry
  <2> QED
    BY <1>1, <2>1, <2>2, <2>3 DEF MintedKept
<1>6. CASE IssueStore(e)
  <2> DEFINE i == issue[e]
             res == IssueResult(entries[e], i)
  <2>1. /\ i.phase = "replied" /\ UNCHANGED iam
        /\ issue' = [issue EXCEPT ![e] = [NoIssue EXCEPT !.phase = "stored"]]
        /\ done' = IF i.waiter = NoCaller THEN done
                   ELSE [done EXCEPT ![i.waiter] = [full |-> TRUE, res |-> res]]
        /\ entries' = [entries EXCEPT ![e] = IF i.reason = "" THEN Stored(i)
                                             ELSE Failed(entries[e], i)]
    BY <1>6 DEF IssueStore, iamVars
  <2>2. issue'[e].phase = "stored" /\ issue'[e].waiter = NoCaller
        /\ \A f \in Entry : f # e => issue'[f] = issue[f] /\ entries'[f] = entries[f]
    BY <2>1, <1>p DEF NoIssue
  <2>3. entries'[e].renewAt <= entries'[e].expiresAt \/ entries'[e].renewAt = Zero
    <3>1. CASE i.reason = ""
      <4>1. /\ entries'[e].renewAt = i.start + i.ttl - RenewBefore
            /\ entries'[e].expiresAt = i.start + i.ttl
        BY <2>1, <3>1, <1>p DEF Stored, EmptyEntry
      <4>2. i.start \in Int /\ i.ttl \in Int /\ RenewBefore \in Nat
        BY <1>p, ClientAssumption DEF IssueState
      <4> HIDE DEF i
      <4> QED
        BY <4>1, <4>2
    <3>2. CASE i.reason # ""
      <4>1. entries'[e].renewAt = entries[e].renewAt /\ entries'[e].expiresAt = entries[e].expiresAt
        BY <2>1, <3>2, <1>p DEF Failed, EntryState
      <4> QED
        BY <4>1, <1>t DEF LiveEntry
    <3> QED
      BY <3>1, <3>2
  <2>4. ASSUME NEW f \in Entry PROVE LiveEntry(f)'
    <3>1. CASE f = e
      BY <2>2, <2>3, <3>1 DEF LiveEntry
    <3>2. CASE f # e
      BY <1>r, <2>1, <2>2, <3>2, LiveEntryKept DEF MintedKept
    <3> QED
      BY <3>1, <3>2
  <2>5. ASSUME NEW d \in Caller, d = i.waiter, res.tok # NoToken PROVE req[d].at < iam[res.tok].exp
    <3>1. req[d].at = i.start
      BY <2>5, <1>t, ClientAssumption DEF LiveEntry
    <3>2. CASE i.reason = ""
      BY <2>1, <3>1, <3>2, <1>t DEF LiveEntry, IssueResult
    <3>3. CASE i.reason # "" /\ i.valid
      <4>1. res.tok = entries[e].token /\ i.start < entries[e].expiresAt
        BY <2>1, <3>3, <1>t DEF LiveEntry, IssueResult
      <4>2. i.start < iam[entries[e].token].exp
        BY <2>5, <4>1, <1>i, <1>t, CachedLives
      <4> QED
        BY <3>1, <4>1, <4>2
    <3> QED
      BY <2>5, <3>2, <3>3 DEF IssueResult
  <2>6. ASSUME NEW d \in Caller PROVE LiveCall(d)'
    <3>1. pc'[d] = "gate" => /\ pc[d] = "gate" /\ req'[d] = req[d]
                             /\ entries'[req[d].entry].expiresAt = entries[req[d].entry].expiresAt
      <4>1. pc[d] = "gate" => req[d].entry \in Entry /\ req[d].entry # e
        BY <1>t, <2>1, CriticalAlone DEF Critical
      <4> QED
        BY <1>r, <2>2, <4>1
    <3>2. CASE d # i.waiter
      <4>1. done'[d] = done[d]
        BY <2>1, <3>2, <1>p
      <4> QED
        BY <1>r, <2>1, <3>1, <4>1, LiveCallKept DEF MintedKept
    <3>3. CASE d = i.waiter
      <4>1. done'[d] = [full |-> TRUE, res |-> res]
        BY <2>1, <3>3, <1>p, ClientAssumption
      <4>2. pc[d] = "wait"
        BY <2>1, <3>3, <1>t, ReportSound
      <4>3. done'[d].res = res
        BY <4>1
      <4> HIDE DEF res
      <4> QED
        BY <1>r, <2>1, <2>5, <3>3, <4>2, <4>3 DEF LiveCall
    <3> QED
      BY <3>2, <3>3
  <2> QED
    BY <2>4, <2>6 DEF Live
<1> QED
  BY <1>4, <1>5, <1>6

\* Every step of the client keeps them, and they hold of a new one (New).
LEMMA NextLives == LiveInv /\ [Next]_vars => LiveInv'
<1> SUFFICES ASSUME LiveInv, [Next]_vars PROVE Live'
  BY NextFull DEF LiveInv
<1>t. Full /\ Live /\ pc \in [Caller -> PCs] /\ req \in [Caller -> Request]
      /\ issue \in [Entry -> IssueState]
  BY DEF LiveInv, Full, Inv, Typed, TypeOK
<1>1. ASSUME UNCHANGED <<entries, issue, req, done, iam, pc>> PROVE Live'
  BY <1>1, <1>t DEF Live, LiveEntry, LiveCall
<1>2. ASSUME NEW c \in Caller, pc[c] = "idle", pc'[c] # "gate",
             UNCHANGED <<entries, issue, done, iam>>,
             \A d \in Caller : d # c => pc'[d] = pc[d] /\ req'[d] = req[d]
      PROVE  Live'
  <2>1. ~done[c].full /\ \A f \in Entry : issue[f].waiter # c
    BY <1>2, <1>t, NoWaiter DEF Full, RefInv, CallsSound, CallFacts
  <2>2. ASSUME NEW d \in Caller PROVE LiveCall(d)'
    BY <1>2, <2>1, LiveCallKept DEF MintedKept
  <2>3. ASSUME NEW f \in Entry PROVE LiveEntry(f)'
    <3>1. issue[f].waiter # NoCaller => issue[f].waiter \in Caller /\ issue[f].waiter # c
      BY <2>1, <1>t DEF IssueState
    <3> QED
      BY <1>2, <3>1, LiveEntryKept DEF MintedKept
  <2> QED
    BY <2>2, <2>3 DEF Live
<1>3. ASSUME NEW c \in Caller, CallerStart(c) PROVE Live'
  <2>1. pc[c] = "idle" /\ pc'[c] # "gate" /\ UNCHANGED <<entries, issue, done, iam>>
    BY <1>3, <1>t DEF CallerStart, RejectArgs, Call, Return, iamVars
  <2>2. \A d \in Caller : d # c => pc'[d] = pc[d] /\ req'[d] = req[d]
    BY <1>3, <1>t DEF CallerStart, RejectArgs, Call, Return
  <2> QED
    BY <1>2, <2>1, <2>2
<1>4. ASSUME NEW c \in Caller, CtxEnd(c) PROVE Live'
  BY <1>1, <1>4 DEF CtxEnd, iamVars
<1>5. CASE Tick \/ UNCHANGED vars
  BY <1>1, <1>5 DEF Tick, vars, callerVars, iamVars
<1> QED
  BY <1>3, <1>4, <1>5, CallerStepLives, IssuerStepLives DEF Next

\* Only the caller's own step ends its call, and what it returns is live.
LEMMA ReturnedIsLive ==
    ASSUME LiveInv, [Next]_vars, NEW c \in Caller, pc[c] # "idle", pc'[c] = "idle",
           ret'[c].tok # NoToken
    PROVE  (IF pc[c] \in {"gate", "wait"} THEN req[c].at ELSE now) < iam[ret'[c].tok].exp
<1>t. Full /\ Typed /\ Live /\ LiveCall(c) /\ CallFacts(c)
  BY DEF LiveInv, Live, Full, Inv, RefInv, CallsSound
<1>p. pc \in [Caller -> PCs] /\ ret \in [Caller -> Result] /\ now \in 1..MaxTime
      /\ entries \in [Entry -> EntryState] /\ req[c].at \in Int
  BY <1>t DEF Typed, TypeOK, Request
<1>s. SUFFICES ASSUME NEW e \in Entry, e = req[c].entry
               PROVE (IF pc[c] \in {"gate", "wait"} THEN req[c].at ELSE now) < iam[ret'[c].tok].exp
  BY <1>t DEF Typed, CallsHaveEntries
<1>1. CallerStep(c)
  <2>1. ASSUME NEW d \in Caller, CallerStart(d) \/ CtxEnd(d) PROVE FALSE
    BY <2>1, <1>p DEF CallerStart, RejectArgs, Call, CtxEnd, Return
  <2>2. ASSUME NEW d \in Caller, d # c, CallerStep(d) PROVE FALSE
    BY <2>2, <1>p DEF CallerStep, Acquire, Enqueue, GiveUp, RefreshLocked, InvalidateLocked,
                      ObtainLocked, Gate, Deliver, Abandon, Return
  <2>3. pc' # pc
    OBVIOUS
  <2> QED
    BY <2>1, <2>2, <2>3 DEF Next, IssueRequest, IssueSend, IssueFails, IamRefuses, IamIssues, IssueStore,
                            IssueRelease, Tick, vars, callerVars
<1>2. ASSUME NEW res, Return(c, res) PROVE ret'[c].tok = res.tok /\ res.tok # NoToken
  <2>1. ret'[c] = res
    BY <1>2, <1>p DEF Return
  <2> QED
    BY <2>1
<1>3. ASSUME NEW res, Outcome(c, res).tok # NoToken PROVE Outcome(c, res).tok = res.tok
  BY <1>3 DEF Outcome
<1>n. ~Return(c, NoResult)
  <2>1. NoResult.tok = NoToken
    BY DEF NoResult
  <2> QED
    BY <2>1, <1>2
<1>4. CASE Acquire(c) \/ Enqueue(c)
  BY <1>4, <1>p DEF Acquire, Enqueue, AfterAcquire
<1>5. CASE GiveUp(c) \/ Abandon(c) \/ InvalidateLocked(c)
  <2>1. Return(c, [tok |-> NoToken, err |-> "ctx"]) \/ Return(c, NoResult)
    BY <1>5 DEF GiveUp, Abandon, InvalidateLocked
  <2>2. CASE Return(c, [tok |-> NoToken, err |-> "ctx"])
    BY <2>2, <1>2
  <2>3. CASE Return(c, NoResult)
    BY <2>3, <1>n
  <2> QED
    BY <2>1, <2>2, <2>3
<1>6. CASE RefreshLocked(c)
  <2>1. pc[c] = "refresh"
    BY <1>6 DEF RefreshLocked
  <2>2. \/ Adoptable(entries[e], req[c].sent, now)
           /\ Return(c, [tok |-> entries[e].token, err |-> ""])
        \/ Return(c, NoResult)
        \/ pc' = [pc EXCEPT ![c] = "obtain"]
    BY <1>6, <1>s DEF RefreshLocked
  <2>3. pc' # [pc EXCEPT ![c] = "obtain"]
    BY <1>p
  <2>4. Adoptable(entries[e], req[c].sent, now) /\ ret'[c].tok = entries[e].token
    <3> DEFINE res == [tok |-> entries[e].token, err |-> ""]
    <3>1. Adoptable(entries[e], req[c].sent, now) /\ Return(c, res)
      BY <2>2, <2>3, <1>n
    <3>2. res.tok = entries[e].token
      OBVIOUS
    <3> HIDE DEF res
    <3>3. ret'[c].tok = res.tok
      BY <3>1, <1>2
    <3> QED
      BY <3>1, <3>2, <3>3
  <2> QED
    BY <2>1, <2>4, <1>p, <1>t, CachedLives DEF Adoptable
<1>7. CASE ObtainLocked(c)
  <2>1. pc[c] = "obtain"
    BY <1>7 DEF ObtainLocked
  <2>2. ret'[c].tok = entries[e].token /\ (Cached(entries[e], now) \/ Valid(entries[e], now))
    <3>1. CASE Cached(entries[e], now)
               /\ Return(c, Outcome(c, [tok |-> entries[e].token, err |-> ""]))
      BY <3>1, <1>2, <1>3
    <3>2. CASE Return(c, Outcome(c, IF Valid(entries[e], now)
                                    THEN [tok |-> entries[e].token, err |-> ""]
                                    ELSE [tok |-> NoToken, err |-> entries[e].lastErr]))
      <4> DEFINE res == IF Valid(entries[e], now) THEN [tok |-> entries[e].token, err |-> ""]
                        ELSE [tok |-> NoToken, err |-> entries[e].lastErr]
      <4>1. ret'[c].tok = res.tok /\ res.tok # NoToken
        BY <3>2, <1>2, <1>3
      <4> QED
        BY <4>1
    <3>3. pc' # [pc EXCEPT ![c] = "gate"]
      BY <1>p
    <3> QED
      BY <1>7, <1>s, <3>1, <3>2, <3>3 DEF ObtainLocked
  <2>3. entries[e].renewAt <= entries[e].expiresAt \/ entries[e].renewAt = 0
    BY <1>t DEF Live, LiveEntry, Zero
  <2>4. now < entries[e].expiresAt
    BY <2>2, <2>3, <1>p DEF Cached, Valid, EntryState
  <2> QED
    BY <2>1, <2>2, <2>4, <1>p, <1>t, CachedLives
<1>8. CASE Gate(c)
  <2>1. pc[c] = "gate"
    BY <1>8 DEF Gate
  <2>2. ret'[c].tok = entries[e].token /\ req[c].valid
    <3> DEFINE res == IF req[c].valid THEN [tok |-> entries[e].token, err |-> ""]
                      ELSE [tok |-> NoToken, err |-> "circuit_open"]
    <3>1. Return(c, Outcome(c, res))
      <4>1. pc' # [pc EXCEPT ![c] = "wait"]
        BY <1>p
      <4> QED
        BY <1>8, <1>s, <4>1 DEF Gate
    <3>2. ret'[c].tok = res.tok /\ res.tok # NoToken
      BY <3>1, <1>2, <1>3
    <3> QED
      BY <3>2
  <2> QED
    BY <2>1, <2>2, <1>p, <1>s, <1>t, CachedLives DEF LiveCall
<1>9. CASE Deliver(c)
  <2>1. pc[c] = "wait" /\ done[c].full /\ Return(c, Outcome(c, done[c].res))
    BY <1>9 DEF Deliver
  <2>2. ret'[c].tok = done[c].res.tok /\ done[c].res.tok # NoToken
    BY <2>1, <1>2, <1>3
  <2> QED
    BY <2>1, <2>2, <1>t DEF LiveCall
<1> QED
  BY <1>1, <1>4, <1>5, <1>6, <1>7, <1>8, <1>9 DEF CallerStep

\* A token handed out was live at an instant of the call that got it: when it
\* was returned, or when the attempt to renew it started (Token, Refresh,
\* obtainLocked, issueAndStore).
THEOREM ServedTokenWasLiveHolds == Spec => ServedTokenWasLive
<1>1. Init => LiveInv
  <2> SUFFICES ASSUME Init PROVE LiveInv
    OBVIOUS
  <2>1. Full
    BY InitTyped, InitSingleFlight, InitFacts, InitRef DEF Full, Inv
  <2>2. Live
    BY DEF Init, Live, LiveEntry, LiveCall, EmptyEntry, NoIssue, Zero
  <2> QED
    BY <2>1, <2>2 DEF LiveInv
<1>2. LiveInv /\ [Next]_vars =>
        [\A c \in Caller :
            pc[c] # "idle" /\ pc'[c] = "idle" /\ ret'[c].tok # NoToken
                => (IF pc[c] \in {"gate", "wait"} THEN req[c].at ELSE now)
                       < iam[ret'[c].tok].exp]_vars
  BY ReturnedIsLive
<1> QED
  BY <1>1, <1>2, NextLives, PTL DEF Spec, ServedTokenWasLive

=============================================================================
