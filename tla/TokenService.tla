---------------------------- MODULE TokenService ----------------------------
(***************************************************************************)
(* What the service-token client promises to the code that calls it,       *)
(* without a cache, locks, goroutines, timeouts or a circuit breaker: a    *)
(* call ends with a token fit for it or with an error.  S2SClient          *)
(* implements this specification; Transport is built on it.                *)
(***************************************************************************)
EXTENDS Naturals

CONSTANTS
    Caller,    \* goroutines that use the client
    Entry,     \* the (aud, scope) pairs tokens are asked for
    NoEntry,   \* the entry of a token that was not minted yet
    MaxTokens  \* bound: iam mints at most this many tokens

VARIABLES
    calls,    \* the call each caller has under way
    answers,  \* what each caller's last call returned
    owner,    \* the entry each token was minted for
    minted,   \* how many tokens iam minted; tokens are numbered in this order
    retired   \* tokens of an entry up to this one were invalidated

serviceVars == <<calls, answers, owner, minted, retired>>

NoToken == 0
NoCall == [op |-> "none", entry |-> NoEntry, sent |-> NoToken, since |-> NoToken]
Nothing == [kind |-> "nothing", tok |-> NoToken]
Failure == [kind |-> "failed", tok |-> NoToken]
TokenAnswer(t) == [kind |-> "token", tok |-> t]

ServiceInit ==
    /\ calls = [c \in Caller |-> NoCall]
    /\ answers = [c \in Caller |-> Nothing]
    /\ owner = [t \in 1..MaxTokens |-> NoEntry]
    /\ minted = 0
    /\ retired = [e \in Entry |-> 0]

\* A call begins.  Refresh names a token that was minted for the entry.
Begin(c, op, e, sent) ==
    /\ calls[c] = NoCall
    /\ IF op = "Refresh" THEN sent \in 1..MaxTokens /\ owner[sent] = e ELSE sent = NoToken
    /\ calls' = [calls EXCEPT ![c] = [op |-> op, entry |-> e, sent |-> sent,
                                      since |-> retired[e]]]
    /\ answers' = [answers EXCEPT ![c] = Nothing]
    /\ UNCHANGED <<owner, minted, retired>>

\* A call with an empty audience or scope fails at once.
Reject(c) ==
    /\ calls[c] = NoCall
    /\ answers' = [answers EXCEPT ![c] = Failure]
    /\ UNCHANGED <<calls, owner, minted, retired>>

\* iam mints a token.
Mint(e) ==
    /\ minted < MaxTokens
    /\ minted' = minted + 1
    /\ owner' = [owner EXCEPT ![minted + 1] = e]
    /\ UNCHANGED <<calls, answers, retired>>

\* The token is for the entry asked, was not invalidated before the call
\* began and, for Refresh, is newer than the rejected one.
Fit(call, t) ==
    /\ t \in 1..MaxTokens
    /\ owner[t] = call.entry
    /\ t > call.since
    /\ call.op = "Refresh" => t > call.sent

\* The answers a call may have: Token never comes back empty-handed without
\* an error, Refresh may decline, Invalidate has nothing to say.
Answers(call) ==
    {TokenAnswer(t) : t \in {u \in 1..MaxTokens : call.op # "Invalidate" /\ Fit(call, u)}}
        \cup (IF call.op # "Invalidate" THEN {Failure} ELSE {})
        \cup (IF call.op # "Token" THEN {Nothing} ELSE {})

\* A call ends; with Invalidate every token minted so far is retired.
End(c, answer) ==
    /\ calls[c] # NoCall
    /\ answer \in Answers(calls[c])
    /\ calls' = [calls EXCEPT ![c] = NoCall]
    /\ answers' = [answers EXCEPT ![c] = answer]
    /\ retired' = IF calls[c].op = "Invalidate"
                  THEN [retired EXCEPT ![calls[c].entry] = minted] ELSE retired
    /\ UNCHANGED <<owner, minted>>

ServiceOps == {"Token", "Refresh", "Invalidate"}

\* A caller starts or ends a call.  What happens to calls[c] is said before
\* the choice of arguments, which only then need enumerating.
CallStep(c) ==
    \/ Reject(c)
    \/ /\ calls[c] = NoCall /\ calls'[c] # NoCall
       /\ \E op \in ServiceOps, e \in Entry, sent \in 0..MaxTokens : Begin(c, op, e, sent)
    \/ /\ calls[c] # NoCall /\ calls'[c] = NoCall
       /\ \E answer \in Answers(calls[c]) : End(c, answer)

ServiceNext ==
    \/ \E c \in Caller : CallStep(c)
    \/ \E e \in Entry : Mint(e)

ServiceSpec == ServiceInit /\ [][ServiceNext]_serviceVars

=============================================================================
