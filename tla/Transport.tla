------------------------------ MODULE Transport ------------------------------
(***************************************************************************)
(* The http.RoundTripper of infrastructure/s2stoken/client/transport.go,   *)
(* on top of what the token client promises (TokenService, which S2SClient *)
(* implements): it adds the service token of one audience to each request  *)
(* and, after a 401, renews the token and retries once.                    *)
(*                                                                         *)
(* A goroutine inside http.Client.Do is a Caller; goroutines share the     *)
(* Transport and the client, and any of them may also invalidate.  The     *)
(* http.Client that calls RoundTrip and follows redirects, and the servers *)
(* behind the base transport, are outside the package: Dispatch, Follow,   *)
(* Consume and the statuses of the answers stand for them.  A request is a *)
(* record; its header is the token under X-Service-Token in the header map *)
(* of the request the http.Client owns, which a redirect copies.           *)
(***************************************************************************)
EXTENDS TokenService, Sequences

CONSTANTS
    Dest,     \* Transport.Audience and Scopes
    Url,      \* the hosts requests and redirects go to
    Home,     \* the host Transport.Host may be set to
    AnyHost,  \* Transport.Host is empty
    Status,   \* statuses servers answer with
    MaxHops   \* bound: redirects the http.Client follows

ASSUME TransportAssumption ==
    /\ Dest \in Entry /\ NoEntry \notin Entry /\ Home \in Url /\ AnyHost \notin Url
    /\ Status \subseteq Nat /\ MaxTokens \in Nat /\ MaxHops \in Nat

VARIABLES
    host,  \* Transport.Host
    pc,    \* where each goroutine is
    trip   \* the RoundTrip each goroutine is in

transportVars == <<host, pc, trip>>
vars == <<serviceVars, transportVars>>

\* Bodies: absent, with a GetBody, or a stream that can be read only once.
Bodies == {"none", "rewindable", "stream"}

\* A RoundTrip that begins: its request, what was sent so far, the responses
\* whose body is open (by the number of the send they answer), the status
\* received last, the response returned (0 for an error), and the tokens
\* already invalidated when it began (history).
NewTrip(url, body, redirect, header, hops) ==
    [url |-> url, body |-> body, redirect |-> redirect, header |-> header, hops |-> hops,
     sent |-> <<>>, open |-> {}, status |-> 0, returned |-> 0, since |-> retired[Dest]]

Init ==
    /\ ServiceInit
    /\ host \in {AnyHost, Home}
    /\ pc = [c \in Caller |-> "idle"]
    /\ trip = [c \in Caller |-> NewTrip(Home, "none", FALSE, NoToken, 0)]

-----------------------------------------------------------------------------
(* The http.Client, and users of the token client.                         *)

\* http.Client.Do hands a request to the Transport.
Dispatch(c, url, body) ==
    /\ pc[c] = "idle"
    /\ pc' = [pc EXCEPT ![c] = "enter"]
    /\ trip' = [trip EXCEPT ![c] = NewTrip(url, body, FALSE, NoToken, 0)]
    /\ UNCHANGED <<serviceVars, host>>

\* http.Client.Do closes a redirect and follows it, with Response set and the
\* headers of the first request.
Follow(c, url) ==
    /\ pc[c] = "returned"
    /\ trip[c].returned # 0
    /\ trip[c].status = 302
    /\ trip[c].hops < MaxHops
    /\ pc' = [pc EXCEPT ![c] = "enter"]
    /\ trip' = [trip EXCEPT ![c] =
                    NewTrip(url, "none", TRUE, trip[c].header, trip[c].hops + 1)]
    /\ UNCHANGED <<serviceVars, host>>

\* http.Client.Do returns; its caller reads and closes what it got.
Consume(c) ==
    /\ pc[c] = "returned"
    /\ pc' = [pc EXCEPT ![c] = "idle"]
    /\ trip' = [trip EXCEPT ![c] = NewTrip(Home, "none", FALSE, NoToken, 0)]
    /\ UNCHANGED <<serviceVars, host>>

\* Somebody invalidates the token of the destination.
Invalidate(c) ==
    /\ pc[c] = "idle"
    /\ pc' = [pc EXCEPT ![c] = "invalidate"]
    /\ Begin(c, "Invalidate", Dest, NoToken)
    /\ UNCHANGED <<host, trip>>

Invalidated(c) ==
    /\ pc[c] = "invalidate"
    /\ \E answer \in Answers(calls[c]) : End(c, answer)
    /\ pc' = [pc EXCEPT ![c] = "idle"]
    /\ UNCHANGED <<host, trip>>

-----------------------------------------------------------------------------
(* RoundTrip.                                                              *)

\* send writing the token into the request it was given.
HeaderAfterInPlace(r, tok) == tok
\* send: the token goes into a clone, the request keeps its headers.
HeaderAfter(r, tok) == r.header

\* A body is whole when it goes out for the first time, or as a copy.
Whole(r, source) == r.body = "none" \/ r.sent = <<>> \/ source = "copy"

\* A request goes out with tok in its header and the body it was given or the
\* copy of GetBody (send, and base.RoundTrip).
Sent(r, tok, source) ==
    [r EXCEPT !.sent = Append(r.sent, [url |-> r.url, tok |-> tok, whole |-> Whole(r, source)]),
              !.header = HeaderAfter(r, tok)]

\* RoundTrip returns the response to send number i, or an error (0).
Leave(c, r, i) ==
    /\ pc' = [pc EXCEPT ![c] = "returned"]
    /\ trip' = [trip EXCEPT ![c] = [r EXCEPT !.returned = i]]

\* A redirect goes out as it came.
PassRedirect(c) ==
    /\ pc[c] = "enter"
    /\ trip[c].redirect
    /\ pc' = [pc EXCEPT ![c] = "plain"]
    /\ trip' = [trip EXCEPT ![c] = Sent(trip[c], trip[c].header, "given")]
    /\ UNCHANGED <<serviceVars, host>>

HostMatches(url) == host = AnyHost \/ url = host

\* ErrHostMismatch.
RefuseHost(c) ==
    /\ pc[c] = "enter"
    /\ ~trip[c].redirect
    /\ ~HostMatches(trip[c].url)
    /\ Leave(c, trip[c], 0)
    /\ UNCHANGED <<serviceVars, host>>

\* Client.Token is called.
AskToken(c) ==
    /\ pc[c] = "enter"
    /\ ~trip[c].redirect
    /\ HostMatches(trip[c].url)
    /\ Begin(c, "Token", Dest, NoToken)
    /\ pc' = [pc EXCEPT ![c] = "token"]
    /\ UNCHANGED <<host, trip>>

\* Client.Token returns: an error, or the token of the first attempt.
SendFirst(c) ==
    /\ pc[c] = "token"
    /\ \E answer \in Answers(calls[c]) :
           /\ End(c, answer)
           /\ IF answer = Failure THEN Leave(c, trip[c], 0)
              ELSE /\ pc' = [pc EXCEPT ![c] = "first"]
                   /\ trip' = [trip EXCEPT ![c] = Sent(trip[c], answer.tok, "given")]
    /\ UNCHANGED host

InFlight == {"plain", "first", "second"}

\* The base transport fails.
BaseFails(c) ==
    /\ pc[c] \in InFlight
    /\ Leave(c, trip[c], 0)
    /\ UNCHANGED <<serviceVars, host>>

\* The response to the last send arrives.
Received(r, status) == [r EXCEPT !.status = status, !.open = r.open \cup {Len(r.sent)}]

\* RoundTrip trying again whatever the body is.
CanRetryAnyBody(r, status) == status = 401
\* RoundTrip: a 401, and a body that can be sent again.
CanRetry(r, status) == status = 401 /\ r.body # "stream"

\* The response is the result: a redirect or a retry, or nothing to retry.
ReturnResponse(c, status) ==
    /\ pc[c] \in InFlight
    /\ pc[c] = "first" => ~CanRetry(trip[c], status)
    /\ Leave(c, Received(trip[c], status), Len(trip[c].sent))
    /\ UNCHANGED <<serviceVars, host>>

\* A 401: Client.Refresh is called about the token just rejected.
AskRefresh(c, status) ==
    /\ pc[c] = "first"
    /\ CanRetry(trip[c], status)
    /\ Begin(c, "Refresh", Dest, trip[c].sent[1].tok)
    /\ pc' = [pc EXCEPT ![c] = "refresh"]
    /\ trip' = [trip EXCEPT ![c] = Received(trip[c], status)]
    /\ UNCHANGED host

\* RoundTrip without the Close of the response it gives up.
DiscardedOpen(r) == r
\* The first response is given up.
Discarded(r) == [r EXCEPT !.open = r.open \ {1}]

\* Client.Refresh returns: without a newer token, or when the body cannot be
\* rewound, the 401 is the result; otherwise the request goes out once more.
SendSecond(c) ==
    /\ pc[c] = "refresh"
    /\ \E answer \in Answers(calls[c]) :
           /\ End(c, answer)
           /\ \/ /\ answer \in {Failure, Nothing} \/ trip[c].body = "rewindable"
                 /\ Leave(c, trip[c], 1)
              \/ /\ answer \notin {Failure, Nothing}
                 /\ pc' = [pc EXCEPT ![c] = "second"]
                 /\ trip' = [trip EXCEPT ![c] =
                        Sent(Discarded(trip[c]), answer.tok,
                             IF trip[c].body = "rewindable" THEN "copy" ELSE "given")]
    /\ UNCHANGED host

-----------------------------------------------------------------------------

\* A goroutine goes on inside RoundTrip.
TripStep(c) ==
    \/ PassRedirect(c) \/ RefuseHost(c) \/ AskToken(c) \/ SendFirst(c) \/ BaseFails(c)
    \/ \E status \in Status : ReturnResponse(c, status) \/ AskRefresh(c, status)
    \/ SendSecond(c)

ClientStep(c) ==
    \/ \E url \in Url, body \in Bodies : Dispatch(c, url, body)
    \/ \E url \in Url : Follow(c, url)
    \/ Consume(c) \/ Invalidate(c) \/ Invalidated(c)

\* iam mints, for a call of these goroutines or of others.
MintStep == \E e \in Entry : Mint(e) /\ UNCHANGED transportVars

Next == (\E c \in Caller : ClientStep(c) \/ TripStep(c)) \/ MintStep

Spec == Init /\ [][Next]_vars

-----------------------------------------------------------------------------
(* Properties.                                                             *)

PCs == {"idle", "invalidate", "enter", "plain", "token", "first", "refresh", "second", "returned"}

Sends == [url: Url, tok: 0..MaxTokens, whole: BOOLEAN]
Trips == [url: Url, body: Bodies, redirect: BOOLEAN, header: 0..MaxTokens, hops: 0..MaxHops,
          sent: Seq(Sends), open: SUBSET {1, 2}, status: Status \cup {0}, returned: {0, 1, 2},
          since: 0..MaxTokens]

\* Every variable has its type, and tokens are minted before they are used.
TypeOK ==
    /\ calls \in [Caller -> [op: ServiceOps \cup {"none"}, entry: Entry \cup {NoEntry},
                             sent: 0..MaxTokens, since: 0..MaxTokens]]
    /\ answers \in [Caller -> {Nothing, Failure} \cup {TokenAnswer(t) : t \in 1..MaxTokens}]
    /\ minted \in 0..MaxTokens
    /\ owner \in [1..MaxTokens -> Entry \cup {NoEntry}]
    /\ retired \in [Entry -> 0..MaxTokens]
    /\ host \in {AnyHost, Home}
    /\ pc \in [Caller -> PCs]
    /\ trip \in [Caller -> Trips]

\* The service token never leaves on a redirect, to whatever host, nor to a
\* host other than the configured one, although the http.Client copies the
\* headers of the first request into every redirect (RoundTrip, send).
CredentialStaysHome ==
    \A c \in Caller : \A i \in DOMAIN trip[c].sent :
        trip[c].sent[i].tok # NoToken =>
            ~trip[c].redirect /\ HostMatches(trip[c].sent[i].url)

\* A request goes out at most twice, the second time whole and with a newer
\* token than the rejected one; no attempt carries a token of another
\* audience, or one that was invalidated before the request began, even when
\* others invalidate and renew in between (RoundTrip).
RetryIsProgress ==
    \A c \in Caller :
        LET r == trip[c] IN
        ~r.redirect =>
            /\ Len(r.sent) <= 2
            /\ \A i \in DOMAIN r.sent : owner[r.sent[i].tok] = Dest /\ r.sent[i].tok > r.since
            /\ Len(r.sent) = 2 => r.sent[2].tok > r.sent[1].tok /\ r.sent[2].whole

\* What RoundTrip returns is open, and nothing else is: the 401 it gave up is
\* closed, the 401 it hands on is not, on every path (RoundTrip).
ResponsesAccounted ==
    \A c \in Caller :
        pc[c] = "returned" =>
            trip[c].open = IF trip[c].returned = 0 THEN {} ELSE {trip[c].returned}

=============================================================================
