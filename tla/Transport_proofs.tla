-------------------------- MODULE Transport_proofs --------------------------
(***************************************************************************)
(* What RoundTrip keeps for every number of goroutines, tokens, hosts,     *)
(* statuses and redirects.                                                 *)
(*                                                                         *)
(* The three invariants follow from what is true of one goroutine at each  *)
(* place of RoundTrip (AtPlace): what it sent, which responses are open,   *)
(* and what the call under way was asked.  Goroutines meet only in the     *)
(* token client, whose tokens keep their entry and whose invalidations     *)
(* only grow, so a step of one leaves the others where they were.          *)
(***************************************************************************)
EXTENDS Transport, TLAPS

\* Tokens belong to an entry once they are minted; only those are retired.
Minting ==
    /\ \A t \in 1..MaxTokens : owner[t] # NoEntry => t <= minted
    /\ \A e \in Entry : retired[e] <= minted

\* Send number i of goroutine c carried a token fit for its request.
Credential(c, i) ==
    LET r == trip[c] IN
    /\ r.sent[i].url = r.url
    /\ r.sent[i].tok \in 1..MaxTokens
    /\ owner[r.sent[i].tok] = Dest
    /\ r.sent[i].tok > r.since

\* A request that may carry a token.
AtHome(c) == ~trip[c].redirect /\ HostMatches(trip[c].url)

NotSent(c) == trip[c].sent = <<>>

\* The request went out once, with a token, to the right host.
SentOnce(c) == AtHome(c) /\ Len(trip[c].sent) = 1 /\ Credential(c, 1)

\* The request went out again, whole and with a newer token.
SentTwice(c) ==
    /\ AtHome(c) /\ Len(trip[c].sent) = 2 /\ Credential(c, 1) /\ Credential(c, 2)
    /\ trip[c].sent[2].tok > trip[c].sent[1].tok /\ trip[c].sent[2].whole

\* A redirect went out, without a token.
SentPlain(c) == trip[c].redirect /\ Len(trip[c].sent) = 1 /\ trip[c].sent[1].tok = NoToken

\* The call of the token client that goroutine c waits for.
Asked(c, op) ==
    calls[c].op = op /\ calls[c].entry = Dest /\ calls[c].since >= trip[c].since

\* What is true of goroutine c where it is.
AtPlace(c) ==
    /\ trip[c].header = NoToken
    /\ trip[c].since <= retired[Dest]
    /\ pc[c] \in {"idle", "invalidate", "enter", "token"} => NotSent(c) /\ trip[c].open = {}
    /\ pc[c] = "token" => AtHome(c) /\ Asked(c, "Token")
    /\ pc[c] = "plain" => SentPlain(c) /\ trip[c].open = {}
    /\ pc[c] = "first" => SentOnce(c) /\ trip[c].open = {}
    /\ pc[c] = "refresh" => /\ SentOnce(c) /\ trip[c].open = {1} /\ trip[c].body # "stream"
                            /\ Asked(c, "Refresh") /\ calls[c].sent = trip[c].sent[1].tok
    /\ pc[c] = "second" => SentTwice(c) /\ trip[c].open = {}
    /\ pc[c] = "returned" =>
           /\ NotSent(c) \/ SentPlain(c) \/ SentOnce(c) \/ SentTwice(c)
           /\ trip[c].open = IF trip[c].returned = 0 THEN {} ELSE {trip[c].returned}

Inv == TypeOK /\ Minting /\ \A c \in Caller : AtPlace(c)

-----------------------------------------------------------------------------
(* The token client.                                                       *)

\* Tokens keep their entry, and invalidations only grow.
Growth ==
    /\ \A t \in 1..MaxTokens : owner[t] = Dest => owner'[t] = Dest
    /\ \A e \in Entry : retired[e] <= retired'[e]

\* The types of the token client alone.
ServiceOK ==
    /\ calls \in [Caller -> [op: ServiceOps \cup {"none"}, entry: Entry \cup {NoEntry},
                             sent: 0..MaxTokens, since: 0..MaxTokens]]
    /\ answers \in [Caller -> {Nothing, Failure} \cup {TokenAnswer(t) : t \in 1..MaxTokens}]
    /\ minted \in 0..MaxTokens
    /\ owner \in [1..MaxTokens -> Entry \cup {NoEntry}]
    /\ retired \in [Entry -> 0..MaxTokens]

LEMMA Split == TypeOK <=> /\ ServiceOK /\ host \in {AnyHost, Home} /\ pc \in [Caller -> PCs]
                          /\ trip \in [Caller -> Trips]
BY DEF TypeOK, ServiceOK

LEMMA BeginStep ==
    ASSUME ServiceOK, Minting, NEW c \in Caller, NEW op \in ServiceOps, NEW e \in Entry,
           NEW sent \in 0..MaxTokens, Begin(c, op, e, sent)
    PROVE  /\ ServiceOK' /\ Minting' /\ Growth
           /\ calls'[c] = [op |-> op, entry |-> e, sent |-> sent, since |-> retired[e]]
           /\ \A d \in Caller : d # c => calls'[d] = calls[d]
<1>0. MaxTokens \in Nat
  BY TransportAssumption
<1>1. /\ calls' = [calls EXCEPT ![c] = [op |-> op, entry |-> e, sent |-> sent, since |-> retired[e]]]
      /\ answers' = [answers EXCEPT ![c] = Nothing]
      /\ UNCHANGED <<owner, minted, retired>>
  BY DEF Begin
<1>2. [op |-> op, entry |-> e, sent |-> sent, since |-> retired[e]]
        \in [op: ServiceOps \cup {"none"}, entry: Entry \cup {NoEntry}, sent: 0..MaxTokens,
             since: 0..MaxTokens]
  BY DEF ServiceOK
<1>3. ServiceOK'
  BY <1>1, <1>2 DEF ServiceOK
<1>4. Minting' /\ Growth
  BY <1>0, <1>1 DEF Minting, Growth, ServiceOK
<1> QED
  BY <1>1, <1>3, <1>4 DEF ServiceOK

LEMMA EndStep ==
    ASSUME ServiceOK, Minting, NEW c \in Caller, NEW answer \in Answers(calls[c]), End(c, answer)
    PROVE  /\ ServiceOK' /\ Minting' /\ Growth
           /\ \A d \in Caller : d # c => calls'[d] = calls[d]
           /\ UNCHANGED owner
           /\ calls[c].op # "Invalidate" => UNCHANGED retired
<1>0. MaxTokens \in Nat
  BY TransportAssumption
<1>1. /\ calls' = [calls EXCEPT ![c] = NoCall] /\ answers' = [answers EXCEPT ![c] = answer]
      /\ UNCHANGED <<owner, minted>>
      /\ retired' = IF calls[c].op = "Invalidate" THEN [retired EXCEPT ![calls[c].entry] = minted]
                    ELSE retired
  BY DEF End
<1>2. answer \in {Nothing, Failure} \cup {TokenAnswer(t) : t \in 1..MaxTokens}
  BY DEF Answers
<1>3. NoCall \in [op: ServiceOps \cup {"none"}, entry: Entry \cup {NoEntry}, sent: 0..MaxTokens,
                  since: 0..MaxTokens]
  BY <1>0 DEF NoCall, NoToken
<1>4. /\ retired' \in [Entry -> 0..MaxTokens]
      /\ \A e \in Entry : retired'[e] = retired[e] \/ retired'[e] = minted
  BY <1>1 DEF ServiceOK
<1>5. ServiceOK'
  BY <1>1, <1>2, <1>3, <1>4 DEF ServiceOK
<1>6. Minting' /\ Growth
  <2>1. \A e \in Entry : retired[e] \in Nat /\ retired[e] <= minted /\ minted \in Nat
    BY <1>0 DEF ServiceOK, Minting
  <2>2. \A e \in Entry : retired'[e] <= minted /\ retired[e] <= retired'[e]
    BY <2>1, <1>4
  <2> QED
    BY <2>2, <1>1 DEF Minting, Growth
<1> QED
  BY <1>1, <1>5, <1>6 DEF ServiceOK

LEMMA MintIsGrowth ==
    ASSUME ServiceOK, Minting, NEW e \in Entry, Mint(e)
    PROVE  ServiceOK' /\ Minting' /\ Growth /\ UNCHANGED calls
<1>0. MaxTokens \in Nat /\ minted \in Nat
  BY TransportAssumption DEF ServiceOK
<1>1. /\ minted < MaxTokens /\ minted' = minted + 1 /\ owner' = [owner EXCEPT ![minted + 1] = e]
      /\ UNCHANGED <<calls, answers, retired>>
  BY DEF Mint
<1>2. minted + 1 \in 1..MaxTokens /\ minted' \in 0..MaxTokens
  BY <1>0, <1>1
<1>3. owner' \in [1..MaxTokens -> Entry \cup {NoEntry}]
  BY <1>1, <1>2 DEF ServiceOK
<1>4. ServiceOK'
  BY <1>1, <1>2, <1>3 DEF ServiceOK
<1>5. \A t \in 1..MaxTokens : t # minted + 1 => owner'[t] = owner[t]
  BY <1>1, <1>2 DEF ServiceOK
<1>6. owner[minted + 1] = NoEntry
  BY <1>0, <1>2 DEF Minting
<1>7. Growth
  <2>1. \A f \in Entry : retired[f] <= retired'[f]
    BY <1>0, <1>1 DEF ServiceOK
  <2> QED
    BY <2>1, <1>5, <1>6, TransportAssumption DEF Growth
<1>8. Minting'
  <2>1. \A t \in 1..MaxTokens : owner'[t] # NoEntry => t <= minted'
    <3>1. SUFFICES ASSUME NEW t \in 1..MaxTokens, owner'[t] # NoEntry PROVE t <= minted + 1
      BY <1>1
    <3>2. CASE t = minted + 1
      BY <1>0, <3>2
    <3>3. CASE t # minted + 1
      BY <1>0, <1>5, <3>1, <3>3 DEF Minting
    <3> QED
      BY <3>2, <3>3
  <2>2. \A f \in Entry : retired'[f] <= minted'
    BY <1>0, <1>1 DEF Minting, ServiceOK
  <2> QED
    BY <2>1, <2>2 DEF Minting
<1> QED
  BY <1>1, <1>4, <1>7, <1>8

\* What a goroutine did stays true while others use the token client.
LEMMA Elsewhere ==
    ASSUME TypeOK, TypeOK', NEW d \in Caller, AtPlace(d), Growth, host' = host,
           pc'[d] = pc[d], trip'[d] = trip[d], calls'[d] = calls[d]
    PROVE  AtPlace(d)'
<1>1. Dest \in Entry /\ MaxTokens \in Nat
  BY TransportAssumption
<1>2. retired[Dest] <= retired'[Dest] /\ \A t \in 1..MaxTokens : owner[t] = Dest => owner'[t] = Dest
  BY <1>1 DEF Growth
<1>3. trip[d].since \in Nat /\ retired[Dest] \in Nat /\ retired'[Dest] \in Nat
  BY <1>1 DEF TypeOK, Trips
<1>4. trip'[d].since <= retired'[Dest]
  BY <1>2, <1>3 DEF AtPlace
<1>6. /\ Credential(d, 1) => Credential(d, 1)'
      /\ Credential(d, 2) => Credential(d, 2)'
  BY <1>2 DEF Credential
<1>7. AtHome(d) => AtHome(d)'
  BY DEF AtHome, HostMatches
<1>8. /\ SentOnce(d) => SentOnce(d)'
      /\ SentTwice(d) => SentTwice(d)'
      /\ SentPlain(d) => SentPlain(d)'
      /\ NotSent(d) => NotSent(d)'
  BY <1>6, <1>7 DEF SentOnce, SentTwice, SentPlain, NotSent
<1>9. /\ Asked(d, "Token") => Asked(d, "Token")'
      /\ Asked(d, "Refresh") => Asked(d, "Refresh")'
  BY DEF Asked
<1> QED
  BY <1>4, <1>7, <1>8, <1>9 DEF AtPlace

-----------------------------------------------------------------------------
(* Steps of one goroutine.                                                 *)

LEMMA InitInv == Init => Inv
<1> SUFFICES ASSUME Init PROVE Inv
  OBVIOUS
<1>0. MaxTokens \in Nat /\ MaxHops \in Nat /\ Home \in Url /\ Dest \in Entry
  BY TransportAssumption
<1>1. ServiceOK /\ Minting
  BY <1>0 DEF Init, ServiceInit, ServiceOK, Minting, NoCall, NoToken
<1>2. <<>> \in Seq(Sends) /\ retired[Dest] = 0
  BY <1>0 DEF Init, ServiceInit
<1>3. NewTrip(Home, "none", FALSE, NoToken, 0) \in Trips
  BY <1>0, <1>2 DEF NewTrip, Trips, Bodies, NoToken
<1>4. TypeOK
  BY <1>1, <1>3, Split DEF Init, PCs
<1>5. ASSUME NEW c \in Caller PROVE AtPlace(c)
  BY <1>2 DEF Init, AtPlace, NewTrip, NotSent
<1> QED
  BY <1>1, <1>4, <1>5 DEF Inv

\* Goroutine c goes to place p with trip x.
LEMMA GoesOn ==
    ASSUME Inv, NEW c \in Caller, NEW p \in PCs, NEW x \in Trips,
           ServiceOK', Minting', Growth, host' = host, \A d \in Caller : d # c => calls'[d] = calls[d],
           pc' = [pc EXCEPT ![c] = p], trip' = [trip EXCEPT ![c] = x],
           pc'[c] = p /\ trip'[c] = x => AtPlace(c)'
    PROVE  Inv'
<1>1. TypeOK /\ pc \in [Caller -> PCs] /\ trip \in [Caller -> Trips] /\ host \in {AnyHost, Home}
  BY DEF Inv, TypeOK
<1>2. TypeOK'
  BY <1>1 DEF TypeOK, ServiceOK
<1>3. pc'[c] = p /\ trip'[c] = x
  BY <1>1
<1>4. \A d \in Caller : d # c => pc'[d] = pc[d] /\ trip'[d] = trip[d]
  BY <1>1
<1>5. ASSUME NEW d \in Caller, d # c PROVE AtPlace(d)'
  BY <1>1, <1>2, <1>4, <1>5, Elsewhere DEF Inv
<1> QED
  BY <1>2, <1>3, <1>5 DEF Inv

\* A step that leaves the token client alone.
LEMMA ServiceIdle ==
    ASSUME Inv, UNCHANGED serviceVars
    PROVE  ServiceOK' /\ Minting' /\ Growth /\ UNCHANGED <<calls, owner, retired>>
<1>1. ServiceOK /\ Minting /\ MaxTokens \in Nat
  BY Split, TransportAssumption DEF Inv
<1> QED
  BY <1>1 DEF ServiceOK, Minting, Growth, serviceVars

\* A trip that begins.
LEMMA FreshTrip ==
    ASSUME Inv, NEW url \in Url, NEW body \in Bodies, NEW redirect \in BOOLEAN,
           NEW hops \in 0..MaxHops
    PROVE  \E x : /\ x \in Trips /\ x = NewTrip(url, body, redirect, NoToken, hops)
                  /\ x.header = NoToken /\ x.sent = <<>> /\ x.open = {}
                  /\ x.since = retired[Dest] /\ x.since \in Nat
<1>1. MaxTokens \in Nat /\ Dest \in Entry
  BY TransportAssumption
<1>2. <<>> \in Seq(Sends) /\ retired[Dest] \in 0..MaxTokens /\ NoToken \in 0..MaxTokens
  BY <1>1 DEF Inv, TypeOK, NoToken
<1>3. NewTrip(url, body, redirect, NoToken, hops) \in Trips
  BY <1>1, <1>2 DEF NewTrip, Trips
<1> WITNESS NewTrip(url, body, redirect, NoToken, hops)
<1> QED
  BY <1>1, <1>2, <1>3 DEF NewTrip

\* Dispatch, Follow and Consume: a new trip.
LEMMA NewTripInv ==
    ASSUME Inv, NEW c \in Caller, NEW p \in {"idle", "enter"}, NEW x \in Trips,
           x.header = NoToken, x.sent = <<>>, x.open = {}, x.since = retired[Dest], x.since \in Nat,
           pc' = [pc EXCEPT ![c] = p], trip' = [trip EXCEPT ![c] = x],
           UNCHANGED <<serviceVars, host>>
    PROVE  Inv'
<1>1. ServiceOK' /\ Minting' /\ Growth /\ UNCHANGED <<calls, owner, retired>>
  BY ServiceIdle
<1>2. ASSUME pc'[c] = p, trip'[c] = x PROVE AtPlace(c)'
  BY <1>1, <1>2 DEF AtPlace, NotSent
<1>3. p \in PCs
  BY DEF PCs
<1> QED
  BY <1>1, <1>2, <1>3, GoesOn

LEMMA ClientInv ==
    ASSUME Inv, NEW c \in Caller, ClientStep(c)
    PROVE  Inv'
<1>0. /\ MaxHops \in Nat /\ MaxTokens \in Nat /\ Home \in Url /\ 0 \in 0..MaxHops /\ "none" \in Bodies
      /\ Dest \in Entry
  BY TransportAssumption DEF Bodies
<1>t. ServiceOK /\ Minting /\ trip \in [Caller -> Trips] /\ pc \in [Caller -> PCs]
  BY Split DEF Inv
<1>1. ASSUME NEW url \in Url, NEW body \in Bodies, Dispatch(c, url, body) PROVE Inv'
  <2>1. PICK x \in Trips : /\ x = NewTrip(url, body, FALSE, NoToken, 0)
                           /\ x.header = NoToken /\ x.sent = <<>> /\ x.open = {}
                           /\ x.since = retired[Dest] /\ x.since \in Nat
    BY <1>0, FreshTrip
  <2> QED
    BY <1>1, <2>1, NewTripInv DEF Dispatch
<1>2. ASSUME NEW url \in Url, Follow(c, url) PROVE Inv'
  <2>1. trip[c].header = NoToken /\ trip[c].hops + 1 \in 0..MaxHops
    <3>1. trip[c].header = NoToken /\ trip[c].hops \in 0..MaxHops /\ trip[c].hops < MaxHops
      <4>1. trip[c] \in Trips /\ AtPlace(c)
        BY <1>t DEF Inv
      <4>2. trip[c].hops < MaxHops
        BY <1>2 DEF Follow
      <4> QED
        BY <4>1, <4>2 DEF AtPlace, Trips
    <3> QED
      BY <3>1, <1>0
  <2>2. PICK n \in 0..MaxHops : n = trip[c].hops + 1
    BY <2>1
  <2>3. PICK x \in Trips : /\ x = NewTrip(url, "none", TRUE, NoToken, n)
                           /\ x.header = NoToken /\ x.sent = <<>> /\ x.open = {}
                           /\ x.since = retired[Dest] /\ x.since \in Nat
    BY <1>0, FreshTrip
  <2>4. x = NewTrip(url, "none", TRUE, NoToken, trip[c].hops + 1)
    BY <2>2, <2>3
  <2>5. /\ pc' = [pc EXCEPT ![c] = "enter"] /\ UNCHANGED <<serviceVars, host>>
        /\ trip' = [trip EXCEPT ![c] = NewTrip(url, "none", TRUE, trip[c].header, trip[c].hops + 1)]
    BY <1>2 DEF Follow
  <2>6. trip' = [trip EXCEPT ![c] = x]
    BY <2>1, <2>4, <2>5, Zenon
  <2> QED
    BY <2>3, <2>5, <2>6, NewTripInv
<1>3. ASSUME Consume(c) PROVE Inv'
  <2>1. PICK x \in Trips : /\ x = NewTrip(Home, "none", FALSE, NoToken, 0)
                           /\ x.header = NoToken /\ x.sent = <<>> /\ x.open = {}
                           /\ x.since = retired[Dest] /\ x.since \in Nat
    BY <1>0, FreshTrip
  <2> QED
    BY <1>3, <2>1, NewTripInv DEF Consume
<1>4. trip' = trip => trip' = [trip EXCEPT ![c] = trip[c]]
  BY <1>t
<1>5. trip[c] \in Trips /\ "idle" \in PCs /\ "invalidate" \in PCs
  BY <1>t DEF PCs
<1>6. ASSUME Invalidate(c) PROVE Inv'
  <2>1. /\ ServiceOK' /\ Minting' /\ Growth /\ \A d \in Caller : d # c => calls'[d] = calls[d]
        /\ retired' = retired
    <3>1. Begin(c, "Invalidate", Dest, NoToken) /\ NoToken \in 0..MaxTokens
          /\ "Invalidate" \in ServiceOps
      BY <1>6, <1>0 DEF Invalidate, NoToken, ServiceOps
    <3> QED
      BY <3>1, <1>0, <1>t, BeginStep DEF Begin
  <2>2. /\ pc[c] = "idle" /\ pc' = [pc EXCEPT ![c] = "invalidate"] /\ host' = host /\ trip' = trip
    BY <1>6 DEF Invalidate
  <2>3. ASSUME pc'[c] = "invalidate", trip'[c] = trip[c] PROVE AtPlace(c)'
    BY <2>1, <2>2, <2>3 DEF Inv, AtPlace, NotSent
  <2> QED
    BY <2>1, <2>2, <2>3, <1>4, <1>5, GoesOn
<1>7. ASSUME Invalidated(c) PROVE Inv'
  <2>1. PICK answer \in Answers(calls[c]) : End(c, answer)
    BY <1>7 DEF Invalidated
  <2>2. ServiceOK' /\ Minting' /\ Growth /\ \A d \in Caller : d # c => calls'[d] = calls[d]
    BY <2>1, <1>t, EndStep
  <2>3. /\ pc[c] = "invalidate" /\ pc' = [pc EXCEPT ![c] = "idle"] /\ host' = host /\ trip' = trip
    BY <1>7 DEF Invalidated
  <2>4. ASSUME pc'[c] = "idle", trip'[c] = trip[c] PROVE AtPlace(c)'
    <3>1. trip[c].since <= retired[Dest] /\ retired[Dest] <= retired'[Dest]
      BY <2>2, <1>0 DEF Growth, Inv, AtPlace
    <3>2. trip[c].since \in Nat /\ retired[Dest] \in Nat /\ retired'[Dest] \in Nat
      BY <1>t, <1>0, <2>2 DEF ServiceOK, Trips
    <3>3. trip[c].since <= retired'[Dest]
      BY <3>1, <3>2
    <3> QED
      BY <3>3, <2>3, <2>4 DEF Inv, AtPlace, NotSent
  <2> QED
    BY <2>2, <2>3, <2>4, <1>4, <1>5, GoesOn
<1> QED
  BY <1>1, <1>2, <1>3, <1>6, <1>7 DEF ClientStep

-----------------------------------------------------------------------------
(* RoundTrip.                                                              *)

\* One more send: what was sent before stays, the request keeps its header.
LEMMA SentAgain ==
    ASSUME NEW r \in Trips, NEW tok \in 0..MaxTokens, NEW source
    PROVE  \E x : /\ x \in Trips /\ x = Sent(r, tok, source)
                  /\ x.url = r.url /\ x.redirect = r.redirect /\ x.header = r.header
                  /\ x.open = r.open /\ x.since = r.since
                  /\ r.sent = <<>> => /\ Len(x.sent) = 1
                                      /\ x.sent[1].url = r.url /\ x.sent[1].tok = tok
                  /\ Len(r.sent) = 1 => /\ Len(x.sent) = 2 /\ x.sent[1] = r.sent[1]
                                        /\ x.sent[2].url = r.url /\ x.sent[2].tok = tok
                                        /\ x.sent[2].whole <=> Whole(r, source)
<1> DEFINE m == [url |-> r.url, tok |-> tok, whole |-> Whole(r, source)]
           q == Append(r.sent, m)
<1>1. m \in Sends /\ m.url = r.url /\ m.tok = tok /\ m.whole = Whole(r, source)
  <2>1. Whole(r, source) \in BOOLEAN /\ r.url \in Url
    BY DEF Whole, Trips
  <2> QED
    BY <2>1 DEF Sends
<1>2. r.sent \in Seq(Sends)
  BY DEF Trips
<1>m. Sent(r, tok, source) = [r EXCEPT !.sent = q, !.header = r.header]
  BY DEF Sent, HeaderAfter
<1> HIDE DEF m
<1>3. /\ q \in Seq(Sends)
      /\ r.sent = <<>> => Len(q) = 1 /\ q[1] = m
      /\ Len(r.sent) = 1 => Len(q) = 2 /\ q[1] = r.sent[1] /\ q[2] = m
  <2>1. q \in Seq(Sends) /\ Len(q) = Len(r.sent) + 1
    BY <1>1, <1>2
  <2>2. r.sent = <<>> => q[1] = m
    BY <1>1, <1>2
  <2>3. Len(r.sent) = 1 => q[1] = r.sent[1] /\ q[2] = m
    BY <1>1, <1>2
  <2>4. r.sent = <<>> => Len(r.sent) = 0
    OBVIOUS
  <2> QED
    BY <2>1, <2>2, <2>3, <2>4
<1> HIDE DEF q
<1>5. PICK x \in Trips : /\ x = [r EXCEPT !.sent = q, !.header = r.header]
                         /\ x.sent = q /\ x.header = r.header /\ x.url = r.url
                         /\ x.redirect = r.redirect /\ x.open = r.open /\ x.since = r.since
  <2>1. [r EXCEPT !.sent = q, !.header = r.header] \in Trips
    BY <1>3 DEF Trips
  <2> QED
    BY <2>1 DEF Trips
<1>6. x = Sent(r, tok, source)
  BY <1>m, <1>5
<1> WITNESS x
<1> QED
  BY <1>1, <1>3, <1>5, <1>6

\* RoundTrip returns the response to send number i, or an error (0).
LEMMA LeaveInv ==
    ASSUME Inv, NEW c \in Caller, NEW r \in Trips, NEW i \in {0, 1, 2}, Leave(c, r, i),
           ServiceOK', Minting', Growth, host' = host,
           \A d \in Caller : d # c => calls'[d] = calls[d],
           r.url = trip[c].url, r.sent = trip[c].sent, r.redirect = trip[c].redirect,
           r.header = trip[c].header, r.since = trip[c].since,
           NotSent(c) \/ SentPlain(c) \/ SentOnce(c) \/ SentTwice(c),
           r.open = IF i = 0 THEN {} ELSE {i}
    PROVE  Inv'
<1>0. Dest \in Entry /\ MaxTokens \in Nat /\ "returned" \in PCs
  BY TransportAssumption DEF PCs
<1>1. PICK x \in Trips : /\ x = [r EXCEPT !.returned = i] /\ x.returned = i /\ x.url = r.url
                         /\ x.sent = r.sent /\ x.redirect = r.redirect /\ x.header = r.header
                         /\ x.since = r.since /\ x.open = r.open
  <2>1. [r EXCEPT !.returned = i] \in Trips
    BY DEF Trips
  <2> QED
    BY <2>1 DEF Trips
<1>2. pc' = [pc EXCEPT ![c] = "returned"] /\ trip' = [trip EXCEPT ![c] = x]
  BY <1>1 DEF Leave
<1>3. ASSUME pc'[c] = "returned", trip'[c] = x PROVE AtPlace(c)'
  <2>1. \A t \in 1..MaxTokens : owner[t] = Dest => owner'[t] = Dest
    BY DEF Growth
  <2>2. /\ Credential(c, 1) => Credential(c, 1)'
        /\ Credential(c, 2) => Credential(c, 2)'
    BY <2>1, <1>1, <1>3 DEF Credential
  <2>3. AtHome(c) => AtHome(c)'
    BY <1>1, <1>3 DEF AtHome, HostMatches
  <2>4. (NotSent(c) \/ SentPlain(c) \/ SentOnce(c) \/ SentTwice(c))'
    BY <2>2, <2>3, <1>1, <1>3 DEF SentOnce, SentTwice, SentPlain, NotSent
  <2>5. x.since <= retired'[Dest]
    <3>1. x.since <= retired[Dest] /\ retired[Dest] <= retired'[Dest]
      BY <1>0, <1>1 DEF Growth, Inv, AtPlace
    <3>2. x.since \in Nat /\ retired[Dest] \in Nat /\ retired'[Dest] \in Nat
      BY <1>0, <1>1 DEF Inv, TypeOK, ServiceOK, Trips
    <3> QED
      BY <3>1, <3>2
  <2>6. x.header = NoToken
    BY <1>1 DEF Inv, AtPlace
  <2> QED
    BY <2>4, <2>5, <2>6, <1>1, <1>3 DEF AtPlace
<1> QED
  BY <1>0, <1>2, <1>3, GoesOn

\* A response arrives and its body is open.
LEMMA ReceivedOpen ==
    ASSUME NEW r \in Trips, NEW status \in Status, Len(r.sent) \in {1, 2}, r.open = {}
    PROVE  \E x : /\ x \in Trips /\ x = Received(r, status) /\ x.open = {Len(r.sent)}
                  /\ x.url = r.url /\ x.sent = r.sent /\ x.redirect = r.redirect
                  /\ x.header = r.header /\ x.since = r.since /\ x.body = r.body
<1> DEFINE x == [r EXCEPT !.status = status, !.open = r.open \cup {Len(r.sent)}]
<1>1. x = Received(r, status)
  BY DEF Received
<1>2. x \in Trips /\ x.open = {Len(r.sent)}
  BY DEF Trips
<1>3. /\ x.url = r.url /\ x.sent = r.sent /\ x.redirect = r.redirect
      /\ x.header = r.header /\ x.since = r.since /\ x.body = r.body
  BY DEF Trips
<1> HIDE DEF x
<1> WITNESS x
<1> QED
  BY <1>1, <1>2, <1>3

\* RoundTrip up to the first send.
LEMMA EnterInv ==
    ASSUME Inv, NEW c \in Caller, PassRedirect(c) \/ RefuseHost(c) \/ AskToken(c)
    PROVE  Inv'
<1>0. MaxTokens \in Nat /\ Dest \in Entry /\ NoToken \in 0..MaxTokens /\ {"plain", "token"} \subseteq PCs
  BY TransportAssumption DEF NoToken, PCs
<1>t. /\ ServiceOK /\ Minting /\ trip \in [Caller -> Trips] /\ trip[c] \in Trips /\ AtPlace(c)
      /\ trip' = trip => trip' = [trip EXCEPT ![c] = trip[c]]
  BY Split DEF Inv
<1>1. /\ pc[c] = "enter" /\ trip[c].sent = <<>> /\ trip[c].open = {} /\ trip[c].header = NoToken
      /\ trip[c].since <= retired[Dest] /\ host' = host
  BY <1>t DEF AtPlace, PassRedirect, RefuseHost, AskToken, NotSent
<1>2. CASE PassRedirect(c)
  <2>1. ServiceOK' /\ Minting' /\ Growth /\ UNCHANGED <<calls, owner, retired>>
    BY <1>2, ServiceIdle DEF PassRedirect
  <2>2. PICK x : /\ x \in Trips /\ x = Sent(trip[c], NoToken, "given")
                 /\ x.url = trip[c].url /\ x.redirect = trip[c].redirect /\ x.header = trip[c].header
                 /\ x.open = trip[c].open /\ x.since = trip[c].since
                 /\ Len(x.sent) = 1 /\ x.sent[1].tok = NoToken
    BY <1>t, <1>0, <1>1, SentAgain
  <2>3. trip[c].redirect /\ pc' = [pc EXCEPT ![c] = "plain"] /\ trip' = [trip EXCEPT ![c] = x]
    BY <1>1, <1>2, <2>2 DEF PassRedirect
  <2>5. ASSUME pc'[c] = "plain", trip'[c] = x PROVE AtPlace(c)'
    BY <2>1, <2>2, <2>3, <2>5, <1>1 DEF AtPlace, SentPlain
  <2> QED
    BY <2>1, <2>2, <2>3, <2>5, <1>0, <1>1, GoesOn
<1>3. CASE RefuseHost(c)
  <2>1. ServiceOK' /\ Minting' /\ Growth /\ UNCHANGED calls
    BY <1>3, ServiceIdle DEF RefuseHost
  <2> QED
    BY <2>1, <1>1, <1>3, <1>t, LeaveInv DEF RefuseHost, NotSent
<1>4. CASE AskToken(c)
  <2>1. /\ ServiceOK' /\ Minting' /\ Growth /\ \A d \in Caller : d # c => calls'[d] = calls[d]
        /\ calls'[c] = [op |-> "Token", entry |-> Dest, sent |-> NoToken, since |-> retired[Dest]]
        /\ retired' = retired
    <3>1. Begin(c, "Token", Dest, NoToken) /\ "Token" \in ServiceOps
      BY <1>4 DEF AskToken, ServiceOps
    <3>2. retired' = retired
      BY <3>1 DEF Begin
    <3> QED
      BY <3>1, <3>2, <1>0, <1>t, BeginStep
  <2>2. /\ AtHome(c) /\ pc' = [pc EXCEPT ![c] = "token"] /\ trip' = trip
    BY <1>4 DEF AskToken, AtHome
  <2>3. ASSUME pc'[c] = "token", trip'[c] = trip[c] PROVE AtPlace(c)'
    <3>1. AtHome(c)'
      BY <2>2, <2>3, <1>1 DEF AtHome, HostMatches
    <3>2. Asked(c, "Token")'
      BY <2>1, <2>3, <1>1 DEF Asked
    <3> QED
      BY <3>1, <3>2, <2>1, <2>3, <1>1 DEF AtPlace, NotSent
  <2> QED
    BY <2>1, <2>2, <2>3, <1>0, <1>1, <1>t, GoesOn
<1> QED
  BY <1>2, <1>3, <1>4

\* Client.Token returns.
LEMMA SendFirstInv ==
    ASSUME Inv, NEW c \in Caller, SendFirst(c)
    PROVE  Inv'
<1>0. MaxTokens \in Nat /\ Dest \in Entry /\ "first" \in PCs
  BY TransportAssumption DEF PCs
<1>t. /\ ServiceOK /\ Minting /\ trip \in [Caller -> Trips] /\ trip[c] \in Trips /\ AtPlace(c)
  BY Split DEF Inv
<1>1. /\ pc[c] = "token" /\ trip[c].sent = <<>> /\ trip[c].open = {} /\ trip[c].header = NoToken
      /\ trip[c].since <= retired[Dest] /\ host' = host /\ AtHome(c) /\ Asked(c, "Token")
  BY <1>t DEF AtPlace, SendFirst, NotSent
<1>2. PICK answer \in Answers(calls[c]) :
          /\ End(c, answer)
          /\ IF answer = Failure THEN Leave(c, trip[c], 0)
             ELSE /\ pc' = [pc EXCEPT ![c] = "first"]
                  /\ trip' = [trip EXCEPT ![c] = Sent(trip[c], answer.tok, "given")]
  BY DEF SendFirst
<1>3. /\ ServiceOK' /\ Minting' /\ Growth /\ UNCHANGED <<owner, retired>>
      /\ \A d \in Caller : d # c => calls'[d] = calls[d]
  BY <1>1, <1>2, <1>t, EndStep DEF Asked
<1>4. CASE answer = Failure
  BY <1>1, <1>2, <1>3, <1>4, <1>t, LeaveInv DEF NotSent
<1>5. CASE answer # Failure
  <2>1. PICK t \in 1..MaxTokens : answer = TokenAnswer(t) /\ Fit(calls[c], t)
    BY <1>1, <1>2, <1>5 DEF Answers, Asked
  <2>2. /\ answer.tok = t /\ owner[t] = Dest /\ t > trip[c].since /\ t \in 0..MaxTokens
    <3>1. answer.tok = t /\ owner[t] = Dest /\ t > calls[c].since /\ calls[c].since >= trip[c].since
      BY <2>1, <1>1 DEF TokenAnswer, Fit, Asked
    <3>2. calls[c].since \in Nat /\ trip[c].since \in Nat
      BY <1>0, <1>t DEF ServiceOK, Trips
    <3> QED
      BY <3>1, <3>2, <1>0
  <2>3. PICK x : /\ x \in Trips /\ x = Sent(trip[c], t, "given")
                 /\ x.url = trip[c].url /\ x.redirect = trip[c].redirect /\ x.header = trip[c].header
                 /\ x.open = trip[c].open /\ x.since = trip[c].since
                 /\ Len(x.sent) = 1 /\ x.sent[1].url = trip[c].url /\ x.sent[1].tok = t
    BY <1>t, <1>1, <2>2, SentAgain
  <2>4. pc' = [pc EXCEPT ![c] = "first"] /\ trip' = [trip EXCEPT ![c] = x]
    BY <1>2, <1>5, <2>2, <2>3
  <2>6. ASSUME pc'[c] = "first", trip'[c] = x PROVE AtPlace(c)'
    <3>1. AtHome(c)'
      BY <2>3, <2>6, <1>1 DEF AtHome, HostMatches
    <3>2. Credential(c, 1)'
      BY <2>2, <2>3, <2>6, <1>3 DEF Credential
    <3> QED
      BY <3>1, <3>2, <2>3, <2>6, <1>1, <1>3 DEF AtPlace, SentOnce
  <2> QED
    BY <2>3, <2>4, <2>6, <1>0, <1>1, <1>3, GoesOn
<1> QED
  BY <1>4, <1>5

\* A request is out: its answer, or a failure of the base transport.
LEMMA AnswerInv ==
    ASSUME Inv, NEW c \in Caller,
           BaseFails(c) \/ \E status \in Status : ReturnResponse(c, status)
    PROVE  Inv'
<1>t. /\ ServiceOK /\ Minting /\ trip[c] \in Trips /\ AtPlace(c) /\ UNCHANGED <<serviceVars, host>>
      /\ pc[c] \in InFlight
  BY Split DEF Inv, TypeOK, BaseFails, ReturnResponse
<1>1. ServiceOK' /\ Minting' /\ Growth /\ UNCHANGED calls
  BY <1>t, ServiceIdle
<1>2. /\ trip[c].open = {}
      /\ SentPlain(c) \/ SentOnce(c) \/ SentTwice(c)
      /\ Len(trip[c].sent) \in {1, 2}
  BY <1>t DEF AtPlace, InFlight, SentPlain, SentOnce, SentTwice
<1>3. CASE BaseFails(c)
  BY <1>1, <1>2, <1>3, <1>t, LeaveInv DEF BaseFails
<1>4. ASSUME NEW status \in Status, ReturnResponse(c, status) PROVE Inv'
  <2>1. PICK x : /\ x \in Trips /\ x = Received(trip[c], status) /\ x.open = {Len(trip[c].sent)}
                 /\ x.url = trip[c].url /\ x.sent = trip[c].sent /\ x.redirect = trip[c].redirect
                 /\ x.header = trip[c].header /\ x.since = trip[c].since
    BY <1>2, <1>t, ReceivedOpen
  <2>2. PICK i \in {0, 1, 2} : i = Len(trip[c].sent) /\ i # 0
    BY <1>2
  <2>3. Leave(c, x, i) /\ x.open = IF i = 0 THEN {} ELSE {i}
    BY <1>4, <2>1, <2>2 DEF ReturnResponse
  <2> QED
    BY <1>1, <1>2, <1>t, <2>1, <2>3, LeaveInv
<1> QED
  BY <1>3, <1>4

\* A 401 that may be retried.
LEMMA AskRefreshInv ==
    ASSUME Inv, NEW c \in Caller, NEW status \in Status, AskRefresh(c, status)
    PROVE  Inv'
<1>0. MaxTokens \in Nat /\ Dest \in Entry /\ "refresh" \in PCs /\ "Refresh" \in ServiceOps
  BY TransportAssumption DEF PCs, ServiceOps
<1>t. ServiceOK /\ Minting /\ trip[c] \in Trips /\ AtPlace(c)
  BY Split DEF Inv, TypeOK
<1>1. /\ pc[c] = "first" /\ SentOnce(c) /\ trip[c].open = {} /\ trip[c].header = NoToken
      /\ trip[c].since <= retired[Dest] /\ host' = host /\ trip[c].body # "stream"
      /\ Begin(c, "Refresh", Dest, trip[c].sent[1].tok)
      /\ pc' = [pc EXCEPT ![c] = "refresh"]
      /\ trip' = [trip EXCEPT ![c] = Received(trip[c], status)]
  BY <1>t DEF AtPlace, AskRefresh, CanRetry
<1>2. Len(trip[c].sent) = 1 /\ trip[c].sent[1].tok \in 0..MaxTokens
  BY <1>0, <1>1 DEF SentOnce, Credential
<1>3. PICK x : /\ x \in Trips /\ x = Received(trip[c], status) /\ x.open = {Len(trip[c].sent)}
               /\ x.url = trip[c].url /\ x.sent = trip[c].sent /\ x.redirect = trip[c].redirect
               /\ x.header = trip[c].header /\ x.since = trip[c].since /\ x.body = trip[c].body
  BY <1>1, <1>2, <1>t, ReceivedOpen
<1>4. /\ ServiceOK' /\ Minting' /\ Growth /\ \A d \in Caller : d # c => calls'[d] = calls[d]
      /\ calls'[c] = [op |-> "Refresh", entry |-> Dest, sent |-> trip[c].sent[1].tok,
                      since |-> retired[Dest]]
  BY <1>0, <1>1, <1>2, <1>t, BeginStep
<1>5. UNCHANGED <<owner, retired>>
  BY <1>1 DEF Begin
<1>6. ASSUME pc'[c] = "refresh", trip'[c] = x PROVE AtPlace(c)'
  <2>1. SentOnce(c)'
    BY <1>1, <1>3, <1>5, <1>6 DEF SentOnce, AtHome, HostMatches, Credential
  <2>2. Asked(c, "Refresh")'
    BY <1>1, <1>3, <1>4, <1>6 DEF Asked
  <2>3. calls'[c].sent = trip'[c].sent[1].tok
    BY <1>3, <1>4, <1>6
  <2> QED
    BY <2>1, <2>2, <2>3, <1>1, <1>2, <1>3, <1>5, <1>6 DEF AtPlace
<1> QED
  BY <1>0, <1>1, <1>3, <1>4, <1>6, GoesOn

\* Client.Refresh returns.
LEMMA SendSecondInv ==
    ASSUME Inv, NEW c \in Caller, SendSecond(c)
    PROVE  Inv'
<1>0. MaxTokens \in Nat /\ Dest \in Entry /\ "second" \in PCs
  BY TransportAssumption DEF PCs
<1>t. ServiceOK /\ Minting /\ trip[c] \in Trips /\ AtPlace(c)
  BY Split DEF Inv, TypeOK
<1>1. /\ pc[c] = "refresh" /\ SentOnce(c) /\ trip[c].open = {1} /\ trip[c].header = NoToken
      /\ trip[c].since <= retired[Dest] /\ host' = host /\ trip[c].body # "stream"
      /\ Asked(c, "Refresh") /\ calls[c].sent = trip[c].sent[1].tok
  BY <1>t DEF AtPlace, SendSecond
<1>2. PICK answer \in Answers(calls[c]) :
          /\ End(c, answer)
          /\ \/ Leave(c, trip[c], 1)
             \/ /\ answer \notin {Failure, Nothing}
                /\ pc' = [pc EXCEPT ![c] = "second"]
                /\ trip' = [trip EXCEPT ![c] =
                       Sent(Discarded(trip[c]), answer.tok,
                            IF trip[c].body = "rewindable" THEN "copy" ELSE "given")]
  BY DEF SendSecond
<1>3. /\ ServiceOK' /\ Minting' /\ Growth /\ UNCHANGED <<owner, retired>>
      /\ \A d \in Caller : d # c => calls'[d] = calls[d]
  BY <1>1, <1>2, <1>t, EndStep DEF Asked
<1>4. CASE Leave(c, trip[c], 1)
  BY <1>1, <1>3, <1>4, <1>t, LeaveInv
<1>5. CASE ~Leave(c, trip[c], 1)
  <2>1. PICK t \in 1..MaxTokens : answer = TokenAnswer(t) /\ Fit(calls[c], t)
    BY <1>1, <1>2, <1>5 DEF Answers, Asked
  <2>2. /\ answer.tok = t /\ owner[t] = Dest /\ t > trip[c].since /\ t \in 0..MaxTokens
        /\ t > trip[c].sent[1].tok
    <3>1. /\ answer.tok = t /\ owner[t] = Dest /\ t > calls[c].since
          /\ calls[c].since >= trip[c].since /\ t > calls[c].sent
      BY <2>1, <1>1 DEF TokenAnswer, Fit, Asked
    <3>2. calls[c].since \in Nat /\ trip[c].since \in Nat
      BY <1>0, <1>t DEF ServiceOK, Trips
    <3> QED
      BY <3>1, <3>2, <1>0, <1>1
  <2>3. PICK source : source = IF trip[c].body = "rewindable" THEN "copy" ELSE "given"
    OBVIOUS
  <2>4. PICK r \in Trips : /\ r = Discarded(trip[c]) /\ r.open = {}
                           /\ r.url = trip[c].url /\ r.sent = trip[c].sent
                           /\ r.redirect = trip[c].redirect /\ r.header = trip[c].header
                           /\ r.since = trip[c].since /\ r.body = trip[c].body
    <3>1. Discarded(trip[c]) = [trip[c] EXCEPT !.open = {}]
      BY <1>1 DEF Discarded
    <3>2. [trip[c] EXCEPT !.open = {}] \in Trips
      BY <1>t DEF Trips
    <3> QED
      BY <1>t, <3>1, <3>2 DEF Trips
  <2>5. Whole(r, source)
    BY <1>1, <1>t, <2>3, <2>4 DEF Whole, Trips, Bodies
  <2>6. Len(r.sent) = 1
    BY <1>1, <2>4 DEF SentOnce
  <2>7. PICK x : /\ x \in Trips /\ x = Sent(r, t, source)
                 /\ x.url = r.url /\ x.redirect = r.redirect /\ x.header = r.header
                 /\ x.open = r.open /\ x.since = r.since
                 /\ Len(x.sent) = 2 /\ x.sent[1] = r.sent[1]
                 /\ x.sent[2].url = r.url /\ x.sent[2].tok = t /\ x.sent[2].whole
    BY <2>2, <2>5, <2>6, SentAgain
  <2>8. pc' = [pc EXCEPT ![c] = "second"] /\ trip' = [trip EXCEPT ![c] = x]
    BY <1>2, <1>5, <2>2, <2>3, <2>4, <2>7
  <2>9. ASSUME pc'[c] = "second", trip'[c] = x PROVE AtPlace(c)'
    <3>1. AtHome(c)'
      BY <2>4, <2>7, <2>9, <1>1 DEF SentOnce, AtHome, HostMatches
    <3>2. Credential(c, 1)'
      BY <2>4, <2>7, <2>9, <1>1, <1>3 DEF SentOnce, Credential
    <3>3. Credential(c, 2)'
      BY <2>2, <2>4, <2>7, <2>9, <1>3 DEF Credential
    <3>4. SentTwice(c)'
      BY <3>1, <3>2, <3>3, <2>2, <2>4, <2>7, <2>9 DEF SentTwice
    <3> QED
      BY <3>4, <2>4, <2>7, <2>9, <1>1, <1>3 DEF AtPlace
  <2> QED
    BY <2>7, <2>8, <2>9, <1>0, <1>1, <1>3, GoesOn
<1> QED
  BY <1>4, <1>5

-----------------------------------------------------------------------------

LEMMA NextInv == Inv /\ [Next]_vars => Inv'
<1> SUFFICES ASSUME Inv, [Next]_vars PROVE Inv'
  OBVIOUS
<1>1. ASSUME NEW c \in Caller, TripStep(c) PROVE Inv'
  BY <1>1, EnterInv, SendFirstInv, AnswerInv, AskRefreshInv, SendSecondInv DEF TripStep
<1>2. CASE MintStep \/ UNCHANGED vars
  <2>1. ServiceOK' /\ Minting' /\ Growth /\ UNCHANGED calls
    <3>1. ServiceOK /\ Minting
      BY Split DEF Inv
    <3>2. CASE MintStep
      BY <3>1, <3>2, MintIsGrowth DEF MintStep
    <3>3. CASE UNCHANGED vars
      BY <3>3, ServiceIdle DEF vars
    <3> QED
      BY <1>2, <3>2, <3>3
  <2>2. UNCHANGED <<host, pc, trip>>
    BY <1>2 DEF MintStep, vars, transportVars
  <2>3. TypeOK'
    BY <2>1, <2>2 DEF Inv, TypeOK, ServiceOK
  <2>4. ASSUME NEW d \in Caller PROVE AtPlace(d)'
    BY <2>1, <2>2, <2>3, <2>4, Elsewhere DEF Inv
  <2> QED
    BY <2>1, <2>3, <2>4 DEF Inv
<1> QED
  BY <1>1, <1>2, ClientInv DEF Next

LEMMA AlwaysInv == Spec => []Inv
BY InitInv, NextInv, PTL DEF Spec

\* No service token leaves on a redirect or to another host, although the
\* http.Client copies headers from request to request (RoundTrip, send).
THEOREM CredentialStaysHomeHolds == Spec => []CredentialStaysHome
<1>1. Inv => CredentialStaysHome
  <2> SUFFICES ASSUME Inv, NEW c \in Caller, NEW i \in DOMAIN trip[c].sent,
                      trip[c].sent[i].tok # NoToken
               PROVE  ~trip[c].redirect /\ HostMatches(trip[c].sent[i].url)
    BY DEF CredentialStaysHome
  <2>1. AtPlace(c) /\ pc[c] \in PCs /\ trip[c].sent \in Seq(Sends)
    BY DEF Inv, TypeOK, Trips
  <2>2. NotSent(c) \/ SentPlain(c) \/ SentOnce(c) \/ SentTwice(c)
    BY <2>1 DEF AtPlace, PCs
  <2>3. i \in 1..Len(trip[c].sent)
    BY <2>1
  <2>4. CASE NotSent(c)
    BY <2>3, <2>4 DEF NotSent
  <2>5. CASE SentPlain(c)
    BY <2>3, <2>5 DEF SentPlain
  <2>6. CASE SentOnce(c)
    BY <2>3, <2>6 DEF SentOnce, Credential, AtHome
  <2>7. CASE SentTwice(c)
    BY <2>3, <2>7 DEF SentTwice, Credential, AtHome
  <2> QED
    BY <2>2, <2>4, <2>5, <2>6, <2>7
<1> QED
  BY <1>1, AlwaysInv, PTL

\* A request is sent at most twice, with tokens of its audience that were not
\* invalidated before it began, the second time whole and with a newer token,
\* whatever other goroutines do with the client (RoundTrip).
THEOREM RetryIsProgressHolds == Spec => []RetryIsProgress
<1>1. Inv => RetryIsProgress
  <2> SUFFICES ASSUME Inv, NEW c \in Caller, ~trip[c].redirect
               PROVE  /\ Len(trip[c].sent) <= 2
                      /\ \A i \in DOMAIN trip[c].sent : /\ owner[trip[c].sent[i].tok] = Dest
                                                        /\ trip[c].sent[i].tok > trip[c].since
                      /\ Len(trip[c].sent) = 2 => /\ trip[c].sent[2].tok > trip[c].sent[1].tok
                                                  /\ trip[c].sent[2].whole
    BY DEF RetryIsProgress
  <2>1. AtPlace(c) /\ pc[c] \in PCs /\ trip[c].sent \in Seq(Sends)
    BY DEF Inv, TypeOK, Trips
  <2>2. NotSent(c) \/ SentPlain(c) \/ SentOnce(c) \/ SentTwice(c)
    BY <2>1 DEF AtPlace, PCs
  <2>3. DOMAIN trip[c].sent = 1..Len(trip[c].sent)
    BY <2>1
  <2>4. CASE NotSent(c)
    BY <2>3, <2>4 DEF NotSent
  <2>5. CASE SentOnce(c)
    BY <2>3, <2>5 DEF SentOnce, Credential
  <2>6. CASE SentTwice(c)
    BY <2>3, <2>6 DEF SentTwice, Credential
  <2> QED
    BY <2>2, <2>4, <2>5, <2>6 DEF SentPlain
<1> QED
  BY <1>1, AlwaysInv, PTL

\* Exactly the response RoundTrip returns is left open, on every path.
THEOREM ResponsesAccountedHolds == Spec => []ResponsesAccounted
<1>1. Inv => ResponsesAccounted
  BY DEF Inv, AtPlace, ResponsesAccounted
<1> QED
  BY <1>1, AlwaysInv, PTL

=============================================================================
