------------------------- MODULE RowSecurity_proofs -------------------------
(***************************************************************************)
(* What transactions under row-level security keep, for every number of    *)
(* goroutines, connections, contexts and statements, and for every limit   *)
(* of the pool.                                                            *)
(*                                                                         *)
(* The strengthening follows one connection and one call: a connection at  *)
(* rest carries no setting at all; a goroutine has at most one connection, *)
(* which carries the settings made so far (Progress) and nothing else; and *)
(* nothing is durable before a commit.                                     *)
(***************************************************************************)
EXTENDS RowSecurity, TLAPS

\* Nothing is left of a transaction, and only held connections have one.
AtRest ==
    \A k \in Conn :
        /\ conns[k].base = NoSettings
        /\ conns[k].user = NoUser => conns[k].tx = "none" /\ conns[k].now = NoSettings

\* A goroutine has at most one connection, and none before its transaction
\* began or after it returned.
OneConn(g) ==
    /\ \A k, l \in Conn : conns[k].user = g /\ conns[l].user = g => k = l
    /\ \A k \in Conn : conns[k].user = g => pc[g] \notin {"idle", "wait"}

\* The settings that are made before number n is.
MadeBefore(rc, n) ==
    [s \in {"tenant", "namespace", "role"} |->
        IF \E i \in 1..3 : i < n /\ Settings[i] = s THEN rc[s] ELSE Unset]

\* The connection of g carries the settings made so far.
Progress(g) ==
    /\ pc[g] \in {"wait", "check"} => call[g].next = 1
    /\ pc[g] = "set" => call[g].next \in 1..3
    /\ pc[g] = "fn" => call[g].next = 4
    /\ pc[g] \in {"check", "set", "fn"} =>
           \A k \in Conn : conns[k].user = g => conns[k].now = MadeBefore(call[g].rc, call[g].next)

\* What the callback did is durable only after a commit.
Durable(g) ==
    /\ pc[g] \in {"wait", "check", "set", "fn"} => call[g].durable = 0 /\ ~call[g].lost
    /\ call[g].result = "ok" /\ pc[g] \in {"idle", "deferred"} => call[g].durable = call[g].ran
    /\ call[g].result = "error" /\ ~call[g].lost => call[g].durable = 0

Good(g) == OneConn(g) /\ Progress(g) /\ Durable(g)

\* The monitor's samples are in order, and its last one is the one it logged.
Samples ==
    /\ monitor.first <= monitor.looked /\ monitor.looked <= waits
    /\ monitor.state = "on" => monitor.prev = monitor.looked
    /\ monitor.state = "off" => monitor.first = monitor.looked

Inv == TypeOK /\ AtRest /\ (\A g \in Goroutine : Good(g)) /\ Samples /\ WaitsLoggedOnce

-----------------------------------------------------------------------------
(* Settings.                                                               *)

LEMMA NoSettingsIsContext == NoSettings \in Contexts
BY DEF NoSettings, Contexts

\* Which settings are made before number n.
LEMMA MadeFields ==
    ASSUME NEW rc \in Contexts, NEW n \in 1..4
    PROVE  /\ MadeBefore(rc, n) \in Contexts
           /\ MadeBefore(rc, n)["tenant"] = IF n > 1 THEN rc["tenant"] ELSE Unset
           /\ MadeBefore(rc, n)["namespace"] = IF n > 2 THEN rc["namespace"] ELSE Unset
           /\ MadeBefore(rc, n)["role"] = IF n > 3 THEN rc["role"] ELSE Unset
<1>1. Settings[1] = "tenant" /\ Settings[2] = "namespace" /\ Settings[3] = "role"
  BY DEF Settings
<1>2. /\ (\E i \in 1..3 : i < n /\ Settings[i] = "tenant") <=> n > 1
      /\ (\E i \in 1..3 : i < n /\ Settings[i] = "namespace") <=> n > 2
      /\ (\E i \in 1..3 : i < n /\ Settings[i] = "role") <=> n > 3
  BY <1>1
<1> QED
  BY <1>2 DEF MadeBefore, Contexts

\* The first, the last, and each setting in between.
LEMMA MadeSteps ==
    ASSUME NEW rc \in Contexts
    PROVE  /\ MadeBefore(rc, 1) = NoSettings
           /\ MadeBefore(rc, 4) = rc
           /\ \A n \in 1..3 : /\ Settings[n] \in {"tenant", "namespace", "role"}
                              /\ rc[Settings[n]] = Unset => MadeBefore(rc, n + 1) = MadeBefore(rc, n)
                              /\ MadeBefore(rc, n + 1)
                                   = [MadeBefore(rc, n) EXCEPT ![Settings[n]] = rc[Settings[n]]]
<1>1. /\ MadeBefore(rc, 1) \in Contexts /\ MadeBefore(rc, 1)["tenant"] = Unset
      /\ MadeBefore(rc, 1)["namespace"] = Unset /\ MadeBefore(rc, 1)["role"] = Unset
  BY MadeFields
<1>2. /\ MadeBefore(rc, 2) \in Contexts /\ MadeBefore(rc, 2)["tenant"] = rc["tenant"]
      /\ MadeBefore(rc, 2)["namespace"] = Unset /\ MadeBefore(rc, 2)["role"] = Unset
  BY MadeFields
<1>3. /\ MadeBefore(rc, 3) \in Contexts /\ MadeBefore(rc, 3)["tenant"] = rc["tenant"]
      /\ MadeBefore(rc, 3)["namespace"] = rc["namespace"] /\ MadeBefore(rc, 3)["role"] = Unset
  BY MadeFields
<1>4. /\ MadeBefore(rc, 4) \in Contexts /\ MadeBefore(rc, 4)["tenant"] = rc["tenant"]
      /\ MadeBefore(rc, 4)["namespace"] = rc["namespace"] /\ MadeBefore(rc, 4)["role"] = rc["role"]
  BY MadeFields
<1>5. MadeBefore(rc, 1) = NoSettings /\ MadeBefore(rc, 4) = rc
  BY <1>1, <1>4 DEF NoSettings, Contexts
<1>6. Settings[1] = "tenant" /\ Settings[2] = "namespace" /\ Settings[3] = "role"
  BY DEF Settings
<1>7. /\ MadeBefore(rc, 2) = [MadeBefore(rc, 1) EXCEPT !["tenant"] = rc["tenant"]]
      /\ rc["tenant"] = Unset => MadeBefore(rc, 2) = MadeBefore(rc, 1)
  BY <1>1, <1>2 DEF Contexts
<1>8. /\ MadeBefore(rc, 3) = [MadeBefore(rc, 2) EXCEPT !["namespace"] = rc["namespace"]]
      /\ rc["namespace"] = Unset => MadeBefore(rc, 3) = MadeBefore(rc, 2)
  BY <1>2, <1>3 DEF Contexts
<1>9. /\ MadeBefore(rc, 4) = [MadeBefore(rc, 3) EXCEPT !["role"] = rc["role"]]
      /\ rc["role"] = Unset => MadeBefore(rc, 4) = MadeBefore(rc, 3)
  BY <1>3, <1>4 DEF Contexts
<1>10. ASSUME NEW n \in 1..3
       PROVE  /\ Settings[n] \in {"tenant", "namespace", "role"}
              /\ rc[Settings[n]] = Unset => MadeBefore(rc, n + 1) = MadeBefore(rc, n)
              /\ MadeBefore(rc, n + 1) = [MadeBefore(rc, n) EXCEPT ![Settings[n]] = rc[Settings[n]]]
  <2>1. CASE n = 1
    BY <1>6, <1>7, <2>1
  <2>2. CASE n = 2
    BY <1>6, <1>8, <2>2
  <2>3. CASE n = 3
    BY <1>6, <1>9, <2>3
  <2> QED
    BY <2>1, <2>2, <2>3
<1> QED
  BY <1>5, <1>10

-----------------------------------------------------------------------------
(* Steps of one goroutine.                                                 *)

LEMMA FreshTypes == FreshConn \in Conns /\ NoTx \in Calls
BY NoSettingsIsContext DEF FreshConn, NoTx, Conns, Calls

LEMMA InitInv == Init => Inv
<1> SUFFICES ASSUME Init PROVE Inv
  OBVIOUS
<1>1. TypeOK
  BY FreshTypes DEF Init, TypeOK, PCs
<1>2. AtRest
  BY DEF Init, AtRest, FreshConn
<1>3. ASSUME NEW g \in Goroutine PROVE Good(g)
  BY RowSecurityAssumption DEF Init, Good, OneConn, Progress, Durable, FreshConn, NoTx
<1>4. Samples /\ WaitsLoggedOnce
  BY DEF Init, Samples, WaitsLoggedOnce
<1> QED
  BY <1>1, <1>2, <1>3, <1>4 DEF Inv

\* Goroutine g goes to place p with call x; connections of others stay.
LEMMA GoesOn ==
    ASSUME Inv, NEW g \in Goroutine, NEW p \in PCs, NEW x \in Calls,
           pc' = [pc EXCEPT ![g] = p], call' = [call EXCEPT ![g] = x],
           UNCHANGED <<limit, monitor>>, waits' \in Nat, waits' >= waits,
           conns' \in [Conn -> Conns], AtRest',
           \A k \in Conn : \/ conns'[k] = conns[k]
                           \/ conns[k].user \in {g, NoUser} /\ conns'[k].user \in {g, NoUser},
           pc'[g] = p /\ call'[g] = x => Good(g)'
    PROVE  Inv'
<1>1. /\ limit \in Nat /\ waits \in Nat /\ conns \in [Conn -> Conns] /\ pc \in [Goroutine -> PCs]
      /\ call \in [Goroutine -> Calls]
      /\ monitor \in [state: {"off", "on", "stopped"}, prev: Nat, first: Nat, looked: Nat, logged: Nat]
  BY DEF Inv, TypeOK
<1>2. TypeOK'
  BY <1>1 DEF TypeOK
<1>3. pc'[g] = p /\ call'[g] = x
  BY <1>1
<1>4. ASSUME NEW h \in Goroutine, h # g PROVE Good(h)'
  <2>1. pc'[h] = pc[h] /\ call'[h] = call[h] /\ Good(h)
    BY <1>1, <1>4 DEF Inv
  <2>2. \A k \in Conn : conns'[k].user = h => conns'[k] = conns[k]
    BY <1>4, RowSecurityAssumption
  <2> QED
    BY <2>1, <2>2 DEF Good, OneConn, Progress, Durable
<1>5. Samples' /\ WaitsLoggedOnce'
  <2>1. monitor.looked <= waits /\ monitor.looked \in Nat
    BY <1>1 DEF Inv, Samples
  <2>2. monitor.looked <= waits'
    BY <2>1, <1>1
  <2> QED
    BY <2>2 DEF Inv, Samples, WaitsLoggedOnce
<1> QED
  BY <1>2, <1>3, <1>4, <1>5 DEF Inv

\* A transaction ends: its connection is as fresh as any.
LEMMA EndedIsFresh ==
    ASSUME Inv, NEW g \in Goroutine
    PROVE  /\ Ended(g, TRUE) = [k \in Conn |-> IF conns[k].user = g THEN FreshConn ELSE conns[k]]
           /\ Ended(g, FALSE) = [k \in Conn |-> IF conns[k].user = g THEN FreshConn ELSE conns[k]]
<1>1. \A k \in Conn : conns[k].base = NoSettings
  BY DEF Inv, AtRest
<1>2. \A k \in Conn : Freed(conns[k], TRUE) = FreshConn /\ Freed(conns[k], FALSE) = FreshConn
  BY <1>1 DEF Freed, SettingsAfter, FreshConn
<1> QED
  BY <1>2 DEF Ended

\* Connections after g gave its connection back.
LEMMA EndedConns ==
    ASSUME Inv, NEW g \in Goroutine, conns' = Ended(g, TRUE) \/ conns' = Ended(g, FALSE)
    PROVE  /\ conns' \in [Conn -> Conns] /\ AtRest'
           /\ \A k \in Conn : \/ conns'[k] = conns[k]
                              \/ conns[k].user \in {g, NoUser} /\ conns'[k].user \in {g, NoUser}
           /\ \A k \in Conn : conns'[k].user # g
<1>1. conns' = [k \in Conn |-> IF conns[k].user = g THEN FreshConn ELSE conns[k]]
  BY EndedIsFresh
<1>2. conns \in [Conn -> Conns] /\ AtRest
  BY DEF Inv, TypeOK
<1>3. FreshConn.user = NoUser /\ FreshConn.tx = "none" /\ FreshConn.base = NoSettings
      /\ FreshConn.now = NoSettings
  BY DEF FreshConn
<1>4. NoUser # g
  BY RowSecurityAssumption
<1> QED
  BY <1>1, <1>2, <1>3, <1>4, FreshTypes DEF AtRest

\* A step of g that leaves the connections alone.
LEMMA OnlyCall ==
    ASSUME Inv, NEW g \in Goroutine, NEW p \in PCs, NEW x \in Calls,
           pc' = [pc EXCEPT ![g] = p], call' = [call EXCEPT ![g] = x],
           UNCHANGED <<limit, monitor, conns>>, waits' \in Nat, waits' >= waits,
           p \in {"idle", "wait"} => pc[g] \in {"idle", "wait"},
           pc'[g] = p /\ call'[g] = x => Progress(g)' /\ Durable(g)'
    PROVE  Inv'
<1>1. conns' \in [Conn -> Conns] /\ AtRest'
  BY DEF Inv, TypeOK, AtRest
<1>2. pc'[g] = p => OneConn(g)'
  BY DEF Inv, Good, OneConn
<1> QED
  BY <1>1, <1>2, GoesOn DEF Good

\* What the type invariant says of g.
LEMMA Typed ==
    ASSUME Inv, NEW g \in Goroutine
    PROVE  /\ limit \in Nat /\ waits \in Nat /\ conns \in [Conn -> Conns]
           /\ pc \in [Goroutine -> PCs] /\ call \in [Goroutine -> Calls]
           /\ pc[g] \in PCs /\ call[g] \in Calls /\ Good(g) /\ waits >= waits
           /\ pc' = pc => pc' = [pc EXCEPT ![g] = pc[g]]
           /\ call' = call => call' = [call EXCEPT ![g] = call[g]]
BY DEF Inv, TypeOK

\* WithRLSInTransaction will return an error.
LEMMA FailInv ==
    ASSUME Inv, NEW g \in Goroutine, pc[g] \in {"check", "set", "fn"}, Fail(g),
           UNCHANGED poolVars, conns' \in [Conn -> Conns], AtRest',
           \A k \in Conn : conns'[k] = conns[k] \/ (conns[k].user = g /\ conns'[k].user = g)
    PROVE  Inv'
<1>t. call \in [Goroutine -> Calls] /\ call[g] \in Calls /\ Good(g) /\ waits \in Nat
  BY Typed
<1>1. PICK x \in Calls : /\ x = [call[g] EXCEPT !.result = "error"] /\ x.result = "error"
                         /\ x.durable = call[g].durable
  <2>1. [call[g] EXCEPT !.result = "error"] \in Calls
    BY <1>t DEF Calls
  <2> QED
    BY <2>1, <1>t DEF Calls
<1>2. pc' = [pc EXCEPT ![g] = "deferred"] /\ call' = [call EXCEPT ![g] = x]
  BY <1>1, <1>t DEF Fail
<1>3. \A k \in Conn : conns'[k].user = g <=> conns[k].user = g
  OBVIOUS
<1>4. ASSUME pc'[g] = "deferred", call'[g] = x PROVE Good(g)'
  <2>1. OneConn(g)'
    BY <1>3, <1>4, <1>t DEF Good, OneConn
  <2>2. Progress(g)'
    BY <1>4 DEF Progress
  <2>3. Durable(g)'
    BY <1>1, <1>4, <1>t DEF Good, Durable
  <2> QED
    BY <2>1, <2>2, <2>3 DEF Good
<1>5. "deferred" \in PCs /\ waits' >= waits /\ waits' \in Nat
  BY <1>t DEF PCs, poolVars
<1> QED
  BY <1>1, <1>2, <1>4, <1>5, GoesOn DEF poolVars

\* g takes an idle connection, which carries no settings.
LEMMA TakeInv ==
    ASSUME Inv, NEW g \in Goroutine, pc[g] \in {"idle", "wait"}, NEW k \in Conn, Take(g, k),
           NEW x \in Calls, call' = [call EXCEPT ![g] = x], x.next = 1,
           x.durable = 0, ~x.lost, UNCHANGED poolVars
    PROVE  Inv'
<1>t. /\ conns \in [Conn -> Conns] /\ AtRest /\ Good(g) /\ waits \in Nat /\ g # NoUser
      /\ "check" \in PCs
  BY Typed, RowSecurityAssumption DEF Inv, PCs
<1>1. /\ conns[k].user = NoUser /\ conns[k].now = NoSettings /\ conns[k].base = NoSettings
      /\ conns' = [conns EXCEPT ![k].user = g, ![k].tx = "open"] /\ pc' = [pc EXCEPT ![g] = "check"]
  BY <1>t DEF Take, Idle, AtRest
<1>2. /\ conns'[k].user = g /\ conns'[k].now = NoSettings /\ conns'[k].base = NoSettings
      /\ \A l \in Conn : l # k => conns'[l] = conns[l]
  BY <1>1, <1>t DEF Conns
<1>3. conns' \in [Conn -> Conns]
  <2>1. [conns[k] EXCEPT !.user = g, !.tx = "open"] \in Conns
    BY <1>t DEF Conns
  <2>2. conns' = [conns EXCEPT ![k] = [conns[k] EXCEPT !.user = g, !.tx = "open"]]
    BY <1>1, <1>t DEF Conns
  <2> QED
    BY <2>1, <2>2, <1>t
<1>4. AtRest'
  BY <1>2, <1>t DEF AtRest
<1>5. \A l \in Conn : conns'[l].user = g => l = k
  BY <1>2, <1>t DEF Good, OneConn
<1>6. MadeBefore(x.rc, 1) = NoSettings
  BY MadeSteps DEF Calls
<1>7. ASSUME pc'[g] = "check", call'[g] = x PROVE Good(g)'
  BY <1>2, <1>5, <1>6, <1>7 DEF Good, OneConn, Progress, Durable
<1>8. waits' \in Nat /\ waits' >= waits /\ UNCHANGED <<limit, monitor>>
  BY <1>t DEF poolVars
<1> QED
  BY <1>1, <1>2, <1>3, <1>4, <1>7, <1>8, <1>t, GoesOn

\* BeginTx, and the wait for a connection.
LEMMA BeginInv ==
    ASSUME Inv, NEW g \in Goroutine,
           (\E rc \in RLSContext : Begin(g, rc)) \/ Granted(g) \/ WaitEnds(g)
    PROVE  Inv'
<1>t. /\ call \in [Goroutine -> Calls] /\ pc \in [Goroutine -> PCs] /\ call[g] \in Calls /\ Good(g)
      /\ waits \in Nat /\ {"idle", "wait"} \subseteq PCs
  BY Typed DEF PCs
<1>1. ASSUME NEW rc \in RLSContext, Begin(g, rc) PROVE Inv'
  <2>1. rc \in Contexts
    BY RowSecurityAssumption DEF Contexts
  <2>2. PICK x \in Calls : /\ x = [NoTx EXCEPT !.rc = rc] /\ x.next = 1 /\ x.result = "none"
                           /\ x.durable = 0 /\ ~x.lost
    <3>1. [NoTx EXCEPT !.rc = rc] \in Calls
      BY <2>1, FreshTypes DEF Calls
    <3> QED
      BY <3>1 DEF NoTx
  <2>3. pc[g] = "idle" /\ UNCHANGED <<limit, monitor>>
    BY <1>1 DEF Begin
  <2>4. ASSUME NEW k \in Conn, Take(g, k), call' = [call EXCEPT ![g] = x], UNCHANGED waits PROVE Inv'
    BY <2>2, <2>3, <2>4, TakeInv DEF poolVars
  <2>5. ASSUME waits' = waits + 1, pc' = [pc EXCEPT ![g] = "wait"], call' = [call EXCEPT ![g] = x],
               UNCHANGED conns
        PROVE  Inv'
    <3>1. ASSUME pc'[g] = "wait", call'[g] = x PROVE Progress(g)' /\ Durable(g)'
      BY <2>2, <3>1 DEF Progress, Durable
    <3>2. waits' \in Nat /\ waits' >= waits
      BY <2>5, <1>t
    <3> QED
      BY <2>2, <2>3, <2>5, <3>1, <3>2, <1>t, OnlyCall
  <2>6. ASSUME call' = [call EXCEPT ![g] = [NoTx EXCEPT !.result = "error"]],
               UNCHANGED <<conns, pc, waits>>
        PROVE  Inv'
    <3>1. PICK y \in Calls : y = [NoTx EXCEPT !.result = "error"] /\ y.result = "error" /\ y.durable = 0
      <4>1. [NoTx EXCEPT !.result = "error"] \in Calls
        BY FreshTypes DEF Calls
      <4> QED
        BY <4>1 DEF NoTx
    <3>2. ASSUME pc'[g] = "idle", call'[g] = y PROVE Progress(g)' /\ Durable(g)'
      BY <3>1, <3>2 DEF Progress, Durable
    <3>3. pc' = [pc EXCEPT ![g] = "idle"] /\ call' = [call EXCEPT ![g] = y]
      BY <2>3, <2>6, <3>1, <1>t
    <3>4. waits' \in Nat /\ waits' >= waits /\ UNCHANGED <<limit, monitor, conns>>
      BY <2>3, <2>6, <1>t
    <3>5. "idle" \in PCs /\ pc[g] \in {"idle", "wait"}
      BY <2>3, <1>t
    <3> QED
      BY <3>1, <3>2, <3>3, <3>4, <3>5, OnlyCall
  <2> QED
    BY <1>1, <2>2, <2>4, <2>5, <2>6 DEF Begin
<1>2. CASE Granted(g)
  <2>1. /\ pc[g] = "wait" /\ UNCHANGED <<call, poolVars>>
        /\ \E k \in Conn : Take(g, k)
    BY <1>2 DEF Granted
  <2>2. /\ call[g].next = 1 /\ call[g].durable = 0 /\ ~call[g].lost /\ call' = [call EXCEPT ![g] = call[g]]
    BY <2>1, <1>t DEF Good, Progress, Durable
  <2> QED
    BY <2>1, <2>2, <1>t, TakeInv
<1>3. CASE WaitEnds(g)
  <2>1. PICK y \in Calls : y = [NoTx EXCEPT !.result = "error"] /\ y.result = "error" /\ y.durable = 0
    <3>1. [NoTx EXCEPT !.result = "error"] \in Calls
      BY FreshTypes DEF Calls
    <3> QED
      BY <3>1 DEF NoTx
  <2>2. ASSUME pc'[g] = "idle", call'[g] = y PROVE Progress(g)' /\ Durable(g)'
    BY <2>1, <2>2 DEF Progress, Durable
  <2>3. /\ pc[g] = "wait" /\ pc' = [pc EXCEPT ![g] = "idle"] /\ call' = [call EXCEPT ![g] = y]
        /\ UNCHANGED <<conns, limit, waits, monitor>> /\ waits' \in Nat /\ waits' >= waits
    BY <1>3, <2>1, <1>t DEF WaitEnds, poolVars
  <2> QED
    BY <2>1, <2>2, <2>3, <1>t, OnlyCall
<1> QED
  BY <1>1, <1>2, <1>3

\* A failed statement marks the transaction and changes no setting.
LEMMA SpoilsConns ==
    ASSUME Inv, NEW g \in Goroutine, Spoils(g)
    PROVE  /\ conns' \in [Conn -> Conns] /\ AtRest'
           /\ \A k \in Conn : /\ conns'[k].user = conns[k].user /\ conns'[k].now = conns[k].now
                              /\ conns'[k] = conns[k] \/ conns[k].user = g
<1>t. conns \in [Conn -> Conns] /\ AtRest /\ g # NoUser
  BY Typed, RowSecurityAssumption DEF Inv
<1>1. ASSUME NEW k \in Held(g), NEW tx \in {"failed", "lost"}, conns' = [conns EXCEPT ![k].tx = tx]
      PROVE  /\ conns' \in [Conn -> Conns] /\ AtRest'
             /\ \A l \in Conn : /\ conns'[l].user = conns[l].user /\ conns'[l].now = conns[l].now
                                /\ conns'[l] = conns[l] \/ conns[l].user = g
  <2>1. k \in Conn /\ conns[k].user = g
    BY DEF Held
  <2>2. PICK m \in Conns : /\ m = [conns[k] EXCEPT !.tx = tx] /\ m.user = g
                           /\ m.now = conns[k].now /\ m.base = conns[k].base
    <3>1. [conns[k] EXCEPT !.tx = tx] \in Conns
      BY <2>1, <1>t DEF Conns
    <3> QED
      BY <3>1, <2>1, <1>t DEF Conns
  <2>3. conns' = [conns EXCEPT ![k] = m]
    BY <1>1, <2>2
  <2>4. conns'[k] = m /\ \A l \in Conn : l # k => conns'[l] = conns[l]
    BY <2>1, <2>3, <1>t
  <2>5. conns' \in [Conn -> Conns]
    BY <2>3, <1>t
  <2>6. AtRest'
    BY <2>1, <2>2, <2>4, <1>t DEF AtRest
  <2> QED
    BY <2>1, <2>2, <2>4, <2>5, <2>6
<1>2. CASE UNCHANGED conns
  BY <1>2, <1>t DEF AtRest
<1> QED
  BY <1>1, <1>2 DEF Spoils

\* SetRLSContextTx, and the failures of the callback.
LEMMA SettingsInv ==
    ASSUME Inv, NEW g \in Goroutine,
           CheckFormat(g) \/ SkipSetting(g) \/ SetLocal(g) \/ SetFails(g) \/ CallbackFails(g)
    PROVE  Inv'
<1>t. /\ conns \in [Conn -> Conns] /\ AtRest /\ call \in [Goroutine -> Calls] /\ call[g] \in Calls
      /\ Good(g) /\ waits \in Nat /\ {"set", "fn"} \subseteq PCs /\ g # NoUser
  BY Typed, RowSecurityAssumption DEF Inv, PCs
<1>1. UNCHANGED poolVars
  BY DEF CheckFormat, SkipSetting, SetLocal, SetFails, CallbackFails
<1>2. waits' \in Nat /\ waits' >= waits /\ UNCHANGED <<limit, monitor>>
  BY <1>1, <1>t DEF poolVars
<1>3. ASSUME UNCHANGED conns, Fail(g), pc[g] \in {"check", "set", "fn"} PROVE Inv'
  BY <1>1, <1>3, <1>t, FailInv DEF AtRest
<1>4. CASE CheckFormat(g)
  <2>1. CASE Fail(g)
    BY <1>3, <1>4, <2>1 DEF CheckFormat
  <2>2. CASE ~Fail(g)
    <3>1. /\ pc[g] = "check" /\ pc' = [pc EXCEPT ![g] = "set"]
          /\ call' = [call EXCEPT ![g] = call[g]] /\ UNCHANGED conns
      BY <1>4, <2>2, <1>t DEF CheckFormat
    <3>2. ASSUME pc'[g] = "set", call'[g] = call[g] PROVE Progress(g)' /\ Durable(g)'
      BY <3>1, <3>2, <1>t DEF Good, Progress, Durable
    <3> QED
      BY <3>1, <3>2, <1>2, <1>t, OnlyCall
  <2> QED
    BY <2>1, <2>2
<1>5. ASSUME NEW n \in 1..3, pc[g] = "set", call[g].next = n, Proceed(g),
             conns' \in [Conn -> Conns], AtRest',
             \A k \in Conn : /\ conns'[k].user = conns[k].user
                             /\ conns'[k] = conns[k] \/ conns[k].user = g,
             \A k \in Conn : conns[k].user = g => conns'[k].now = MadeBefore(call[g].rc, n + 1)
      PROVE  Inv'
  <2>1. PICK x \in Calls : /\ x = [call[g] EXCEPT !.next = n + 1] /\ x.next = n + 1
                           /\ x.rc = call[g].rc /\ x.durable = call[g].durable
                           /\ x.lost = call[g].lost
    <3>1. n + 1 \in 1..4
      OBVIOUS
    <3>2. [call[g] EXCEPT !.next = n + 1] \in Calls
      BY <3>1, <1>t DEF Calls
    <3> QED
      BY <3>2, <1>t DEF Calls
  <2>2. PICK p \in PCs : p = IF n = Last THEN "fn" ELSE "set"
    BY <1>t
  <2>3. pc' = [pc EXCEPT ![g] = p] /\ call' = [call EXCEPT ![g] = x]
    BY <1>5, <2>1, <2>2 DEF Proceed
  <2>4. ASSUME pc'[g] = p, call'[g] = x PROVE Good(g)'
    <3>1. OneConn(g)'
      BY <1>5, <2>2, <2>4, <1>t DEF Good, OneConn
    <3>2. p = "fn" => x.next = 4
      BY <2>1, <2>2 DEF Last
    <3>3. p = "set" => x.next \in 1..3
      BY <2>1, <2>2 DEF Last
    <3>4. Progress(g)'
      BY <3>2, <3>3, <1>5, <2>1, <2>2, <2>4 DEF Progress
    <3>5. Durable(g)'
      BY <1>5, <2>1, <2>2, <2>4, <1>t DEF Good, Durable
    <3> QED
      BY <3>1, <3>4, <3>5 DEF Good
  <2>5. \A k \in Conn : \/ conns'[k] = conns[k]
                        \/ conns[k].user \in {g, NoUser} /\ conns'[k].user \in {g, NoUser}
    BY <1>5
  <2> QED
    BY <1>2, <1>5, <2>3, <2>4, <2>5, GoesOn
<1>6. ASSUME pc[g] = "set"
      PROVE  /\ call[g].next \in 1..3 /\ call[g].rc \in Contexts
             /\ \A k \in Conn : conns[k].user = g => conns[k].now = MadeBefore(call[g].rc, call[g].next)
  BY <1>6, <1>t DEF Good, Progress, Calls
<1>7. CASE SkipSetting(g)
  <2>1. /\ pc[g] = "set" /\ call[g].rc[Settings[call[g].next]] = Unset /\ Proceed(g) /\ UNCHANGED conns
    BY <1>7 DEF SkipSetting
  <2>2. PICK n \in 1..3 : n = call[g].next
    BY <2>1, <1>6
  <2>3. MadeBefore(call[g].rc, n + 1) = MadeBefore(call[g].rc, n)
    BY <2>1, <2>2, <1>6, MadeSteps
  <2>4. \A k \in Conn : conns[k].user = g => conns'[k].now = MadeBefore(call[g].rc, n + 1)
    BY <2>1, <2>2, <2>3, <1>6
  <2>5. conns' \in [Conn -> Conns] /\ AtRest'
    BY <2>1, <1>t DEF AtRest
  <2> QED
    BY <2>1, <2>2, <2>4, <2>5, <1>5
<1>8. CASE SetLocal(g)
  <2>1. PICK k \in Conn : /\ Runs(g, k)
                          /\ conns' = [conns EXCEPT ![k].now = [conns[k].now EXCEPT
                                ![Settings[call[g].next]] = call[g].rc[Settings[call[g].next]]]]
    BY <1>8 DEF SetLocal
  <2>2. pc[g] = "set" /\ Proceed(g) /\ conns[k].user = g
    BY <1>8, <2>1 DEF SetLocal, Runs, Held
  <2>3. PICK n \in 1..3 : n = call[g].next
    BY <2>2, <1>6
  <2>4. PICK v \in Contexts : v = MadeBefore(call[g].rc, n + 1)
    <3>1. n + 1 \in 1..4
      OBVIOUS
    <3> QED
      BY <3>1, <2>2, <1>6, MadeFields
  <2>5. v = [conns[k].now EXCEPT ![Settings[n]] = call[g].rc[Settings[n]]]
    BY <2>2, <2>3, <2>4, <1>6, MadeSteps
  <2>6. PICK m \in Conns : /\ m = [conns[k] EXCEPT !.now = v] /\ m.user = g /\ m.now = v
                           /\ m.base = conns[k].base
    <3>1. [conns[k] EXCEPT !.now = v] \in Conns
      BY <1>t DEF Conns
    <3> QED
      BY <3>1, <2>2, <1>t DEF Conns
  <2>7. conns' = [conns EXCEPT ![k] = m]
    BY <2>1, <2>3, <2>5, <2>6
  <2>8. conns'[k] = m /\ \A l \in Conn : l # k => conns'[l] = conns[l]
    BY <2>7, <1>t
  <2>9. conns' \in [Conn -> Conns]
    BY <2>7, <1>t
  <2>10. AtRest'
    BY <2>2, <2>6, <2>8, <1>t DEF AtRest
  <2>11. \A l \in Conn : /\ conns'[l].user = conns[l].user
                         /\ conns'[l] = conns[l] \/ conns[l].user = g
    BY <2>2, <2>6, <2>8
  <2>12. \A l \in Conn : conns[l].user = g => conns'[l].now = MadeBefore(call[g].rc, n + 1)
    <3>1. \A l \in Conn : conns[l].user = g => l = k
      BY <2>2, <1>t DEF Good, OneConn
    <3> QED
      BY <3>1, <2>4, <2>6, <2>8
  <2> QED
    BY <2>2, <2>3, <2>9, <2>10, <2>11, <2>12, <1>5
<1>9. CASE SetFails(g)
  <2>1. pc[g] = "set" /\ Spoils(g) /\ Fail(g)
    BY <1>9 DEF SetFails
  <2>2. conns' \in [Conn -> Conns] /\ AtRest'
    BY <2>1, SpoilsConns
  <2>3. \A k \in Conn : conns'[k] = conns[k] \/ (conns[k].user = g /\ conns'[k].user = g)
    BY <2>1, SpoilsConns
  <2> QED
    BY <1>1, <2>1, <2>2, <2>3, FailInv
<1>10. CASE CallbackFails(g)
  BY <1>3, <1>10 DEF CallbackFails
<1> QED
  BY <1>4, <1>7, <1>8, <1>9, <1>10

\* The callback, and the end of the transaction.
LEMMA CallbackInv ==
    ASSUME Inv, NEW g \in Goroutine,
           Statement(g) \/ StatementFails(g) \/ Commit(g) \/ CommitFails(g)
    PROVE  Inv'
<1>t. /\ conns \in [Conn -> Conns] /\ AtRest /\ call \in [Goroutine -> Calls] /\ call[g] \in Calls
      /\ Good(g) /\ waits \in Nat /\ {"fn", "deferred"} \subseteq PCs /\ pc \in [Goroutine -> PCs]
  BY Typed DEF Inv, PCs
<1>1. UNCHANGED poolVars /\ pc[g] = "fn"
  BY DEF Statement, StatementFails, Commit, CommitFails
<1>2. waits' \in Nat /\ waits' >= waits /\ UNCHANGED <<limit, monitor>>
  BY <1>1, <1>t DEF poolVars
<1>3. call[g].durable = 0 /\ ~call[g].lost /\ call[g].next = 4
  BY <1>1, <1>t DEF Good, Progress, Durable
<1>4. CASE Statement(g)
  <2>1. PICK x \in Calls : /\ x = [call[g] EXCEPT !.ran = call[g].ran + 1] /\ x.next = 4
                           /\ x.rc = call[g].rc /\ x.durable = 0 /\ ~x.lost
    <3>1. [call[g] EXCEPT !.ran = call[g].ran + 1] \in Calls
      BY <1>t DEF Calls
    <3> QED
      BY <3>1, <1>3, <1>t DEF Calls
  <2>2. call' = [call EXCEPT ![g] = x] /\ pc' = [pc EXCEPT ![g] = "fn"] /\ UNCHANGED conns
    BY <1>1, <1>4, <2>1, <1>t DEF Statement
  <2>3. ASSUME pc'[g] = "fn", call'[g] = x PROVE Progress(g)' /\ Durable(g)'
    BY <1>1, <1>3, <2>1, <2>2, <2>3, <1>t DEF Good, Progress, Durable
  <2> QED
    BY <1>2, <2>2, <2>3, <1>t, OnlyCall
<1>5. CASE StatementFails(g)
  <2>1. Spoils(g) /\ pc' = [pc EXCEPT ![g] = "fn"] /\ call' = [call EXCEPT ![g] = call[g]]
    BY <1>1, <1>5, <1>t DEF StatementFails
  <2>2. /\ conns' \in [Conn -> Conns] /\ AtRest'
        /\ \A k \in Conn : conns'[k].user = conns[k].user /\ conns'[k].now = conns[k].now
        /\ \A k \in Conn : \/ conns'[k] = conns[k]
                           \/ conns[k].user \in {g, NoUser} /\ conns'[k].user \in {g, NoUser}
    BY <2>1, SpoilsConns
  <2>3. ASSUME pc'[g] = "fn", call'[g] = call[g] PROVE Good(g)'
    BY <1>1, <2>2, <2>3, <1>t DEF Good, OneConn, Progress, Durable
  <2> QED
    BY <1>2, <2>1, <2>2, <2>3, <1>t, GoesOn
<1>6. CASE Commit(g)
  <2>1. PICK x \in Calls : /\ x = [call[g] EXCEPT !.result = "ok", !.durable = call[g].ran]
                           /\ x.result = "ok" /\ x.durable = x.ran
    <3>1. [call[g] EXCEPT !.result = "ok", !.durable = call[g].ran] \in Calls
      BY <1>t DEF Calls
    <3> QED
      BY <3>1, <1>t DEF Calls
  <2>2. /\ call' = [call EXCEPT ![g] = x] /\ pc' = [pc EXCEPT ![g] = "deferred"]
        /\ conns' = Ended(g, TRUE)
    BY <1>6, <2>1, <1>t DEF Commit
  <2>3. /\ conns' \in [Conn -> Conns] /\ AtRest' /\ \A k \in Conn : conns'[k].user # g
        /\ \A k \in Conn : \/ conns'[k] = conns[k]
                           \/ conns[k].user \in {g, NoUser} /\ conns'[k].user \in {g, NoUser}
    BY <2>2, EndedConns
  <2>4. ASSUME pc'[g] = "deferred", call'[g] = x PROVE Good(g)'
    BY <2>1, <2>3, <2>4 DEF Good, OneConn, Progress, Durable
  <2> QED
    BY <1>2, <2>2, <2>3, <2>4, <1>t, GoesOn
<1>7. ASSUME UNCHANGED conns, pc' = [pc EXCEPT ![g] = "deferred"],
             call' = [call EXCEPT ![g].result = "error"]
      PROVE  Inv'
  <2>1. Fail(g)
    BY <1>7 DEF Fail
  <2> QED
    BY <1>1, <1>7, <2>1, <1>t, FailInv DEF AtRest
<1>8. ASSUME NEW k \in Conn, NEW n \in {0, call[g].ran}, Runs(g, k),
             pc' = [pc EXCEPT ![g] = "deferred"], conns' = [conns EXCEPT ![k].tx = "lost"],
             call' = [call EXCEPT ![g].result = "error", ![g].durable = n, ![g].lost = TRUE]
      PROVE  Inv'
  <2>1. conns[k].user = g /\ conns[k].tx = "open" /\ k \in Held(g)
    BY <1>8 DEF Runs, Held
  <2>2. Spoils(g)
    BY <1>8, <2>1 DEF Spoils
  <2>3. /\ conns' \in [Conn -> Conns] /\ AtRest' /\ \A l \in Conn : conns'[l].user = conns[l].user
        /\ \A l \in Conn : \/ conns'[l] = conns[l]
                           \/ conns[l].user \in {g, NoUser} /\ conns'[l].user \in {g, NoUser}
    BY <2>2, SpoilsConns
  <2>4. PICK x \in Calls : /\ x = [call[g] EXCEPT !.result = "error", !.durable = n, !.lost = TRUE]
                           /\ x.result = "error" /\ x.lost
    <3>1. n \in Nat
      BY <1>t DEF Calls
    <3>2. [call[g] EXCEPT !.result = "error", !.durable = n, !.lost = TRUE] \in Calls
      BY <3>1, <1>t DEF Calls
    <3> QED
      BY <3>2, <1>t DEF Calls
  <2>5. call' = [call EXCEPT ![g] = x]
    BY <1>8, <2>4, <1>t
  <2>6. ASSUME pc'[g] = "deferred", call'[g] = x PROVE Good(g)'
    BY <2>3, <2>4, <2>6, <1>t DEF Good, OneConn, Progress, Durable
  <2> QED
    BY <1>2, <1>8, <2>3, <2>5, <2>6, <1>t, GoesOn
<1>9. CASE CommitFails(g)
  BY <1>7, <1>8, <1>9 DEF CommitFails
<1> QED
  BY <1>4, <1>5, <1>6, <1>9

\* The deferred rollback, and database/sql's own.
LEMMA RollbackInv ==
    ASSUME Inv, NEW g \in Goroutine, Return(g) \/ Watch(g) \/ CtxEnd(g)
    PROVE  Inv'
<1>t. /\ conns \in [Conn -> Conns] /\ call \in [Goroutine -> Calls] /\ call[g] \in Calls
      /\ Good(g) /\ waits \in Nat /\ "idle" \in PCs /\ pc \in [Goroutine -> PCs] /\ pc[g] \in PCs
  BY Typed DEF PCs
<1>1. waits' \in Nat /\ waits' >= waits /\ UNCHANGED <<limit, monitor>>
  <2>1. UNCHANGED poolVars
    BY DEF Return, Watch, CtxEnd
  <2> QED
    BY <2>1, <1>t DEF poolVars
<1>2. ASSUME conns' = Ended(g, FALSE)
      PROVE  /\ conns' \in [Conn -> Conns] /\ AtRest' /\ \A k \in Conn : conns'[k].user # g
             /\ \A k \in Conn : \/ conns'[k] = conns[k]
                                \/ conns[k].user \in {g, NoUser} /\ conns'[k].user \in {g, NoUser}
  BY <1>2, EndedConns
<1>3. CASE Return(g)
  <2>1. PICK x \in Calls : /\ x = Outcome(call[g]) /\ x.ran = call[g].ran /\ x.durable = call[g].durable
                           /\ x.lost = call[g].lost /\ x.result = call[g].result
    <3>1. Outcome(call[g]) \in Calls
      BY <1>t, FreshTypes DEF Outcome, Calls
    <3> QED
      BY <3>1 DEF Outcome, NoTx
  <2>2. /\ pc[g] = "deferred" /\ conns' = Ended(g, FALSE) /\ pc' = [pc EXCEPT ![g] = "idle"]
        /\ call' = [call EXCEPT ![g] = x]
    BY <1>3, <2>1 DEF Return
  <2>3. ASSUME pc'[g] = "idle", call'[g] = x PROVE Good(g)'
    BY <1>2, <2>1, <2>2, <2>3, <1>t DEF Good, OneConn, Progress, Durable
  <2> QED
    BY <1>1, <1>2, <2>2, <2>3, <1>t, GoesOn
<1>4. CASE Watch(g)
  <2>1. conns' = Ended(g, FALSE) /\ pc' = [pc EXCEPT ![g] = pc[g]] /\ call' = [call EXCEPT ![g] = call[g]]
    BY <1>4, <1>t DEF Watch
  <2>2. ASSUME pc'[g] = pc[g], call'[g] = call[g] PROVE Good(g)'
    BY <1>2, <2>1, <2>2, <1>t DEF Good, OneConn, Progress, Durable
  <2> QED
    BY <1>1, <1>2, <2>1, <2>2, <1>t, GoesOn
<1>5. CASE CtxEnd(g)
  <2>1. PICK x \in Calls : /\ x = [call[g] EXCEPT !.ctxDone = TRUE] /\ x.next = call[g].next
                           /\ x.rc = call[g].rc /\ x.ran = call[g].ran
                           /\ x.durable = call[g].durable /\ x.lost = call[g].lost
                           /\ x.result = call[g].result
    <3>1. [call[g] EXCEPT !.ctxDone = TRUE] \in Calls
      BY <1>t DEF Calls
    <3> QED
      BY <3>1, <1>t DEF Calls
  <2>2. /\ pc' = [pc EXCEPT ![g] = pc[g]] /\ call' = [call EXCEPT ![g] = x] /\ UNCHANGED conns
    BY <1>5, <2>1, <1>t DEF CtxEnd
  <2>3. ASSUME pc'[g] = pc[g], call'[g] = x PROVE Progress(g)' /\ Durable(g)'
    BY <2>1, <2>2, <2>3, <1>t DEF Good, Progress, Durable
  <2> QED
    BY <1>1, <2>2, <2>3, <1>t, OnlyCall
<1> QED
  BY <1>3, <1>4, <1>5

\* Connect and StartPoolMonitor.
LEMMA PoolInv ==
    ASSUME Inv, (\E n \in MaxOpenConns : Connect(n)) \/ MonitorStart \/ Sample \/ MonitorStop
    PROVE  Inv'
<1>t. /\ TypeOK /\ limit \in Nat /\ waits \in Nat
      /\ monitor \in [state: {"off", "on", "stopped"}, prev: Nat, first: Nat, looked: Nat, logged: Nat]
      /\ Samples /\ WaitsLoggedOnce
  BY DEF Inv, TypeOK
<1>1. UNCHANGED <<conns, pc, call, waits>>
  BY DEF Connect, MonitorStart, Sample, MonitorStop
<1>2. AtRest' /\ \A g \in Goroutine : Good(g)'
  BY <1>1 DEF Inv, AtRest, Good, OneConn, Progress, Durable
<1>3. ASSUME NEW n \in MaxOpenConns, Connect(n) PROVE Inv'
  <2>1. limit' \in Nat /\ monitor' = monitor
    BY <1>3, RowSecurityAssumption DEF Connect, WithDefaults
  <2>2. TypeOK' /\ Samples' /\ WaitsLoggedOnce'
    BY <1>1, <1>t, <2>1 DEF TypeOK, Samples, WaitsLoggedOnce
  <2> QED
    BY <1>2, <2>2 DEF Inv
<1>4. ASSUME UNCHANGED limit,
             monitor' \in [state: {"off", "on", "stopped"}, prev: Nat, first: Nat, looked: Nat,
                           logged: Nat],
             Samples', WaitsLoggedOnce'
      PROVE  Inv'
  BY <1>1, <1>2, <1>4, <1>t DEF Inv, TypeOK
<1>5. CASE MonitorStart
  <2>1. /\ monitor.state = "off"
        /\ monitor' = [monitor EXCEPT !.state = "on", !.prev = waits, !.first = waits, !.looked = waits]
        /\ UNCHANGED limit
    BY <1>5 DEF MonitorStart
  <2>2. monitor.first = monitor.looked /\ monitor.logged = 0
    BY <2>1, <1>t DEF Samples, WaitsLoggedOnce
  <2>3. /\ monitor'.state = "on" /\ monitor'.prev = waits /\ monitor'.first = waits
        /\ monitor'.looked = waits /\ monitor'.logged = 0
    BY <2>1, <2>2, <1>t
  <2>4. monitor' \in [state: {"off", "on", "stopped"}, prev: Nat, first: Nat, looked: Nat, logged: Nat]
    BY <2>1, <1>t
  <2>5. Samples' /\ WaitsLoggedOnce'
    BY <2>3, <1>1, <1>t DEF Samples, WaitsLoggedOnce
  <2> QED
    BY <1>4, <2>1, <2>4, <2>5
<1>6. CASE Sample
  <2>1. /\ monitor.state = "on" /\ UNCHANGED limit
        /\ monitor' = [monitor EXCEPT
               !.prev = waits, !.looked = waits,
               !.logged = IF Saturated(monitor.prev, waits)
                          THEN monitor.logged + (waits - monitor.prev) ELSE monitor.logged]
    BY <1>6 DEF Sample, NextPrev
  <2>2. monitor.prev = monitor.looked /\ monitor.looked <= waits /\ monitor.first <= monitor.looked
    BY <2>1, <1>t DEF Samples
  <2>3. PICK d \in Nat : d = IF Saturated(monitor.prev, waits)
                             THEN monitor.logged + (waits - monitor.prev) ELSE monitor.logged
    BY <2>2, <1>t
  <2>4. d = waits - monitor.first
    <3>1. ~Saturated(monitor.prev, waits) => waits = monitor.prev
      BY <2>2, <1>t DEF Saturated
    <3> QED
      BY <3>1, <2>2, <2>3, <1>t DEF WaitsLoggedOnce
  <2>5. monitor' = [monitor EXCEPT !.prev = waits, !.looked = waits, !.logged = d]
    BY <2>1, <2>3
  <2>6. monitor' \in [state: {"off", "on", "stopped"}, prev: Nat, first: Nat, looked: Nat, logged: Nat]
    BY <2>5, <1>t
  <2>7. Samples' /\ WaitsLoggedOnce'
    <3>1. /\ monitor'.state = "on" /\ monitor'.prev = waits /\ monitor'.first = monitor.first
          /\ monitor'.looked = waits /\ monitor'.logged = d
      BY <2>1, <2>5, <1>t
    <3>2. monitor.first <= waits /\ waits <= waits
      BY <2>2, <1>t
    <3> QED
      BY <3>1, <3>2, <2>4, <1>1 DEF Samples, WaitsLoggedOnce
  <2> QED
    BY <1>4, <2>1, <2>6, <2>7
<1>7. CASE MonitorStop
  <2>1. monitor.state = "on" /\ monitor' = [monitor EXCEPT !.state = "stopped"] /\ UNCHANGED limit
    BY <1>7 DEF MonitorStop
  <2> QED
    BY <1>1, <1>4, <2>1, <1>t DEF Samples, WaitsLoggedOnce
<1> QED
  BY <1>3, <1>5, <1>6, <1>7

-----------------------------------------------------------------------------

LEMMA NextInv == Inv /\ [Next]_vars => Inv'
<1> SUFFICES ASSUME Inv, [Next]_vars PROVE Inv'
  OBVIOUS
<1>1. ASSUME NEW g \in Goroutine, Step(g) PROVE Inv'
  BY <1>1, BeginInv, SettingsInv, CallbackInv, RollbackInv DEF Step
<1>2. CASE UNCHANGED vars
  BY <1>2 DEF vars, Inv, TypeOK, AtRest, Good, OneConn, Progress, Durable, Samples, WaitsLoggedOnce
<1> QED
  BY <1>1, <1>2, PoolInv DEF Next

LEMMA AlwaysInv == Spec => []Inv
BY InitInv, NextInv, PTL DEF Spec

\* The policies see exactly the context the caller gave, never what another
\* transaction left on the connection nor a part of it (SetRLSContextTx).
THEOREM ContextIsExactHolds == Spec => []ContextIsExact
<1>1. Inv => ContextIsExact
  <2> SUFFICES ASSUME Inv, NEW g \in Goroutine, NEW k \in Conn, pc[g] = "fn", Runs(g, k)
               PROVE  conns[k].now = call[g].rc
    BY DEF ContextIsExact
  <2>1. Good(g) /\ call[g].rc \in Contexts /\ conns[k].user = g
    BY DEF Inv, TypeOK, Calls, Runs, Held
  <2>2. conns[k].now = MadeBefore(call[g].rc, 4)
    BY <2>1 DEF Good, Progress
  <2> QED
    BY <2>1, <2>2, MadeSteps
<1> QED
  BY <1>1, AlwaysInv, PTL

\* A returned transaction left its connection at rest, and what its callback
\* did is durable if and only if it returned nil, unless the answer to its
\* commit was lost (WithRLSInTransaction).
THEOREM TransactionSettledHolds == Spec => []TransactionSettled
<1>1. Inv => TransactionSettled
  BY DEF Inv, TransactionSettled, AtRest, Good, OneConn, Durable, Idle, Held
<1> QED
  BY <1>1, AlwaysInv, PTL

\* The monitor logs every wait since it started exactly once (saturated).
THEOREM WaitsLoggedOnceHolds == Spec => []WaitsLoggedOnce
<1>1. Inv => WaitsLoggedOnce
  BY DEF Inv
<1> QED
  BY <1>1, AlwaysInv, PTL

=============================================================================
