----------------------------- MODULE RowSecurity -----------------------------
(***************************************************************************)
(* Transactions under row-level security, infrastructure/postgres/rls.go,  *)
(* over the connection pool of postgres.go and its saturation monitor.     *)
(*                                                                         *)
(* Goroutines call WithRLSInTransaction with the context of the tenant     *)
(* they serve; they share the connections of one pool.  database/sql,      *)
(* lib/pq and PostgreSQL are outside the repository: a connection has a    *)
(* user, a transaction and the session settings that the policies read,    *)
(* and follows SET LOCAL, COMMIT and ROLLBACK as PostgreSQL documents      *)
(* them.  A failed statement spoils its transaction, a connection may be   *)
(* lost, and database/sql rolls a transaction back when its context ends.  *)
(***************************************************************************)
EXTENDS Naturals, FiniteSets

CONSTANTS
    Goroutine,           \* goroutines that run transactions
    Conn,                \* connections
    NoUser,              \* nobody uses a connection
    Value,               \* values of a setting that safeGUCValue matches
    Unset,               \* the empty string, as a field or as a setting
    Unsafe,              \* a value safeGUCValue does not match
    RLSContext,          \* the contexts transactions are asked for
    DefaultMaxOpenConns, \* DefaultMaxOpenConns
    MaxOpenConns,        \* the values of Config.MaxOpenConns
    MaxStmts,            \* bound: statements of one callback
    MaxWaits             \* bound: waits for a connection

ASSUME RowSecurityAssumption ==
    /\ NoUser \notin Goroutine
    /\ Unset \notin Value /\ Unsafe \notin Value \cup {Unset}
    /\ RLSContext \subseteq [{"tenant", "namespace", "role"} -> Value \cup {Unset, Unsafe}]
    /\ DefaultMaxOpenConns \in Nat \ {0} /\ MaxOpenConns \subseteq Nat
    /\ MaxStmts \in Nat /\ MaxWaits \in Nat /\ IsFiniteSet(Conn)

VARIABLES
    limit,    \* connections the pool may use; 0 before Connect
    conns,    \* the connections
    pc,       \* where each goroutine is
    call,     \* the transaction each goroutine runs, or ran last
    waits,    \* DBStats.WaitCount
    monitor   \* StartPoolMonitor: its previous sample and (history) the
              \* count when it started, when it last looked, and what it logged

poolVars == <<limit, waits, monitor>>
vars == <<limit, conns, pc, call, waits, monitor>>

\* The settings, in the order of SetRLSContextTx.
Settings == <<"tenant", "namespace", "role">>
NoSettings == [s \in {"tenant", "namespace", "role"} |-> Unset]
Last == 3

FreshConn == [user |-> NoUser, tx |-> "none", base |-> NoSettings, now |-> NoSettings]
NoTx == [rc |-> NoSettings, next |-> 1, ctxDone |-> FALSE, ran |-> 0, durable |-> 0,
         lost |-> FALSE, result |-> "none"]

Init ==
    /\ limit = 0
    /\ conns = [k \in Conn |-> FreshConn]
    /\ pc = [g \in Goroutine |-> "idle"]
    /\ call = [g \in Goroutine |-> NoTx]
    /\ waits = 0
    /\ monitor = [state |-> "off", prev |-> 0, first |-> 0, looked |-> 0, logged |-> 0]

-----------------------------------------------------------------------------
(* The pool and the server.                                                *)

Idle == {k \in Conn : conns[k].user = NoUser}
InUse == Cardinality(Conn \ Idle)
Held(g) == {k \in Conn : conns[k].user = g}
HasRoom == InUse < limit

WithDefaults(n) == IF n = 0 THEN DefaultMaxOpenConns ELSE n

\* Connect: the pool is there once Ping succeeds; otherwise it is closed.
Connect(n) ==
    /\ limit = 0
    /\ limit' = WithDefaults(n)
    /\ UNCHANGED <<conns, pc, call, waits, monitor>>

\* A setting made with SET outlives the transaction that commits it.
SettingsAfterSet(conn, committed) == IF committed THEN conn.now ELSE conn.base
\* A setting made with SET LOCAL ends with its transaction, however it ends.
SettingsAfter(conn, committed) == conn.base

\* The transaction ends and the connection goes back; a lost one is replaced.
Freed(conn, committed) ==
    LET s == SettingsAfter(conn, committed)
    IN  IF conn.tx = "lost" THEN FreshConn
        ELSE [FreshConn EXCEPT !.base = s, !.now = s]

\* The transaction of g ends, if it has not ended before.
Ended(g, committed) ==
    [k \in Conn |-> IF conns[k].user = g THEN Freed(conns[k], committed) ELSE conns[k]]

-----------------------------------------------------------------------------
(* WithRLSInTransaction.                                                   *)

\* BeginTx succeeds on connection k.
Take(g, k) ==
    /\ k \in Idle
    /\ conns' = [conns EXCEPT ![k].user = g, ![k].tx = "open"]
    /\ pc' = [pc EXCEPT ![g] = "check"]

\* A goroutine asks for a transaction: it gets a connection, waits for one,
\* or BeginTx fails.
Begin(g, rc) ==
    /\ limit # 0
    /\ pc[g] = "idle"
    /\ \/ /\ HasRoom
          /\ \E k \in Conn : Take(g, k)
          /\ call' = [call EXCEPT ![g] = [NoTx EXCEPT !.rc = rc]]
          /\ UNCHANGED waits
       \/ /\ ~HasRoom
          /\ waits < MaxWaits
          /\ waits' = waits + 1
          /\ pc' = [pc EXCEPT ![g] = "wait"]
          /\ call' = [call EXCEPT ![g] = [NoTx EXCEPT !.rc = rc]]
          /\ UNCHANGED conns
       \/ /\ HasRoom
          /\ call' = [call EXCEPT ![g] = [NoTx EXCEPT !.result = "error"]]
          /\ UNCHANGED <<conns, pc, waits>>
    /\ UNCHANGED <<limit, monitor>>

Granted(g) ==
    /\ pc[g] = "wait"
    /\ ~call[g].ctxDone
    /\ HasRoom
    /\ \E k \in Conn : Take(g, k)
    /\ UNCHANGED <<call, poolVars>>

\* WithRLSInTransaction will return an error, after its deferred rollback.
Fail(g) ==
    /\ pc' = [pc EXCEPT ![g] = "deferred"]
    /\ call' = [call EXCEPT ![g].result = "error"]

\* BeginTx: the context ends before there is a connection.
WaitEnds(g) ==
    /\ pc[g] = "wait"
    /\ call[g].ctxDone
    /\ pc' = [pc EXCEPT ![g] = "idle"]
    /\ call' = [call EXCEPT ![g] = [NoTx EXCEPT !.result = "error"]]
    /\ UNCHANGED <<conns, poolVars>>

Safe(rc) == \A s \in DOMAIN rc : rc[s] # Unsafe

\* SetRLSContextTx checks all three values before the first statement.
CheckFormat(g) ==
    /\ pc[g] = "check"
    /\ IF Safe(call[g].rc) THEN pc' = [pc EXCEPT ![g] = "set"] /\ UNCHANGED call ELSE Fail(g)
    /\ UNCHANGED <<conns, poolVars>>

\* A statement can run: the transaction is open and its context has not ended.
Runs(g, k) == k \in Held(g) /\ conns[k].tx = "open" /\ ~call[g].ctxDone

\* The setting is made or skipped: the next one, or the callback.
Proceed(g) ==
    /\ pc' = [pc EXCEPT ![g] = IF call[g].next = Last THEN "fn" ELSE "set"]
    /\ call' = [call EXCEPT ![g].next = call[g].next + 1]

\* An empty field makes no statement.
SkipSetting(g) ==
    /\ pc[g] = "set"
    /\ call[g].rc[Settings[call[g].next]] = Unset
    /\ Proceed(g)
    /\ UNCHANGED <<conns, poolVars>>

\* The next SET LOCAL.
SetLocal(g) ==
    LET s == Settings[call[g].next]
        v == call[g].rc[s]
    IN
    /\ pc[g] = "set"
    /\ v # Unset
    /\ \E k \in Conn : Runs(g, k) /\ conns' = [conns EXCEPT ![k].now = [conns[k].now EXCEPT ![s] = v]]
    /\ Proceed(g)
    /\ UNCHANGED poolVars

\* A statement fails: refused by the server, which spoils the transaction,
\* with the connection, or because the transaction is over.
Spoils(g) ==
    \/ \E k \in Held(g), tx \in {"failed", "lost"} :
           conns[k].tx = "open" /\ conns' = [conns EXCEPT ![k].tx = tx]
    \/ (\A k \in Conn : ~Runs(g, k)) /\ UNCHANGED conns

\* A SET LOCAL fails.
SetFails(g) ==
    /\ pc[g] = "set"
    /\ call[g].rc[Settings[call[g].next]] # Unset
    /\ Spoils(g)
    /\ Fail(g)
    /\ UNCHANGED poolVars

\* The callback runs a statement.
Statement(g) ==
    /\ pc[g] = "fn"
    /\ call[g].ran < MaxStmts
    /\ \E k \in Conn : Runs(g, k)
    /\ call' = [call EXCEPT ![g].ran = call[g].ran + 1]
    /\ UNCHANGED <<conns, pc, poolVars>>

\* A statement of the callback fails; the callback may go on all the same.
StatementFails(g) ==
    /\ pc[g] = "fn"
    /\ Spoils(g)
    /\ UNCHANGED <<pc, call, poolVars>>

\* The callback returns an error, or panics.
CallbackFails(g) ==
    /\ pc[g] = "fn"
    /\ Fail(g)
    /\ UNCHANGED <<conns, poolVars>>

\* The callback succeeded and Commit does too.
Commit(g) ==
    /\ pc[g] = "fn"
    /\ \E k \in Conn : Runs(g, k)
    /\ conns' = Ended(g, TRUE)
    /\ pc' = [pc EXCEPT ![g] = "deferred"]
    /\ call' = [call EXCEPT ![g].result = "ok", ![g].durable = call[g].ran]
    /\ UNCHANGED poolVars

\* Commit fails: the transaction is spoiled or over, or the connection goes
\* while the server decides, and nobody knows how.
CommitFails(g) ==
    /\ pc[g] = "fn"
    /\ pc' = [pc EXCEPT ![g] = "deferred"]
    /\ \/ /\ \A k \in Conn : ~Runs(g, k)
          /\ call' = [call EXCEPT ![g].result = "error"]
          /\ UNCHANGED conns
       \/ \E k \in Conn, n \in {0, call[g].ran} :
              /\ Runs(g, k)
              /\ conns' = [conns EXCEPT ![k].tx = "lost"]
              /\ call' = [call EXCEPT ![g].result = "error", ![g].durable = n, ![g].lost = TRUE]
    /\ UNCHANGED poolVars

\* What is left of a call that returned.
Outcome(t) ==
    [NoTx EXCEPT !.ran = t.ran, !.durable = t.durable, !.lost = t.lost, !.result = t.result]

\* WithRLSInTransaction without its deferred rollback.
ReturnOnly(g) ==
    /\ pc[g] = "deferred"
    /\ pc' = [pc EXCEPT ![g] = "idle"]
    /\ call' = [call EXCEPT ![g] = Outcome(call[g])]
    /\ UNCHANGED <<conns, poolVars>>

\* The deferred rollback, and the return.
Return(g) ==
    /\ pc[g] = "deferred"
    /\ conns' = Ended(g, FALSE)
    /\ pc' = [pc EXCEPT ![g] = "idle"]
    /\ call' = [call EXCEPT ![g] = Outcome(call[g])]
    /\ UNCHANGED poolVars

\* The context of the call ends.
CtxEnd(g) ==
    /\ pc[g] # "idle"
    /\ ~call[g].ctxDone
    /\ call' = [call EXCEPT ![g].ctxDone = TRUE]
    /\ UNCHANGED <<conns, pc, poolVars>>

\* database/sql rolls back the transaction whose context ended.
Watch(g) ==
    /\ call[g].ctxDone
    /\ Held(g) # {}
    /\ conns' = Ended(g, FALSE)
    /\ UNCHANGED <<pc, call, poolVars>>

-----------------------------------------------------------------------------
(* StartPoolMonitor.                                                       *)

MonitorStart ==
    /\ limit # 0
    /\ monitor.state = "off"
    /\ monitor' = [monitor EXCEPT !.state = "on", !.prev = waits, !.first = waits, !.looked = waits]
    /\ UNCHANGED <<limit, conns, pc, call, waits>>

\* saturated
Saturated(prev, cur) == cur - prev > 0 \/ InUse >= limit

\* The monitor compares with its first sample for ever.
NextPrevFixed(m) == m.prev
NextPrev(m) == waits

\* A tick: new waits are logged, and the sample becomes the previous one.
Sample ==
    /\ monitor.state = "on"
    /\ monitor' = [monitor EXCEPT
           !.prev = NextPrev(monitor), !.looked = waits,
           !.logged = IF Saturated(monitor.prev, waits)
                      THEN monitor.logged + (waits - monitor.prev) ELSE monitor.logged]
    /\ UNCHANGED <<limit, conns, pc, call, waits>>

MonitorStop ==
    /\ monitor.state = "on"
    /\ monitor' = [monitor EXCEPT !.state = "stopped"]
    /\ UNCHANGED <<limit, conns, pc, call, waits>>

-----------------------------------------------------------------------------

Step(g) ==
    \/ \E rc \in RLSContext : Begin(g, rc)
    \/ Granted(g) \/ WaitEnds(g) \/ CheckFormat(g) \/ SkipSetting(g) \/ SetLocal(g) \/ SetFails(g)
    \/ Statement(g) \/ StatementFails(g) \/ CallbackFails(g)
    \/ Commit(g) \/ CommitFails(g) \/ Return(g)
    \/ CtxEnd(g) \/ Watch(g)

Next ==
    \/ \E n \in MaxOpenConns : Connect(n)
    \/ \E g \in Goroutine : Step(g)
    \/ MonitorStart \/ Sample \/ MonitorStop

Spec == Init /\ [][Next]_vars

-----------------------------------------------------------------------------
(* Properties.                                                             *)

PCs == {"idle", "wait", "check", "set", "fn", "deferred"}
Contexts == [{"tenant", "namespace", "role"} -> Value \cup {Unset, Unsafe}]
Conns == [user: Goroutine \cup {NoUser}, tx: {"none", "open", "failed", "lost"},
          base: Contexts, now: Contexts]
Calls == [rc: Contexts, next: 1..4, ctxDone: BOOLEAN, ran: Nat, durable: Nat, lost: BOOLEAN,
          result: {"none", "ok", "error"}]

\* Every variable has its type.
TypeOK ==
    /\ limit \in Nat /\ waits \in Nat
    /\ conns \in [Conn -> Conns]
    /\ pc \in [Goroutine -> PCs]
    /\ call \in [Goroutine -> Calls]
    /\ monitor \in [state: {"off", "on", "stopped"}, prev: Nat, first: Nat, looked: Nat, logged: Nat]

\* While the callback can run statements, the policies see exactly the
\* context its caller gave, an empty field as unset: never the tenant or the
\* role of another transaction that used the connection before, nor a part of
\* the context (SetRLSContextTx, SET LOCAL).
ContextIsExact ==
    \A g \in Goroutine, k \in Conn :
        pc[g] = "fn" /\ Runs(g, k) => conns[k].now = call[g].rc

\* When WithRLSInTransaction has returned, its connection is back in the pool
\* outside any transaction, and what the callback did is durable if and only
\* if it returned nil, whatever failed, ended or panicked on the way and
\* whoever rolled back first; only a commit whose answer was lost may be
\* durable in spite of the error.
TransactionSettled ==
    /\ \A k \in Idle : conns[k].tx = "none"
    /\ \A g \in Goroutine :
           pc[g] = "idle" =>
               /\ Held(g) = {}
               /\ call[g].result = "ok" => call[g].durable = call[g].ran
               /\ call[g].result = "error" /\ ~call[g].lost => call[g].durable = 0

\* Every wait for a connection since the monitor started is in exactly one of
\* the lines it logged up to its last sample (StartPoolMonitor, saturated).
WaitsLoggedOnce == monitor.logged = monitor.looked - monitor.first

=============================================================================
