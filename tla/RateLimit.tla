------------------------------ MODULE RateLimit ------------------------------
(***************************************************************************)
(* Requests of one tenant to one feature through the RateLimit middleware  *)
(* (infrastructure/middleware/rate_limit.go) and the Redis limiter with    *)
(* its two Lua scripts (infrastructure/ratelimit/limiter.go).              *)
(*                                                                         *)
(* A request reads the rule, then the clock of its process, and its script *)
(* runs in Redis some time later: scripts are atomic, but they need not    *)
(* run in the order of the clocks they carry.  The clock ticks in          *)
(* milliseconds, and Redis and the processes agree on it; the durations of *)
(* a rule are nanoseconds.  The rule of the cell may change while requests *)
(* are under way: the limits provider reloads it.                          *)
(***************************************************************************)
EXTENDS Integers, FiniteSetsExt

CONSTANTS
    Request,   \* the requests
    Rules,     \* the rules the provider may have for the cell
    NoRule,    \* the cell has no limit
    Modes,     \* FailClosed and ObserveOnly of the middleware
    Nano,      \* sub-millisecond parts of the clock
    MaxTime,   \* bound: the clock stops here
    MaxChanges \* bound: how often the rule changes

Algorithms == {"sliding_window_counter", "gcra"}
Rule == [algorithm: Algorithms, limit: Nat \ {0}, window: Nat \ {0}, burst: Nat]
Mode == [failClosed: BOOLEAN, observeOnly: BOOLEAN]

ASSUME LimitAssumption ==
    /\ IsFiniteSet(Request)
    /\ Rules \subseteq Rule
    /\ NoRule \notin Rules
    /\ Modes \subseteq Mode
    /\ MaxTime \in Nat \ {0} /\ MaxChanges \in Nat

VARIABLES
    now,      \* the time
    mode,     \* configuration of the middleware
    rule,     \* the rule the provider returns
    kind,     \* type of the key in Redis: "none", "zset", "string"
    log,      \* the sorted set: members <<score, nano>>
    tat,      \* the string: the theoretical arrival time
    expireAt, \* when Redis drops the key
    req,      \* each request: its state or answer, the rule and the clock it read
    changes,  \* how often the rule changed
    latest,   \* history: the latest clock a script ran with
    goneAt,   \* history: when Redis last dropped the key
    jumbled,  \* history: what disturbed the order of the scripts
    cut       \* history: rules whose log a rule with a shorter window pruned

redis == <<kind, log, tat, expireAt>>
history == <<latest, goneAt, jumbled, cut>>
vars == <<now, mode, rule, redis, req, changes, history>>

Fresh == [state |-> "fresh", rule |-> NoRule, clock |-> 0]
Time == 1..MaxTime

Init ==
    /\ now = 1
    /\ mode \in Modes
    /\ rule \in Rules \cup {NoRule}
    /\ kind = "none" /\ log = {} /\ tat = 0 /\ expireAt = 0
    /\ req = [r \in Request |-> Fresh]
    /\ changes = 0
    /\ latest = 0 /\ goneAt = 0 /\ jumbled = {} /\ cut = {}

-----------------------------------------------------------------------------
(* The rule and the scripts, as functions of what Redis holds.             *)

\* Duration.Milliseconds truncates.
Milliseconds(d) == d \div 1000000

\* emissionInterval.
EmissionInterval(u) == u.window \div u.limit
\* The arguments of the scripts.
Window(u) == Milliseconds(u.window)
Emission(u) == Milliseconds(EmissionInterval(u))
Tolerance(u) == Milliseconds(u.burst * EmissionInterval(u))

\* ZREMRANGEBYSCORE leaving the entry that is exactly one window old.
PrunedShort(l, u, t) == {m \in l : m[1] >= t - Window(u)}
\* slidingWindowScript: ZREMRANGEBYSCORE key 0 (now - window).
Pruned(l, u, t) == {m \in l : m[1] > t - Window(u)}

\* slidingWindowScript: room for one more.
SlidingAllows(l, u, t) == Cardinality(Pruned(l, u, t)) < u.limit

\* slidingWindowScript: how long until the oldest entry leaves the window.
SlidingRetry(l, u, t) ==
    LET oldest == Min({m[1] : m \in Pruned(l, u, t)})
    IN  Max({0, oldest + Window(u) - t})

\* gcraScript: GET, or now when there is no key.
Tat(k, s, t) == IF k = "none" THEN t ELSE s
\* gcraScript: not before allow_at.
GcraAllows(k, s, u, t) == t >= Tat(k, s, t) - Tolerance(u)
\* gcraScript: the wait until allow_at.
GcraRetry(k, s, u, t) == Tat(k, s, t) - Tolerance(u) - t

\* gcraScript starting from the clock of the request even behind the TAT.
NewTatFromClock(k, s, u, t) == t + Emission(u)
\* gcraScript: the TAT after an arrival.
NewTat(k, s, u, t) == Max({Tat(k, s, t), t}) + Emission(u)

\* gcraScript keeping the key for one tolerance more on every arrival.
GcraTtlCumulative(k, s, u, t) == NewTat(k, s, u, t) + Tolerance(u)
\* gcraScript: how long the key lives.
GcraTtl(k, s, u, t) == NewTat(k, s, u, t) - t + Tolerance(u)

-----------------------------------------------------------------------------
(* A request.                                                              *)

\* The rule and the clock of whoever got through stay on record.
Answer(r, how) ==
    req' = [req EXCEPT ![r] = [IF how = "passed" THEN @ ELSE Fresh EXCEPT !.state = how]]

\* RateLimit, !Allowed: observe-only measures and lets through.
Exceeded(r) ==
    \/ mode.observeOnly /\ Answer(r, "passed")
    \/ ~mode.observeOnly /\ Answer(r, "429")

\* RateLimit, err # nil.
Failed(r) ==
    \/ mode.failClosed /\ Answer(r, "503")
    \/ ~mode.failClosed /\ Answer(r, "passed")

\* RateLimit: the verdict of the script, or an error when Redis ran it and the
\* answer was lost.
Admitted(r) == Answer(r, "passed") \/ Failed(r)
Refused(r) == Exceeded(r) \/ Failed(r)

\* RateLimit: no limit configured for the cell.
Unlimited(r) ==
    /\ req[r].state = "fresh"
    /\ rule = NoRule
    /\ Answer(r, "passed")
    /\ UNCHANGED <<now, mode, rule, redis, changes, history>>

\* RateLimit, Allow: the rule is read, then the clock, then the script is sent.
Send(r) ==
    /\ req[r].state = "fresh"
    /\ rule # NoRule
    /\ req' = [req EXCEPT ![r] = [state |-> "sent", rule |-> rule, clock |-> now]]
    /\ UNCHANGED <<now, mode, rule, redis, changes, history>>

\* What the history notes when the script of a request runs.
Ran(r, collided) ==
    LET t == req[r].clock IN
    /\ latest' = Max({t, latest})
    /\ jumbled' = jumbled \cup (IF t < latest THEN {"overtaken"} ELSE {})
                          \cup (IF t < goneAt THEN {"outlived"} ELSE {})
                          \cup (IF collided THEN {"collided"} ELSE {})
    /\ cut' = cut \cup {u \in Rules : /\ req[r].rule.algorithm = "sliding_window_counter"
                                     /\ Window(u) > Window(req[r].rule)
                                     /\ \E q \in Request : req[q].state = "passed" /\ req[q].rule = u}
    /\ UNCHANGED goneAt

\* PEXPIRE left out when the key already has a time to live.
SlidingExpiryKept(u) == IF kind = "zset" THEN expireAt ELSE now + Window(u)
\* slidingWindowScript: PEXPIRE starts over.
SlidingExpiry(u) == now + Window(u)

\* slidingWindowScript: ZADD replaces an equal member; PEXPIRE 0 deletes the key.
Sliding(r, nano) ==
    LET u == req[r].rule
        t == req[r].clock
        l == Pruned(log, u, t)
    IN
    /\ req[r].state = "sent" /\ u.algorithm = "sliding_window_counter"
    /\ kind # "string"
    /\ \/ /\ SlidingAllows(log, u, t)
          /\ Window(u) > 0
          /\ kind' = "zset"
          /\ log' = l \cup {<<t, nano>>}
          /\ expireAt' = SlidingExpiry(u)
          /\ Admitted(r)
          /\ Ran(r, <<t, nano>> \in l)
       \/ /\ SlidingAllows(log, u, t)
          /\ Window(u) = 0
          /\ kind' = "none" /\ log' = {} /\ expireAt' = 0
          /\ Admitted(r)
          /\ Ran(r, FALSE)
       \/ /\ ~SlidingAllows(log, u, t)
          /\ log' = l
          /\ Refused(r)
          /\ Ran(r, FALSE)
          /\ UNCHANGED <<kind, expireAt>>
    /\ UNCHANGED <<now, mode, rule, tat, changes>>

\* gcraScript: SET with a time to live; Redis refuses one that is not positive.
Gcra(r) ==
    LET u == req[r].rule
        t == req[r].clock
    IN
    /\ req[r].state = "sent" /\ u.algorithm = "gcra"
    /\ kind # "zset"
    /\ \/ /\ GcraAllows(kind, tat, u, t)
          /\ GcraTtl(kind, tat, u, t) > 0
          /\ kind' = "string"
          /\ tat' = NewTat(kind, tat, u, t)
          /\ expireAt' = now + GcraTtl(kind, tat, u, t)
          /\ Admitted(r)
       \/ /\ ~GcraAllows(kind, tat, u, t)
          /\ Refused(r)
          /\ UNCHANGED <<kind, tat, expireAt>>
    /\ Ran(r, FALSE)
    /\ UNCHANGED <<now, mode, rule, log, changes>>

\* Redis answers the script with an error: the key has the other algorithm's
\* type, or a GCRA rule of more than one request per millisecond and no burst
\* to speak of gives the key no time to live.
ScriptFails(u, t) ==
    \/ u.algorithm = "sliding_window_counter" /\ kind = "string"
    \/ /\ u.algorithm = "gcra"
       /\ \/ kind = "zset"
          \/ GcraAllows(kind, tat, u, t) /\ GcraTtl(kind, tat, u, t) <= 0

\* Redis is down and the script does not run, or it fails.  `down' stands for
\* any error before a script runs: also for that of Allow for an algorithm it
\* does not know, which ParseRule never lets into a rule.
BackendError(r, down) ==
    /\ req[r].state = "sent"
    /\ down \/ ScriptFails(req[r].rule, req[r].clock)
    /\ Failed(r)
    /\ UNCHANGED <<now, mode, rule, redis, changes, history>>

-----------------------------------------------------------------------------

\* The provider has another rule for the cell.
ChangeRule(u) ==
    /\ changes < MaxChanges
    /\ u # rule
    /\ rule' = u
    /\ changes' = changes + 1
    /\ UNCHANGED <<now, mode, redis, req, history>>

\* Time passes; Redis drops a key whose time has come.
Tick ==
    /\ now < MaxTime
    /\ now' = now + 1
    /\ IF kind # "none" /\ expireAt <= now + 1
       THEN kind' = "none" /\ log' = {} /\ tat' = 0 /\ expireAt' = 0 /\ goneAt' = now + 1
       ELSE UNCHANGED <<redis, goneAt>>
    /\ UNCHANGED <<mode, rule, req, changes, latest, jumbled, cut>>

Next ==
    \/ \E r \in Request :
        \/ Unlimited(r) \/ Send(r) \/ Gcra(r)
        \/ \E nano \in Nano : Sliding(r, nano)
        \/ \E down \in BOOLEAN : BackendError(r, down)
    \/ \E u \in Rules \cup {NoRule} : ChangeRule(u)
    \/ Tick

Spec == Init /\ [][Next]_vars

-----------------------------------------------------------------------------
(* Properties.                                                             *)

\* Every variable has its type.
TypeOK ==
    /\ now \in Time
    /\ mode \in Modes
    /\ rule \in Rules \cup {NoRule}
    /\ kind \in {"none", "zset", "string"}
    /\ log \subseteq Time \X Nano
    /\ tat \in Nat /\ expireAt \in Nat
    /\ req \in [Request -> [state: {"fresh", "sent", "passed", "429", "503"},
                            rule: Rules \cup {NoRule}, clock: 0..MaxTime]]
    /\ changes \in 0..MaxChanges
    /\ latest \in 0..MaxTime /\ goneAt \in 0..MaxTime
    /\ jumbled \subseteq {"overtaken", "outlived", "collided"}
    /\ cut \subseteq Rules

Enforced(algorithm) ==
    /\ rule # NoRule /\ rule.algorithm = algorithm
    /\ mode.failClosed /\ ~mode.observeOnly
PassedBetween(s, t) ==
    Cardinality({r \in Request : /\ req[r].state = "passed" /\ req[r].rule = rule
                                 /\ s <= req[r].clock /\ req[r].clock <= t})

\* No window holds more than limit requests that got through, if scripts run
\* in the order of their clocks, none outlives the key, no two requests share
\* a nanosecond, and no rule with a shorter window pruned the log in between
\* (slidingWindowScript, RateLimit).
SlidingWindowBound ==
    Enforced("sliding_window_counter") /\ jumbled = {} /\ rule \notin cut /\ Window(rule) > 0 =>
        \A t \in Time : PassedBetween(t - Window(rule) + 1, t) <= rule.limit

\* Of the requests that get through in any span, each but the first takes one
\* emission of the time and the tolerance, even if their scripts overtake each
\* other and the rule changes, as long as none outlives the key.  Emission and
\* tolerance are those the script is given, in whole milliseconds: 700/s lets
\* a thousand a second through (runGCRA, gcraScript, RateLimit).
GcraBound ==
    Enforced("gcra") /\ "outlived" \notin jumbled =>
        \A s, t \in Time : s <= t =>
            LET n == PassedBetween(s, t) IN
            n > 0 => (n - 1) * Emission(rule) <= t - s + Tolerance(rule)

\* Retry-After is exact: whoever comes back after it, and not a millisecond
\* before, is let in, if nobody else comes (both scripts).  The sliding window
\* is excused while it holds more entries than a rule that was tightened allows:
\* there the oldest entry leaving does not make room.
RetryAfterExact ==
    \A t \in Time :
        /\ \/ rule = NoRule \/ rule.algorithm # "sliding_window_counter"
           \/ kind = "string" \/ SlidingAllows(log, rule, t)
           \/ Cardinality(Pruned(log, rule, t)) > rule.limit
           \/ LET w == SlidingRetry(log, rule, t)
              IN  w > 0 /\ SlidingAllows(log, rule, t + w)
                        /\ ~SlidingAllows(log, rule, t + w - 1)
        /\ \/ rule = NoRule \/ rule.algorithm # "gcra"
           \/ kind = "zset" \/ GcraAllows(kind, tat, rule, t)
           \/ LET w == GcraRetry(kind, tat, rule, t)
              IN  w > 0 /\ GcraAllows(kind, tat, rule, t + w)
                        /\ ~GcraAllows(kind, tat, rule, t + w - 1)

\* A key left by the other algorithm makes every script fail, but only for a
\* bounded time: it always expires, and failing scripts do not extend it.
KeyExpires ==
    /\ kind = "zset" =>
        \E u \in Rules : now < expireAt /\ expireAt <= now + Window(u)
    /\ kind = "string" =>
        \E u \in Rules : now < expireAt /\ expireAt <= now + Emission(u) + 2 * Tolerance(u)

=============================================================================
