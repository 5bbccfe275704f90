--------------------------- MODULE RateLimit_proofs ---------------------------
(***************************************************************************)
(* Proofs about RateLimit for every number of requests, every set of       *)
(* rules, every mode of the middleware and every bound.                    *)
(*                                                                         *)
(* Neither limit is inductive: the limit counts requests, the scripts see  *)
(* a log or a TAT.  GcraInv ties the TAT to the requests: each that got    *)
(* through since s has pushed it one emission past s.  WindowInv does the  *)
(* same for the log: whoever got through and still counts has an entry of  *)
(* its own there, and the key lives at least as long as the entry counts.  *)
(***************************************************************************)
EXTENDS RateLimit, FiniteSetTheorems, WellFoundedInduction, TLAPS

-----------------------------------------------------------------------------
(* The operators.                                                          *)

\* The arguments of the scripts are natural numbers (emissionInterval,
\* Duration.Milliseconds).
LEMMA RuleNumbers ==
    \A u \in Rules : /\ Window(u) \in Nat /\ Emission(u) \in Nat /\ Tolerance(u) \in Nat
                     /\ u.limit \in Nat /\ u.limit > 0
                     /\ u.algorithm \in Algorithms
<1> SUFFICES ASSUME NEW u \in Rules
             PROVE  /\ Window(u) \in Nat /\ Emission(u) \in Nat /\ Tolerance(u) \in Nat
                    /\ u.limit \in Nat /\ u.limit > 0 /\ u.algorithm \in Algorithms
  OBVIOUS
<1>1. u.limit \in Nat /\ u.limit > 0 /\ u.window \in Nat /\ u.burst \in Nat
      /\ u.algorithm \in Algorithms
  BY LimitAssumption DEF Rule
<1>2. \A d \in Nat : Milliseconds(d) \in Nat
  BY DEF Milliseconds
<1>3. EmissionInterval(u) \in Nat
  BY <1>1 DEF EmissionInterval
<1>4. u.burst * EmissionInterval(u) \in Nat
  BY <1>1, <1>3
<1> QED
  BY <1>1, <1>2, <1>3, <1>4 DEF Window, Emission, Tolerance

LEMMA MaxPair ==
    ASSUME NEW a \in Int, NEW b \in Int
    PROVE  Max({a, b}) \in {a, b} /\ Max({a, b}) >= a /\ Max({a, b}) >= b
<1>1. \E x \in {a, b} : \A y \in {a, b} : x >= y
  OBVIOUS
<1> QED
  BY <1>1 DEF Max

\* A set of natural numbers that is not empty has a least one.
LEMMA LeastOf ==
    ASSUME NEW S, S \subseteq Nat, S # {}
    PROVE  Min(S) \in S /\ \A y \in S : Min(S) <= y
<1>1. PICK x \in S : \A y \in S : ~(<<y, x>> \in OpToRel(<, Nat))
  BY NatLessThanWellFounded, WFMin
<1>2. ASSUME NEW y \in S PROVE x <= y
  <2>1. <<y, x>> \notin {ss \in Nat \X Nat : ss[1] < ss[2]}
    BY <1>1 DEF OpToRel
  <2> QED
    BY <2>1
<1> QED
  BY <1>2 DEF Min

LEMMA FinitePart ==
    ASSUME NEW S, IsFiniteSet(S), NEW T, T \subseteq S
    PROVE  IsFiniteSet(T) /\ Cardinality(T) \in Nat /\ Cardinality(T) <= Cardinality(S)
           /\ Cardinality(S) \in Nat
BY FS_Subset, FS_CardinalityType

-----------------------------------------------------------------------------
(* Types.                                                                  *)

States == {"fresh", "sent", "passed", "429", "503"}

\* A request read its rule before its clock, and both before now.
ReqFacts(r) ==
    /\ req[r].rule # NoRule => req[r].clock \in 1..now
    /\ req[r].state = "fresh" => req[r].rule = NoRule
    /\ req[r].state = "sent" => req[r].rule # NoRule

\* The log is finite, and there only under a key of its type; what the history
\* noted lies in the past.
RedisFacts ==
    /\ IsFiniteSet(log)
    /\ kind # "zset" => log = {}
    /\ latest <= now /\ goneAt <= now

Typed == TypeOK /\ RedisFacts /\ \A r \in Request : ReqFacts(r)

\* The middleware and Redis start with nothing.
LEMMA InitTyped == Init => Typed
<1> SUFFICES ASSUME Init PROVE Typed
  OBVIOUS
<1>1. TypeOK
  BY LimitAssumption DEF Init, TypeOK, Fresh, Time
<1>2. RedisFacts
  BY FS_EmptySet DEF Init, RedisFacts
<1>3. \A r \in Request : ReqFacts(r)
  BY DEF Init, ReqFacts, Fresh
<1> QED
  BY <1>1, <1>2, <1>3 DEF Typed

\* Only the request moves when it is answered, and it keeps its rule and its
\* clock if it gets through.
LEMMA AnswerTyped ==
    ASSUME Typed, NEW r \in Request, req[r].state # "fresh", UNCHANGED now,
           NEW how \in {"passed", "429", "503"}, Answer(r, how)
    PROVE  /\ req' \in [Request -> [state: States, rule: Rules \cup {NoRule}, clock: 0..MaxTime]]
           /\ \A d \in Request : ReqFacts(d)'
           /\ req'[r].state = how
           /\ how = "passed" => req'[r].rule = req[r].rule /\ req'[r].clock = req[r].clock
           /\ \A d \in Request : d # r => req'[d] = req[d]
<1>1. req \in [Request -> [state: States, rule: Rules \cup {NoRule}, clock: 0..MaxTime]]
  BY DEF Typed, TypeOK, States
<1>2. \A d \in Request : d # r => req'[d] = req[d]
  BY <1>1 DEF Answer
<1>3. CASE how = "passed"
  <2>1. req' = [req EXCEPT ![r] = [@ EXCEPT !.state = how]]
    BY <1>3 DEF Answer
  <2>2. req' \in [Request -> [state: States, rule: Rules \cup {NoRule}, clock: 0..MaxTime]]
    BY <1>1, <2>1 DEF States
  <2>3. req'[r].state = how /\ req'[r].rule = req[r].rule /\ req'[r].clock = req[r].clock
    BY <1>1, <2>1
  <2> QED
    BY <1>2, <2>2, <2>3 DEF Typed, ReqFacts
<1>4. CASE how # "passed"
  <2>0. [Fresh EXCEPT !.state = how] = [state |-> how, rule |-> NoRule, clock |-> 0]
    BY DEF Fresh
  <2>1. req' = [req EXCEPT ![r] = [state |-> how, rule |-> NoRule, clock |-> 0]]
    <3>1. req' = [req EXCEPT ![r] = [Fresh EXCEPT !.state = how]]
      BY <1>4 DEF Answer
    <3> QED
      BY <2>0, <3>1
  <2>2. req' \in [Request -> [state: States, rule: Rules \cup {NoRule}, clock: 0..MaxTime]]
    BY <1>1, <2>1, LimitAssumption DEF States
  <2>3. req'[r].state = how /\ req'[r].rule = NoRule
    BY <1>1, <2>1
  <2> QED
    BY <1>2, <1>4, <2>2, <2>3 DEF Typed, ReqFacts
<1> QED
  BY <1>3, <1>4

\* What a request carries to its script.
LEMMA Carried ==
    ASSUME Typed, NEW r \in Request, req[r].state = "sent"
    PROVE  /\ req[r].rule \in Rules /\ req[r].clock \in 1..now /\ req[r].clock \in Time
           /\ now \in Time /\ now \in Nat
<1>1. req[r].rule \in Rules \cup {NoRule} /\ now \in 1..MaxTime
  BY DEF Typed, TypeOK, Time
<1>2. ReqFacts(r) /\ MaxTime \in Nat
  BY LimitAssumption DEF Typed
<1> QED
  BY <1>1, <1>2 DEF ReqFacts, Time

\* The history of a script.
LEMMA RanTyped ==
    ASSUME Typed, NEW r \in Request, req[r].state = "sent", NEW x, Ran(r, x), UNCHANGED now
    PROVE  /\ latest' \in 0..MaxTime /\ latest' <= now' /\ goneAt' = goneAt
           /\ jumbled' \subseteq {"overtaken", "outlived", "collided"}
           /\ cut' \subseteq Rules
           /\ latest' >= latest /\ latest' >= req[r].clock /\ latest' \in {latest, req[r].clock}
           /\ jumbled \subseteq jumbled' /\ cut \subseteq cut'
<1>1. req[r].clock \in 1..now /\ now \in 1..MaxTime /\ latest \in 0..MaxTime /\ latest <= now
      /\ MaxTime \in Nat
  BY Carried, LimitAssumption DEF Typed, TypeOK, RedisFacts, Time
<1>2. latest' \in {latest, req[r].clock} /\ latest' >= latest /\ latest' >= req[r].clock
  <2>1. latest' = Max({req[r].clock, latest})
    BY DEF Ran
  <2>2. req[r].clock \in Int /\ latest \in Int
    BY <1>1
  <2>3. /\ Max({req[r].clock, latest}) \in {req[r].clock, latest}
        /\ Max({req[r].clock, latest}) >= req[r].clock /\ Max({req[r].clock, latest}) >= latest
    BY <2>2, MaxPair, Zenon
  <2> QED
    BY <2>1, <2>3
<1>3. /\ jumbled' \subseteq {"overtaken", "outlived", "collided"}
      /\ cut' \subseteq Rules /\ jumbled \subseteq jumbled' /\ cut \subseteq cut' /\ goneAt' = goneAt
  BY DEF Ran, Typed, TypeOK
<1> QED
  BY <1>1, <1>2, <1>3

\* Whatever the script says, the request is answered (RateLimit).
LEMMA Answered ==
    ASSUME NEW r \in Request, Admitted(r) \/ Refused(r) \/ Failed(r)
    PROVE  \E how \in {"passed", "429", "503"} : Answer(r, how)
BY DEF Admitted, Refused, Exceeded, Failed

\* The scripts keep the types (slidingWindowScript).
LEMMA SlidingTyped ==
    ASSUME Typed, NEW r \in Request, NEW nano \in Nano, Sliding(r, nano)
    PROVE  Typed'
<1> DEFINE u == req[r].rule
           t == req[r].clock
           l == Pruned(log, u, t)
<1>0. req[r].state = "sent" /\ UNCHANGED <<now, mode, rule, tat, changes>> /\ kind # "string"
      /\ \E x : Ran(r, x)
  BY DEF Sliding
<1>c. u \in Rules /\ t \in 1..now /\ t \in Time /\ Window(u) \in Nat
  BY <1>0, Carried, RuleNumbers
<1>r. /\ latest' \in 0..MaxTime /\ latest' <= now' /\ goneAt' = goneAt
      /\ jumbled' \subseteq {"overtaken", "outlived", "collided"} /\ cut' \subseteq Rules
  BY <1>0, RanTyped
<1>a. \E how \in {"passed", "429", "503"} : Answer(r, how)
  BY Answered DEF Sliding
<1>q. /\ req' \in [Request -> [state: States, rule: Rules \cup {NoRule}, clock: 0..MaxTime]]
      /\ \A d \in Request : ReqFacts(d)'
  BY <1>0, <1>a, AnswerTyped
<1>l. /\ l \subseteq log /\ log \subseteq Time \X Nano /\ IsFiniteSet(log)
  BY DEF Pruned, Typed, TypeOK, RedisFacts
<1>f. IsFiniteSet(l) /\ IsFiniteSet(l \cup {<<t, nano>>})
  BY <1>l, FinitePart, FS_AddElement
<1>1. /\ kind' \in {"none", "zset", "string"} /\ log' \subseteq Time \X Nano /\ expireAt' \in Nat
      /\ IsFiniteSet(log') /\ (kind' # "zset" => log' = {})
  <2>1. CASE /\ Window(u) > 0 /\ kind' = "zset" /\ log' = l \cup {<<t, nano>>}
             /\ expireAt' = SlidingExpiry(u)
    <3>1. expireAt' \in Nat
      BY <1>c, <2>1 DEF SlidingExpiry, Typed, TypeOK, Time
    <3> HIDE DEF u, t, l
    <3> QED
      BY <1>c, <1>l, <1>f, <2>1, <3>1
  <2>2. CASE kind' = "none" /\ log' = {} /\ expireAt' = 0
    BY <2>2, FS_EmptySet
  <2>3. CASE log' = l /\ UNCHANGED <<kind, expireAt>>
    <3>1. kind \in {"none", "zset", "string"} /\ expireAt \in Nat /\ (kind # "zset" => log = {})
      BY DEF Typed, TypeOK, RedisFacts
    <3> HIDE DEF u, t, l
    <3> QED
      BY <1>l, <1>f, <2>3, <3>1
  <2> QED
    BY <2>1, <2>2, <2>3 DEF Sliding
<1>2. TypeOK'
  BY <1>0, <1>r, <1>q, <1>1 DEF Typed, TypeOK, States
<1>3. RedisFacts'
  BY <1>0, <1>r, <1>1 DEF Typed, RedisFacts
<1> QED
  BY <1>2, <1>3, <1>q DEF Typed

\* What GCRA does to the TAT: it never falls behind the old one, the clock or
\* either of them plus one emission (gcraScript).
LEMMA TatMoves ==
    ASSUME Typed, NEW u \in Rules, NEW t \in Time, GcraAllows(kind, tat, u, t)
    PROVE  /\ Tat(kind, tat, t) \in Nat /\ Tat(kind, tat, t) <= t + Tolerance(u)
           /\ NewTat(kind, tat, u, t) \in Nat
           /\ NewTat(kind, tat, u, t) >= Tat(kind, tat, t) + Emission(u)
           /\ NewTat(kind, tat, u, t) >= t + Emission(u)
           /\ NewTat(kind, tat, u, t) <= t + Tolerance(u) + Emission(u)
<1> DEFINE a == Tat(kind, tat, t)
           m == Max({a, t})
<1>1. t \in Nat /\ Emission(u) \in Nat /\ Tolerance(u) \in Nat
  BY RuleNumbers, LimitAssumption DEF Time
<1>2. a \in Nat
  BY <1>1 DEF Tat, Typed, TypeOK
<1>3. a <= t + Tolerance(u)
  <2>1. t >= a - Tolerance(u)
    BY DEF GcraAllows
  <2> HIDE DEF a
  <2> QED
    BY <1>1, <1>2, <2>1
<1>4. m \in {a, t} /\ m >= a /\ m >= t
  <2>1. a \in Int /\ t \in Int
    BY <1>1, <1>2
  <2> HIDE DEF a
  <2> QED
    BY <2>1, MaxPair, Zenon
<1>5. NewTat(kind, tat, u, t) = m + Emission(u)
  BY DEF NewTat
<1> HIDE DEF a, m
<1> QED
  BY <1>1, <1>2, <1>3, <1>4, <1>5 DEF a

\* The other script keeps them (gcraScript).
LEMMA GcraTyped ==
    ASSUME Typed, NEW r \in Request, Gcra(r)
    PROVE  Typed'
<1> DEFINE u == req[r].rule
           t == req[r].clock
<1>0. req[r].state = "sent" /\ UNCHANGED <<now, mode, rule, log, changes>> /\ kind # "zset"
      /\ \E x : Ran(r, x)
  BY DEF Gcra
<1>c. u \in Rules /\ t \in 1..now /\ t \in Time /\ now \in Nat /\ Tolerance(u) \in Nat
  BY <1>0, Carried, RuleNumbers
<1>r. /\ latest' \in 0..MaxTime /\ latest' <= now' /\ goneAt' = goneAt
      /\ jumbled' \subseteq {"overtaken", "outlived", "collided"} /\ cut' \subseteq Rules
  BY <1>0, RanTyped
<1>a. \E how \in {"passed", "429", "503"} : Answer(r, how)
  BY Answered DEF Gcra
<1>q. /\ req' \in [Request -> [state: States, rule: Rules \cup {NoRule}, clock: 0..MaxTime]]
      /\ \A d \in Request : ReqFacts(d)'
  BY <1>0, <1>a, AnswerTyped
<1>1. /\ kind' \in {"none", "zset", "string"} /\ tat' \in Nat /\ expireAt' \in Nat /\ kind' # "zset"
  <2>1. CASE /\ GcraAllows(kind, tat, u, t) /\ GcraTtl(kind, tat, u, t) > 0
             /\ kind' = "string" /\ tat' = NewTat(kind, tat, u, t)
             /\ expireAt' = now + GcraTtl(kind, tat, u, t)
    <3>1. tat' \in Nat
      BY <1>c, <2>1, TatMoves
    <3>2. GcraTtl(kind, tat, u, t) = tat' - t + Tolerance(u)
      BY <2>1 DEF GcraTtl
    <3> HIDE DEF u, t
    <3> QED
      BY <1>c, <2>1, <3>1, <3>2
  <2>2. CASE UNCHANGED <<kind, tat, expireAt>>
    BY <1>0, <2>2 DEF Typed, TypeOK
  <2> QED
    BY <2>1, <2>2 DEF Gcra
<1>2. TypeOK'
  BY <1>0, <1>r, <1>q, <1>1 DEF Typed, TypeOK, States
<1>3. RedisFacts'
  BY <1>0, <1>r, <1>1 DEF Typed, RedisFacts
<1> QED
  BY <1>2, <1>3, <1>q DEF Typed

\* Time passes, and a key may go with it.
LEMMA TickTyped ==
    ASSUME Typed, Tick
    PROVE  Typed'
<1>1. now \in Nat /\ MaxTime \in Nat /\ now' = now + 1 /\ now' \in Time
      /\ UNCHANGED <<mode, rule, req, changes, latest, jumbled, cut>>
  BY LimitAssumption DEF Tick, Typed, TypeOK, Time
<1>2. \/ UNCHANGED <<kind, log, tat, expireAt, goneAt>>
      \/ kind' = "none" /\ log' = {} /\ tat' = 0 /\ expireAt' = 0 /\ goneAt' = now'
  BY <1>1 DEF Tick, redis
<1>3. TypeOK'
  BY <1>1, <1>2 DEF Typed, TypeOK, Time
<1>4. RedisFacts'
  <2>1. latest \in Int /\ goneAt \in Int
    BY LimitAssumption DEF Typed, TypeOK
  <2> QED
    BY <1>1, <1>2, <2>1, FS_EmptySet DEF Typed, RedisFacts
<1>5. \A r \in Request : ReqFacts(r)'
  BY <1>1 DEF Typed, ReqFacts
<1> QED
  BY <1>3, <1>4, <1>5 DEF Typed

\* Every step keeps the types (RateLimit, Allow).
LEMMA NextTyped == Typed /\ [Next]_vars => Typed'
<1> SUFFICES ASSUME Typed, [Next]_vars PROVE Typed'
  OBVIOUS
<1>p. req \in [Request -> [state: States, rule: Rules \cup {NoRule}, clock: 0..MaxTime]]
      /\ now \in 1..MaxTime /\ MaxTime \in Nat
  BY LimitAssumption DEF Typed, TypeOK, States, Time
<1>1. ASSUME NEW r \in Request, UNCHANGED <<now, mode, rule, redis, changes, history>>,
             req' \in [Request -> [state: States, rule: Rules \cup {NoRule}, clock: 0..MaxTime]],
             ReqFacts(r)', \A d \in Request : d # r => req'[d] = req[d]
      PROVE  Typed'
  <2>1. TypeOK'
    BY <1>1 DEF Typed, TypeOK, redis, history, States
  <2>2. RedisFacts'
    BY <1>1 DEF Typed, RedisFacts, redis, history
  <2>3. \A d \in Request : ReqFacts(d)'
    BY <1>1 DEF Typed, ReqFacts
  <2> QED
    BY <2>1, <2>2, <2>3 DEF Typed
<1>2. ASSUME NEW r \in Request, Unlimited(r) PROVE Typed'
  <2>1. req' \in [Request -> [state: States, rule: Rules \cup {NoRule}, clock: 0..MaxTime]]
        /\ req'[r].state = "passed" /\ req'[r].rule = req[r].rule
        /\ \A d \in Request : d # r => req'[d] = req[d]
    BY <1>2, <1>p DEF Unlimited, Answer, States
  <2>2. req[r].rule = NoRule
    BY <1>2 DEF Unlimited, Typed, ReqFacts
  <2> QED
    BY <1>1, <1>2, <2>1, <2>2 DEF Unlimited, ReqFacts
<1>3. ASSUME NEW r \in Request, Send(r) PROVE Typed'
  <2>1. rule \in Rules
    BY <1>3 DEF Send, Typed, TypeOK
  <2>2. req' \in [Request -> [state: States, rule: Rules \cup {NoRule}, clock: 0..MaxTime]]
        /\ req'[r] = [state |-> "sent", rule |-> rule, clock |-> now]
        /\ \A d \in Request : d # r => req'[d] = req[d]
    BY <1>3, <1>p, <2>1 DEF Send, States
  <2>3. ReqFacts(r)'
    BY <1>3, <1>p, <2>2 DEF Send, ReqFacts
  <2> QED
    BY <1>1, <1>3, <2>2, <2>3 DEF Send
<1>4. ASSUME NEW r \in Request, NEW down \in BOOLEAN, BackendError(r, down) PROVE Typed'
  <2>1. req[r].state # "fresh" /\ UNCHANGED now /\ \E how \in {"passed", "429", "503"} : Answer(r, how)
    BY <1>4, Answered DEF BackendError
  <2>2. /\ req' \in [Request -> [state: States, rule: Rules \cup {NoRule}, clock: 0..MaxTime]]
        /\ \A d \in Request : ReqFacts(d)' /\ (d # r => req'[d] = req[d])
    BY <2>1, AnswerTyped
  <2> QED
    BY <1>1, <1>4, <2>2 DEF BackendError
<1>5. ASSUME NEW u \in Rules \cup {NoRule}, ChangeRule(u) PROVE Typed'
  <2>1. TypeOK'
    BY <1>5, LimitAssumption DEF ChangeRule, Typed, TypeOK, redis, history
  <2>2. RedisFacts' /\ \A r \in Request : ReqFacts(r)'
    BY <1>5 DEF ChangeRule, Typed, RedisFacts, ReqFacts, redis, history
  <2> QED
    BY <2>1, <2>2 DEF Typed
<1>6. CASE UNCHANGED vars
  <2>1. TypeOK'
    BY <1>6 DEF vars, Typed, TypeOK, redis, history
  <2>2. RedisFacts' /\ \A r \in Request : ReqFacts(r)'
    BY <1>6 DEF vars, Typed, RedisFacts, ReqFacts, redis, history
  <2> QED
    BY <2>1, <2>2 DEF Typed
<1> QED
  BY <1>2, <1>3, <1>4, <1>5, <1>6, SlidingTyped, GcraTyped, TickTyped DEF Next

\* Every variable keeps its type, whatever the scripts answer (Allow, RateLimit).
THEOREM TypeCorrect == Spec => []TypeOK
<1>1. Typed => TypeOK
  BY DEF Typed
<1> QED
  BY <1>1, InitTyped, NextTyped, PTL DEF Spec

-----------------------------------------------------------------------------
(* Keys expire, and Retry-After is exact.                                  *)

\* A step that leaves the key and the time alone keeps KeyExpires.
LEMMA KeyKept ==
    ASSUME KeyExpires, UNCHANGED <<now, kind, expireAt>>
    PROVE  KeyExpires'
BY DEF KeyExpires

LEMMA SlidingKey ==
    ASSUME Typed, KeyExpires, NEW r \in Request, NEW nano \in Nano, Sliding(r, nano)
    PROVE  KeyExpires'
<1>1. req[r].state = "sent" /\ UNCHANGED now
  BY DEF Sliding
<1>2. req[r].rule \in Rules /\ now \in Nat /\ Window(req[r].rule) \in Nat
  BY <1>1, Carried, RuleNumbers
<1>3. CASE Window(req[r].rule) > 0 /\ kind' = "zset" /\ expireAt' = SlidingExpiry(req[r].rule)
  <2>1. now' < expireAt' /\ expireAt' <= now' + Window(req[r].rule)
    BY <1>1, <1>2, <1>3 DEF SlidingExpiry
  <2> QED
    BY <1>2, <1>3, <2>1 DEF KeyExpires
<1>4. CASE kind' = "none"
  BY <1>4 DEF KeyExpires
<1>5. CASE UNCHANGED <<kind, expireAt>>
  BY <1>1, <1>5, KeyKept
<1> QED
  BY <1>3, <1>4, <1>5 DEF Sliding

LEMMA GcraKey ==
    ASSUME Typed, KeyExpires, NEW r \in Request, Gcra(r)
    PROVE  KeyExpires'
<1> DEFINE u == req[r].rule
           t == req[r].clock
<1>1. req[r].state = "sent" /\ UNCHANGED now
  BY DEF Gcra
<1>2. u \in Rules /\ now \in Nat /\ t \in Time /\ t \in 1..now
      /\ Tolerance(u) \in Nat /\ Emission(u) \in Nat
  BY <1>1, Carried, RuleNumbers
<1>3. CASE /\ GcraAllows(kind, tat, u, t) /\ GcraTtl(kind, tat, u, t) > 0
           /\ kind' = "string" /\ expireAt' = now + GcraTtl(kind, tat, u, t)
  <2>1. /\ NewTat(kind, tat, u, t) \in Nat
        /\ NewTat(kind, tat, u, t) <= t + Tolerance(u) + Emission(u)
    BY <1>2, <1>3, TatMoves
  <2>2. GcraTtl(kind, tat, u, t) = NewTat(kind, tat, u, t) - t + Tolerance(u)
    BY DEF GcraTtl
  <2>3. now' < expireAt' /\ expireAt' <= now' + Emission(u) + 2 * Tolerance(u)
    <3> HIDE DEF u, t
    <3> QED
      BY <1>1, <1>2, <1>3, <2>1, <2>2
  <2> QED
    BY <1>2, <1>3, <2>3 DEF KeyExpires
<1>4. CASE UNCHANGED <<kind, expireAt>>
  BY <1>1, <1>4, KeyKept
<1> QED
  BY <1>3, <1>4 DEF Gcra

LEMMA NextKey == Typed /\ KeyExpires /\ [Next]_vars => KeyExpires'
<1> SUFFICES ASSUME Typed, KeyExpires, [Next]_vars PROVE KeyExpires'
  OBVIOUS
<1>1. CASE Tick
  <2>1. now \in Nat /\ expireAt \in Nat /\ now' = now + 1
    BY <1>1 DEF Tick, Typed, TypeOK, Time
  <2>2. CASE kind # "none" /\ expireAt <= now + 1
    BY <1>1, <2>2 DEF Tick, KeyExpires
  <2>3. CASE kind # "none" /\ ~(expireAt <= now + 1)
    <3>1. UNCHANGED <<kind, expireAt>> /\ now' < expireAt'
      BY <1>1, <2>1, <2>3 DEF Tick, redis
    <3>2. ASSUME NEW u \in Rules
          PROVE  /\ expireAt <= now + Window(u) => expireAt' <= now' + Window(u)
                 /\ expireAt <= now + Emission(u) + 2 * Tolerance(u)
                        => expireAt' <= now' + Emission(u) + 2 * Tolerance(u)
      BY <2>1, <3>1, RuleNumbers
    <3> QED
      BY <3>1, <3>2 DEF KeyExpires
  <2>4. CASE kind = "none"
    BY <1>1, <2>4 DEF Tick, KeyExpires, redis
  <2> QED
    BY <2>2, <2>3, <2>4
<1>2. CASE UNCHANGED <<now, kind, expireAt>>
  BY <1>2, KeyKept
<1> QED
  BY <1>1, <1>2, SlidingKey, GcraKey DEF Next, Unlimited, Send, BackendError, ChangeRule, vars, redis

\* A key left behind by the other algorithm always expires, within the window
\* or one emission and twice the tolerance of some rule (both scripts).
THEOREM KeyExpiresHolds == Spec => []KeyExpires
<1>1. Init => KeyExpires
  BY DEF Init, KeyExpires
<1> QED
  BY <1>1, InitTyped, NextTyped, NextKey, PTL DEF Spec

\* What the script leaves in the log.
LEMMA PrunedFrom ==
    \A l, u, x, o : x - Window(u) = o =>
        \A m : m \in Pruned(l, u, x) <=> m \in l /\ m[1] > o
BY DEF Pruned

\* The oldest entry of a full log leaves it exactly when slidingWindowScript
\* says, and not before.
LEMMA SlidingRetryExact ==
    ASSUME Typed, NEW u \in Rules, NEW t \in Time, ~SlidingAllows(log, u, t),
           ~(Cardinality(Pruned(log, u, t)) > u.limit)
    PROVE  LET w == SlidingRetry(log, u, t)
           IN  w > 0 /\ SlidingAllows(log, u, t + w) /\ ~SlidingAllows(log, u, t + w - 1)
<1> DEFINE l == Pruned(log, u, t)
           scores == {m[1] : m \in l}
           oldest == Min(scores)
           w == SlidingRetry(log, u, t)
<1>1. /\ t \in Nat /\ Window(u) \in Nat /\ u.limit \in Nat /\ u.limit > 0 /\ MaxTime \in Nat
      /\ log \subseteq Time \X Nano /\ IsFiniteSet(log)
  BY RuleNumbers, LimitAssumption DEF Time, Typed, TypeOK, RedisFacts
<1>2. l \subseteq log /\ \A m \in log : m[1] \in Nat
  BY <1>1 DEF Pruned, Time
<1>3. Cardinality(l) = u.limit /\ Cardinality(l) \in Nat /\ IsFiniteSet(l)
  <2>1. IsFiniteSet(l) /\ Cardinality(l) \in Nat
    BY <1>1, <1>2, FinitePart
  <2>2. ~(Cardinality(l) < u.limit) /\ ~(Cardinality(l) > u.limit)
    BY DEF SlidingAllows
  <2> HIDE DEF l
  <2> QED
    BY <1>1, <2>1, <2>2
<1>4. scores # {} /\ scores \subseteq Nat
  <2>1. l # {}
    <3> HIDE DEF l
    <3> QED
      BY <1>1, <1>3, FS_EmptySet
  <2> HIDE DEF l
  <2> QED
    BY <1>2, <2>1
<1>5. oldest \in scores /\ \A y \in scores : oldest <= y
  <2> HIDE DEF scores
  <2> QED
    BY <1>4, LeastOf
<1>6. PICK first \in l : first[1] = oldest
  <2> HIDE DEF oldest, l
  <2> QED
    BY <1>5
<1>7. oldest \in Nat /\ oldest > t - Window(u)
  <2>1. first[1] > t - Window(u) /\ first[1] \in Nat
    BY <1>2, <1>6 DEF Pruned
  <2> HIDE DEF oldest
  <2> QED
    BY <1>6, <2>1
<1>8. w = oldest + Window(u) - t /\ w > 0
  <2>1. w = Max({0, oldest + Window(u) - t})
    BY DEF SlidingRetry
  <2> HIDE DEF oldest, w
  <2>2. 0 \in Int /\ oldest + Window(u) - t \in Int /\ oldest + Window(u) - t > 0
    BY <1>1, <1>7
  <2>3. /\ Max({0, oldest + Window(u) - t}) \in {0, oldest + Window(u) - t}
        /\ Max({0, oldest + Window(u) - t}) >= oldest + Window(u) - t
    BY <2>2, MaxPair, Zenon
  <2> QED
    BY <2>1, <2>2, <2>3
<1>9. SlidingAllows(log, u, t + w)
  <2> DEFINE k == Pruned(log, u, t + w)
  <2>1. (t + w) - Window(u) = oldest
    <3> HIDE DEF oldest, w
    <3> QED
      BY <1>1, <1>7, <1>8
  <2>k. \A m : m \in k <=> m \in log /\ m[1] > oldest
    <3> HIDE DEF oldest, w
    <3> QED
      BY <2>1, PrunedFrom
  <2> HIDE DEF k
  <2>2. k \subseteq l
    <3> SUFFICES ASSUME NEW m \in k PROVE m \in l
      OBVIOUS
    <3>1. m \in log /\ m[1] > oldest
      <4> HIDE DEF oldest
      <4> QED
        BY <2>k
    <3>2. m[1] > t - Window(u)
      <4> HIDE DEF oldest
      <4> QED
        BY <1>1, <1>2, <1>7, <3>1
    <3> QED
      BY <3>1, <3>2 DEF Pruned
  <2>3. first \notin k
    <3>1. ~(first[1] > oldest)
      <4> HIDE DEF oldest
      <4> QED
        BY <1>6, <1>7
    <3> HIDE DEF oldest
    <3> QED
      BY <2>k, <3>1
  <2>4. Cardinality(k) <= Cardinality(l) /\ Cardinality(k) # Cardinality(l) /\ Cardinality(k) \in Nat
    <3> HIDE DEF k, l
    <3> QED
      BY <1>3, <1>6, <2>2, <2>3, FS_Subset, FS_CardinalityType
  <2>5. Cardinality(k) < u.limit
    <3> HIDE DEF k, l
    <3> QED
      BY <1>1, <1>3, <2>4
  <2> QED
    BY <2>5 DEF SlidingAllows, k
<1>10. ~SlidingAllows(log, u, t + w - 1)
  <2> DEFINE k == Pruned(log, u, t + w - 1)
  <2>1. (t + w - 1) - Window(u) = oldest - 1
    <3> HIDE DEF oldest, w
    <3> QED
      BY <1>1, <1>7, <1>8
  <2>k. \A m : m \in k <=> m \in log /\ m[1] > oldest - 1
    <3> HIDE DEF oldest, w
    <3> QED
      BY <2>1, PrunedFrom
  <2> HIDE DEF k
  <2>2. l \subseteq k
    <3> SUFFICES ASSUME NEW m \in l PROVE m \in k
      OBVIOUS
    <3>1. m \in log /\ m[1] \in Nat /\ m[1] \in scores
      BY <1>2
    <3>2. oldest <= m[1]
      BY <1>5, <3>1
    <3>3. m[1] > oldest - 1
      <4> HIDE DEF oldest
      <4> QED
        BY <1>7, <3>1, <3>2
    <3> HIDE DEF oldest, l
    <3> QED
      BY <2>k, <3>1, <3>3
  <2>3. IsFiniteSet(k)
    <3>1. k \subseteq log
      BY <2>k
    <3> QED
      BY <1>1, <3>1, FinitePart
  <2>4. Cardinality(l) <= Cardinality(k) /\ Cardinality(k) \in Nat
    <3> HIDE DEF k, l
    <3> QED
      BY <2>2, <2>3, FinitePart
  <2>5. ~(Cardinality(k) < u.limit)
    <3> HIDE DEF k, l
    <3> QED
      BY <1>1, <1>3, <2>4
  <2> QED
    BY <2>5 DEF SlidingAllows, k
<1> QED
  BY <1>8, <1>9, <1>10

\* So does gcraScript: the arrival is allowed exactly from allow_at on.
LEMMA GcraRetryExact ==
    ASSUME Typed, NEW u \in Rules, NEW t \in Time, ~GcraAllows(kind, tat, u, t)
    PROVE  LET w == GcraRetry(kind, tat, u, t)
           IN  w > 0 /\ GcraAllows(kind, tat, u, t + w) /\ ~GcraAllows(kind, tat, u, t + w - 1)
<1>1. t \in Nat /\ Tolerance(u) \in Nat /\ tat \in Nat
  BY RuleNumbers DEF Time, Typed, TypeOK
<1>2. kind # "none"
  BY <1>1 DEF GcraAllows, Tat
<1> QED
  BY <1>1, <1>2 DEF GcraAllows, GcraRetry, Tat

\* Whoever comes back when Retry-After says is let in, and not a millisecond
\* before, if nobody else came (both scripts).
THEOREM RetryAfterExactHolds == Spec => []RetryAfterExact
<1>1. Typed => RetryAfterExact
  <2> SUFFICES ASSUME Typed PROVE RetryAfterExact
    OBVIOUS
  <2>1. rule # NoRule => rule \in Rules
    BY DEF Typed, TypeOK
  <2> QED
    BY <2>1, SlidingRetryExact, GcraRetryExact DEF RetryAfterExact
<1> QED
  BY <1>1, InitTyped, NextTyped, PTL DEF Spec

-----------------------------------------------------------------------------
(* The requests that got through.                                          *)

\* Errors and excess let nobody through.
Strict == mode.failClosed /\ ~mode.observeOnly

\* Requests that got through under a rule, from a clock on or in a span.
Through(d, u) == req[d].state = "passed" /\ req[d].rule = u
Since(u, s) == {d \in Request : Through(d, u) /\ s <= req[d].clock}
Within(u, s, t) == {d \in Request : Through(d, u) /\ s <= req[d].clock /\ req[d].clock <= t}

\* Nobody got through under a rule.
Nobody == /\ \A u \in Rules : \A s : Since(u, s)' = Since(u, s)
          /\ \A u \in Rules : \A s, t : Within(u, s, t)' = Within(u, s, t)

\* These sets are finite.
LEMMA Counts ==
    \A u, s, t : /\ IsFiniteSet(Since(u, s)) /\ Cardinality(Since(u, s)) \in Nat
                 /\ IsFiniteSet(Within(u, s, t)) /\ Cardinality(Within(u, s, t)) \in Nat
                 /\ Cardinality(Within(u, s, t)) <= Cardinality(Since(u, s))
<1> SUFFICES ASSUME NEW u, NEW s, NEW t
             PROVE  /\ IsFiniteSet(Since(u, s)) /\ Cardinality(Since(u, s)) \in Nat
                    /\ IsFiniteSet(Within(u, s, t)) /\ Cardinality(Within(u, s, t)) \in Nat
                    /\ Cardinality(Within(u, s, t)) <= Cardinality(Since(u, s))
  OBVIOUS
<1>1. Since(u, s) \subseteq Request /\ Within(u, s, t) \subseteq Since(u, s)
  BY DEF Since, Within
<1>2. IsFiniteSet(Request)
  BY LimitAssumption
<1>3. IsFiniteSet(Since(u, s)) /\ Cardinality(Since(u, s)) \in Nat
  BY <1>1, <1>2, FinitePart
<1> QED
  BY <1>1, <1>3, FinitePart

\* A request that does not get through under a rule changes nothing.
LEMMA NotThrough ==
    ASSUME NEW r \in Request, req[r].state # "passed",
           req'[r].state # "passed" \/ req'[r].rule = NoRule,
           \A d \in Request : d # r => req'[d] = req[d]
    PROVE  Nobody
<1>1. \A u \in Rules : u # NoRule
  BY LimitAssumption
<1>2. \A d \in Request, u \in Rules : Through(d, u)' <=> Through(d, u)
  BY <1>1 DEF Through
<1>3. \A d \in Request, u \in Rules : Through(d, u) => req'[d].clock = req[d].clock
  BY DEF Through
<1> QED
  BY <1>2, <1>3 DEF Nobody, Since, Within

\* One that does is counted from its own clock on.
LEMMA GetsThrough ==
    ASSUME Typed, NEW r \in Request, req[r].state = "sent", UNCHANGED now, Answer(r, "passed"),
           NEW u \in Rules
    PROVE  /\ \A s : Since(u, s)' = IF req[r].rule = u /\ s <= req[r].clock
                                   THEN Since(u, s) \cup {r} ELSE Since(u, s)
           /\ \A s, t : Within(u, s, t)' =
                  IF req[r].rule = u /\ s <= req[r].clock /\ req[r].clock <= t
                  THEN Within(u, s, t) \cup {r} ELSE Within(u, s, t)
           /\ \A s, t : r \notin Since(u, s) /\ r \notin Within(u, s, t)
<1>1. /\ req'[r].state = "passed" /\ req'[r].rule = req[r].rule /\ req'[r].clock = req[r].clock
      /\ \A d \in Request : d # r => req'[d] = req[d]
  BY AnswerTyped
<1>2. ~Through(r, u) /\ (Through(r, u)' <=> req[r].rule = u)
  BY <1>1 DEF Through
<1>3. \A d \in Request : d # r => (Through(d, u)' <=> Through(d, u)) /\ req'[d].clock = req[d].clock
  BY <1>1 DEF Through
<1> QED
  BY <1>1, <1>2, <1>3 DEF Since, Within

\* Under a strict middleware nobody gets through but by a script that allows it.
LEMMA OthersStay ==
    ASSUME Typed, Strict, NEW r \in Request, NEW down,
           Unlimited(r) \/ Send(r) \/ BackendError(r, down)
               \/ (req[r].state = "sent" /\ UNCHANGED now /\ (Refused(r) \/ Failed(r)))
    PROVE  Nobody
<1>1. req \in [Request -> [state: States, rule: Rules \cup {NoRule}, clock: 0..MaxTime]]
  BY DEF Typed, TypeOK, States
<1>2. CASE Unlimited(r)
  <2>1. req[r].state = "fresh" /\ req[r].rule = NoRule
    BY <1>2 DEF Unlimited, Typed, ReqFacts
  <2>2. req'[r].rule = NoRule /\ \A d \in Request : d # r => req'[d] = req[d]
    BY <1>1, <1>2, <2>1 DEF Unlimited, Answer
  <2> QED
    BY <2>1, <2>2, NotThrough
<1>3. CASE Send(r)
  <2>1. req[r].state = "fresh" /\ req'[r].state = "sent" /\ \A d \in Request : d # r => req'[d] = req[d]
    BY <1>1, <1>3 DEF Send
  <2> QED
    BY <2>1, NotThrough
<1>4. CASE BackendError(r, down) \/ (req[r].state = "sent" /\ UNCHANGED now /\ (Refused(r) \/ Failed(r)))
  <2>1. req[r].state = "sent" /\ UNCHANGED now /\ (Answer(r, "429") \/ Answer(r, "503"))
    BY <1>4 DEF BackendError, Refused, Exceeded, Failed, Strict
  <2>2. req'[r].state # "passed" /\ \A d \in Request : d # r => req'[d] = req[d]
    BY <2>1, AnswerTyped
  <2> QED
    BY <2>1, <2>2, NotThrough
<1> QED
  BY <1>2, <1>3, <1>4

\* Nor does anybody while no request moves.
LEMMA NobodyMoves == UNCHANGED req => Nobody
BY DEF Nobody, Since, Within, Through

-----------------------------------------------------------------------------
(* The GCRA bound.                                                         *)

\* How far the arrivals reach: the TAT, or the end of the key that held it.
Reach == IF kind = "string" THEN tat ELSE goneAt

\* Each request that got through since s pushed the TAT one emission on; and
\* the bound itself, for every rule.
GcraFacts(u) ==
    /\ \A s \in Nat : LET n == Cardinality(Since(u, s)) IN
           n > 0 => s + n * Emission(u) <= Reach
    /\ \A s, t \in Nat : s <= t =>
           LET n == Cardinality(Within(u, s, t)) IN
           n > 0 => (n - 1) * Emission(u) <= t - s + Tolerance(u)

\* The key lives as long as its TAT lies ahead.
TatKept == kind = "string" => tat <= expireAt

GcraInv ==
    /\ TatKept
    /\ Strict /\ "outlived" \notin jumbled =>
           \A u \in Rules : u.algorithm = "gcra" => GcraFacts(u)

LEMMA Product ==
    ASSUME NEW n \in Nat, NEW e \in Nat
    PROVE  n * e \in Nat /\ (n + 1) * e = n * e + e
OBVIOUS

LEMMA ProductGrows ==
    ASSUME NEW n \in Nat, NEW m \in Nat, NEW e \in Nat, n <= m
    PROVE  n * e <= m * e
<1>1. PICK k \in Nat : m = n + k
  <2>1. m - n \in Nat /\ m = n + (m - n)
    OBVIOUS
  <2> QED
    BY <2>1
<1>2. (n + k) * e = n * e + k * e /\ k * e \in Nat /\ n * e \in Nat
  OBVIOUS
<1> QED
  BY <1>1, <1>2

LEMMA ReachType == Typed => Reach \in Nat
BY LimitAssumption DEF Typed, TypeOK, Reach

\* Where nobody gets through, it is enough that the reach does not shrink.
LEMMA GcraFactsKept ==
    ASSUME NEW u \in Rules, GcraFacts(u), Nobody, Reach \in Nat, Reach' \in Nat, Reach <= Reach'
    PROVE  GcraFacts(u)'
<1>1. ASSUME NEW s \in Nat, Cardinality(Since(u, s)) > 0
      PROVE  s + Cardinality(Since(u, s)) * Emission(u) <= Reach'
  <2>1. s + Cardinality(Since(u, s)) * Emission(u) <= Reach
    BY <1>1 DEF GcraFacts
  <2>2. Cardinality(Since(u, s)) * Emission(u) \in Nat
    BY Counts, RuleNumbers, Product
  <2> QED
    BY <2>1, <2>2
<1> QED
  BY <1>1 DEF GcraFacts, Nobody

\* An arrival that gcraScript allows moves the reach one emission on, and past
\* the clock of the request, if it does not come from before the key.
LEMMA ReachMoves ==
    ASSUME Typed, NEW u \in Rules, NEW t \in Time, kind # "zset", goneAt <= t,
           GcraAllows(kind, tat, u, t), kind' = "string", tat' = NewTat(kind, tat, u, t)
    PROVE  /\ Reach \in Nat /\ Reach' \in Nat /\ Reach <= t + Tolerance(u)
           /\ Reach' >= Reach + Emission(u) /\ Reach' >= t + Emission(u)
<1>1. /\ Tat(kind, tat, t) \in Nat /\ Tat(kind, tat, t) <= t + Tolerance(u)
      /\ NewTat(kind, tat, u, t) \in Nat
      /\ NewTat(kind, tat, u, t) >= Tat(kind, tat, t) + Emission(u)
      /\ NewTat(kind, tat, u, t) >= t + Emission(u)
  BY TatMoves
<1>2. Reach \in Nat /\ Reach <= Tat(kind, tat, t)
  <2>1. kind \in {"none", "string"} /\ goneAt \in Nat /\ tat \in Nat
    BY LimitAssumption DEF Typed, TypeOK
  <2> QED
    BY <2>1 DEF Reach, Tat
<1>3. Reach' = NewTat(kind, tat, u, t)
  BY DEF Reach
<1>4. t \in Nat /\ Emission(u) \in Nat /\ Tolerance(u) \in Nat
  BY RuleNumbers, LimitAssumption DEF Time
<1> QED
  BY <1>1, <1>2, <1>3, <1>4

\* The arrival keeps the facts of its own rule.
LEMMA GcraArrival ==
    ASSUME Typed, NEW r \in Request, req[r].state = "sent", UNCHANGED now, Answer(r, "passed"),
           kind # "zset", goneAt <= req[r].clock, req[r].rule \in Rules,
           GcraAllows(kind, tat, req[r].rule, req[r].clock),
           kind' = "string", tat' = NewTat(kind, tat, req[r].rule, req[r].clock),
           GcraFacts(req[r].rule)
    PROVE  \A u \in Rules : u = req[r].rule => GcraFacts(u)'
<1> SUFFICES ASSUME NEW u \in Rules, u = req[r].rule PROVE GcraFacts(u)'
  OBVIOUS
<1> DEFINE c == req[r].clock
           e == Emission(u)
<1>1. c \in Nat /\ c \in Time /\ e \in Nat /\ Tolerance(u) \in Nat
  BY Carried, RuleNumbers DEF Time
<1>2. /\ Reach \in Nat /\ Reach' \in Nat /\ Reach <= c + Tolerance(u)
      /\ Reach' >= Reach + e /\ Reach' >= c + e
  BY <1>1, ReachMoves
<1>3. GcraFacts(u)
  OBVIOUS
<1>4. /\ \A s : Since(u, s)' = IF s <= c THEN Since(u, s) \cup {r} ELSE Since(u, s)
      /\ \A s, t : Within(u, s, t)' = IF s <= c /\ c <= t
                                      THEN Within(u, s, t) \cup {r} ELSE Within(u, s, t)
      /\ \A s, t : r \notin Since(u, s) /\ r \notin Within(u, s, t)
  <2>1. /\ \A s : Since(u, s)' = IF req[r].rule = u /\ s <= req[r].clock
                                 THEN Since(u, s) \cup {r} ELSE Since(u, s)
        /\ \A s, t : Within(u, s, t)' =
               IF req[r].rule = u /\ s <= req[r].clock /\ req[r].clock <= t
               THEN Within(u, s, t) \cup {r} ELSE Within(u, s, t)
        /\ \A s, t : r \notin Since(u, s) /\ r \notin Within(u, s, t)
    BY GetsThrough
  <2>2. req[r].rule = u
    OBVIOUS
  <2> QED
    BY <2>1, <2>2, Zenon
<1>5. ASSUME NEW s \in Nat, Cardinality(Since(u, s)') > 0
      PROVE  s + Cardinality(Since(u, s)') * e <= Reach'
  <2> DEFINE n == Cardinality(Since(u, s))
  <2>1. n \in Nat /\ IsFiniteSet(Since(u, s))
    BY Counts
  <2>2. n > 0 => s + n * e <= Reach
    BY <1>3 DEF GcraFacts
  <2>3. n * e \in Nat /\ (n + 1) * e = n * e + e
    BY <1>1, <2>1, Product
  <2>4. CASE s <= c
    <3>1. Cardinality(Since(u, s)') = n + 1
      BY <1>4, <2>1, <2>4, FS_AddElement
    <3>2. n = 0 => n * e = 0
      BY <1>1
    <3> HIDE DEF n, e, c
    <3> QED
      BY <1>1, <1>2, <2>1, <2>2, <2>3, <2>4, <3>1, <3>2
  <2>5. CASE ~(s <= c)
    <3>1. Cardinality(Since(u, s)') = n
      BY <1>4, <2>5
    <3> HIDE DEF n, e, c
    <3> QED
      BY <1>1, <1>2, <1>5, <2>1, <2>2, <2>3, <3>1
  <2> QED
    BY <2>4, <2>5
<1>6. ASSUME NEW s \in Nat, NEW t \in Nat, s <= t, Cardinality(Within(u, s, t)') > 0
      PROVE  (Cardinality(Within(u, s, t)') - 1) * e <= t - s + Tolerance(u)
  <2> DEFINE n == Cardinality(Within(u, s, t))
             m == Cardinality(Since(u, s))
  <2>1. n \in Nat /\ m \in Nat /\ n <= m /\ IsFiniteSet(Within(u, s, t))
    BY Counts
  <2>2. CASE s <= c /\ c <= t
    <3>1. Cardinality(Within(u, s, t)') = n + 1
      <4>1. Within(u, s, t)' = Within(u, s, t) \cup {r} /\ r \notin Within(u, s, t)
        BY <1>4, <2>2
      <4> QED
        BY <2>1, <4>1, FS_AddElement
    <3>2. n * e <= m * e /\ n * e \in Nat /\ m * e \in Nat
      BY <1>1, <2>1, ProductGrows, Product
    <3>3. m > 0 => s + m * e <= Reach
      BY <1>3 DEF GcraFacts
    <3>4. m = 0 => m * e = 0
      BY <1>1
    <3>5. (n + 1) - 1 = n
      BY <2>1
    <3>6. n * e <= t - s + Tolerance(u)
      <4> HIDE DEF n, m, e, c
      <4> QED
        BY <1>1, <1>2, <1>6, <2>1, <2>2, <3>2, <3>3, <3>4
    <3> HIDE DEF n, m, e
    <3> QED
      BY <3>1, <3>5, <3>6
  <2>3. CASE ~(s <= c /\ c <= t)
    <3>1. Within(u, s, t)' = Within(u, s, t)
      BY <1>4, <2>3
    <3> QED
      BY <1>3, <1>6, <3>1 DEF GcraFacts
  <2> QED
    BY <2>2, <2>3
<1> QED
  BY <1>5, <1>6 DEF GcraFacts

\* A step in which nobody gets through keeps the invariant, if neither the
\* reach nor the time to live of the TAT shrinks.
LEMMA GcraQuiet ==
    ASSUME Typed, Typed', GcraInv, Strict => Nobody, Reach <= Reach', TatKept',
           jumbled \subseteq jumbled', UNCHANGED mode
    PROVE  GcraInv'
<1>1. Reach \in Nat /\ Reach' \in Nat
  BY ReachType, LimitAssumption DEF Typed, TypeOK, Reach
<1>2. ASSUME Strict', "outlived" \notin jumbled', NEW u \in Rules, u.algorithm = "gcra"
      PROVE  GcraFacts(u)'
  <2>1. Strict /\ "outlived" \notin jumbled /\ Nobody
    BY <1>2 DEF Strict
  <2>2. GcraFacts(u)
    BY <1>2, <2>1 DEF GcraInv
  <2> QED
    BY <1>1, <2>1, <2>2, GcraFactsKept
<1> QED
  BY <1>2 DEF GcraInv

\* The scripts of GCRA (gcraScript).
LEMMA GcraGcra ==
    ASSUME Typed, Typed', GcraInv, NEW r \in Request, Gcra(r)
    PROVE  GcraInv'
<1> DEFINE v == req[r].rule
           t == req[r].clock
<1>1. req[r].state = "sent" /\ v.algorithm = "gcra" /\ kind # "zset"
      /\ UNCHANGED <<now, mode, goneAt>> /\ jumbled \subseteq jumbled' /\ Ran(r, FALSE)
  BY RanTyped DEF Gcra
<1>2. /\ v \in Rules /\ t \in Time /\ t \in 1..now /\ now \in Nat /\ t \in Nat
      /\ Tolerance(v) \in Nat /\ Emission(v) \in Nat
  BY <1>1, Carried, RuleNumbers DEF Time
<1>3. CASE /\ ~GcraAllows(kind, tat, v, t) /\ Refused(r) /\ UNCHANGED <<kind, tat, expireAt>>
  <2>1. Strict => Nobody
    BY <1>1, <1>3, OthersStay
  <2>2. Reach' = Reach /\ Reach \in Nat /\ TatKept'
    BY <1>1, <1>3, ReachType DEF Reach, TatKept, GcraInv
  <2> QED
    BY <1>1, <2>1, <2>2, GcraQuiet
<1>4. CASE /\ GcraAllows(kind, tat, v, t) /\ kind' = "string"
           /\ tat' = NewTat(kind, tat, v, t) /\ Admitted(r)
           /\ expireAt' = now + GcraTtl(kind, tat, v, t)
  <2>1. NewTat(kind, tat, v, t) \in Nat
    BY <1>2, <1>4, TatMoves
  <2>2. TatKept'
    <3>1. expireAt' = now + (NewTat(kind, tat, v, t) - t + Tolerance(v))
      BY <1>4 DEF GcraTtl
    <3>2. tat' = NewTat(kind, tat, v, t)
      BY <1>4
    <3> HIDE DEF v, t
    <3>3. tat' <= expireAt'
      BY <1>2, <2>1, <3>1, <3>2
    <3> QED
      BY <3>3 DEF TatKept
  <2>3. ASSUME Strict', "outlived" \notin jumbled', NEW u \in Rules, u.algorithm = "gcra"
        PROVE  GcraFacts(u)'
    <3>1. "outlived" \notin jumbled /\ ~(t < goneAt)
      BY <1>1, <2>3 DEF Ran
    <3>2. goneAt <= t
      <4>1. goneAt \in Nat
        BY LimitAssumption DEF Typed, TypeOK
      <4> HIDE DEF t
      <4> QED
        BY <1>2, <3>1, <4>1
    <3>3. \A w \in Rules : w.algorithm = "gcra" => GcraFacts(w)
      BY <1>1, <2>3, <3>1 DEF GcraInv, Strict
    <3>4. CASE u = v /\ Answer(r, "passed")
      <4>1. GcraFacts(v)
        BY <1>1, <1>2, <3>3
      <4> QED
        BY <1>1, <1>2, <1>4, <3>2, <3>4, <4>1, GcraArrival
    <3>5. CASE Failed(r) \/ (u # v /\ Answer(r, "passed"))
      <4>n. Strict
        BY <1>1, <2>3 DEF Strict
      <4>0. ASSUME Failed(r)
            PROVE  /\ \A s : Since(u, s)' = Since(u, s)
                   /\ \A s, x : Within(u, s, x)' = Within(u, s, x)
        BY <1>1, <4>0, <4>n, OthersStay DEF Nobody
      <4>1. /\ \A s : Since(u, s)' = Since(u, s)
            /\ \A s, x : Within(u, s, x)' = Within(u, s, x)
        <5> SUFFICES ASSUME u # v, Answer(r, "passed")
                     PROVE  /\ \A s : Since(u, s)' = Since(u, s)
                            /\ \A s, x : Within(u, s, x)' = Within(u, s, x)
          BY <3>5, <4>0
        <5>1. /\ \A s : Since(u, s)' = IF req[r].rule = u /\ s <= req[r].clock
                                       THEN Since(u, s) \cup {r} ELSE Since(u, s)
              /\ \A s, x : Within(u, s, x)' =
                     IF req[r].rule = u /\ s <= req[r].clock /\ req[r].clock <= x
                     THEN Within(u, s, x) \cup {r} ELSE Within(u, s, x)
          BY <1>1, <1>4, GetsThrough
        <5> QED
          BY <5>1
      <4>2. /\ Reach \in Nat /\ Reach' \in Nat /\ Reach' >= Reach + Emission(v)
        BY <1>1, <1>2, <1>4, <3>2, ReachMoves
      <4>3. Reach <= Reach'
        <5> HIDE DEF v
        <5> QED
          BY <1>2, <4>2
      <4>4. ASSUME NEW s \in Nat, Cardinality(Since(u, s)) > 0
            PROVE  s + Cardinality(Since(u, s)) * Emission(u) <= Reach'
        <5>1. s + Cardinality(Since(u, s)) * Emission(u) <= Reach
          BY <2>3, <3>3, <4>4 DEF GcraFacts
        <5>2. Cardinality(Since(u, s)) * Emission(u) \in Nat
          BY Counts, RuleNumbers, Product
        <5> QED
          BY <4>2, <4>3, <5>1, <5>2
      <4>5. GcraFacts(u)
        BY <2>3, <3>3
      <4> QED
        BY <4>1, <4>4, <4>5 DEF GcraFacts
    <3> QED
      BY <1>4, <3>4, <3>5 DEF Admitted
  <2> QED
    BY <2>2, <2>3 DEF GcraInv
<1> QED
  BY <1>3, <1>4 DEF Gcra

\* The log does not touch the reach (slidingWindowScript).
LEMMA SlidingGcra ==
    ASSUME Typed, Typed', GcraInv, NEW r \in Request, NEW nano \in Nano, Sliding(r, nano)
    PROVE  GcraInv'
<1>1. /\ req[r].state = "sent" /\ req[r].rule.algorithm = "sliding_window_counter"
      /\ kind # "string" /\ kind' # "string" /\ UNCHANGED <<now, mode, goneAt>>
      /\ jumbled \subseteq jumbled'
  BY DEF Sliding, Ran
<1>2. Reach' = Reach /\ Reach \in Nat /\ TatKept'
  BY <1>1, ReachType DEF Reach, TatKept
<1>3. CASE Refused(r) \/ Failed(r)
  <2>1. Strict => Nobody
    BY <1>1, <1>3, OthersStay
  <2> QED
    BY <1>1, <1>2, <2>1, GcraQuiet
<1>4. CASE Answer(r, "passed")
  <2>1. ASSUME Strict', "outlived" \notin jumbled', NEW u \in Rules, u.algorithm = "gcra"
        PROVE  GcraFacts(u)'
    <3>1. GcraFacts(u)
      BY <1>1, <2>1 DEF GcraInv, Strict
    <3>2. req[r].rule # u
      BY <1>1, <2>1
    <3>3. /\ \A s : Since(u, s)' = IF req[r].rule = u /\ s <= req[r].clock
                                   THEN Since(u, s) \cup {r} ELSE Since(u, s)
          /\ \A s, x : Within(u, s, x)' =
                 IF req[r].rule = u /\ s <= req[r].clock /\ req[r].clock <= x
                 THEN Within(u, s, x) \cup {r} ELSE Within(u, s, x)
      BY <1>1, <1>4, GetsThrough
    <3>4. /\ \A s : Since(u, s)' = Since(u, s)
          /\ \A s, x : Within(u, s, x)' = Within(u, s, x)
      BY <3>2, <3>3
    <3> QED
      BY <1>2, <3>1, <3>4 DEF GcraFacts
  <2> QED
    BY <1>2, <2>1 DEF GcraInv
<1> QED
  BY <1>3, <1>4 DEF Sliding, Admitted

\* A key that goes leaves the reach where its TAT was, or later (EXPIRE).
LEMMA TickGcra ==
    ASSUME Typed, Typed', GcraInv, Tick
    PROVE  GcraInv'
<1>1. /\ UNCHANGED <<mode, req, jumbled>> /\ now' = now + 1 /\ now \in Nat
      /\ kind \in {"none", "zset", "string"} /\ tat \in Nat /\ expireAt \in Nat
      /\ goneAt \in Nat /\ goneAt <= now
  BY LimitAssumption DEF Tick, Typed, TypeOK, RedisFacts, Time
<1>2. Reach <= Reach' /\ TatKept'
  <2>1. CASE kind # "none" /\ expireAt <= now + 1
    <3>1. kind' = "none" /\ goneAt' = now + 1
      BY <2>1 DEF Tick
    <3>2. kind = "string" => tat <= expireAt
      BY DEF GcraInv, TatKept
    <3> QED
      BY <1>1, <2>1, <3>1, <3>2 DEF Reach, TatKept
  <2>2. CASE ~(kind # "none" /\ expireAt <= now + 1)
    <3>1. UNCHANGED <<kind, tat, expireAt, goneAt>>
      BY <2>2 DEF Tick, redis
    <3> QED
      BY <1>1, <3>1 DEF Reach, TatKept, GcraInv
  <2> QED
    BY <2>1, <2>2
<1> QED
  BY <1>1, <1>2, NobodyMoves, GcraQuiet

LEMMA NextGcra == Typed /\ Typed' /\ GcraInv /\ [Next]_vars => GcraInv'
<1> SUFFICES ASSUME Typed, Typed', GcraInv, [Next]_vars PROVE GcraInv'
  OBVIOUS
<1>1. ASSUME UNCHANGED <<mode, redis, history>>, Strict => Nobody PROVE GcraInv'
  <2>1. UNCHANGED <<kind, tat, expireAt, goneAt, jumbled, mode>>
    BY <1>1 DEF redis, history
  <2>2. Reach' = Reach /\ Reach \in Nat /\ TatKept'
    BY <2>1, ReachType DEF Reach, TatKept, GcraInv
  <2> QED
    BY <1>1, <2>1, <2>2, GcraQuiet
<1>2. ASSUME NEW r \in Request, NEW down \in BOOLEAN, Unlimited(r) \/ Send(r) \/ BackendError(r, down)
      PROVE  GcraInv'
  <2>1. UNCHANGED <<mode, redis, history>>
    BY <1>2 DEF Unlimited, Send, BackendError
  <2>2. Strict => Nobody
    BY <1>2, OthersStay
  <2> QED
    BY <1>1, <2>1, <2>2
<1>3. ASSUME UNCHANGED <<mode, redis, req, history>> PROVE GcraInv'
  BY <1>1, <1>3, NobodyMoves
<1>4. ASSUME NEW u \in Rules \cup {NoRule}, ChangeRule(u) PROVE GcraInv'
  BY <1>3, <1>4 DEF ChangeRule
<1>5. CASE UNCHANGED vars
  BY <1>3, <1>5 DEF vars
<1> QED
  BY <1>2, <1>4, <1>5, GcraGcra, SlidingGcra, TickGcra DEF Next

LEMMA InitGcra == Init => GcraInv
<1> SUFFICES ASSUME Init PROVE GcraInv
  OBVIOUS
<1>1. \A u, s, t : Since(u, s) = {} /\ Within(u, s, t) = {}
  BY DEF Init, Fresh, Since, Within, Through
<1>2. Cardinality({}) = 0
  BY FS_EmptySet
<1>3. \A u, s, t : Cardinality(Since(u, s)) = 0 /\ Cardinality(Within(u, s, t)) = 0
  BY <1>1, <1>2
<1>4. \A u \in Rules : GcraFacts(u)
  BY <1>3 DEF GcraFacts
<1> QED
  BY <1>4 DEF Init, GcraInv, TatKept

\* Of the requests a GCRA rule lets through in any span, each but the first
\* takes one emission of the time and the tolerance, whatever order the scripts
\* reach Redis in (gcraScript, RateLimit).
THEOREM GcraBoundHolds == Spec => []GcraBound
<1>1. Typed /\ GcraInv => GcraBound
  <2> SUFFICES ASSUME Typed, GcraInv, Enforced("gcra"), "outlived" \notin jumbled,
                      NEW s \in Time, NEW t \in Time, s <= t, PassedBetween(s, t) > 0
               PROVE  (PassedBetween(s, t) - 1) * Emission(rule) <= t - s + Tolerance(rule)
    BY DEF GcraBound
  <2>1. rule \in Rules /\ rule.algorithm = "gcra" /\ Strict
    BY DEF Enforced, Typed, TypeOK, Strict
  <2>2. GcraFacts(rule)
    BY <2>1 DEF GcraInv
  <2>3. PassedBetween(s, t) = Cardinality(Within(rule, s, t))
    BY DEF PassedBetween, Within, Through
  <2>4. s \in Nat /\ t \in Nat
    BY DEF Time
  <2> QED
    BY <2>2, <2>3, <2>4 DEF GcraFacts
<1> QED
  BY <1>1, InitTyped, NextTyped, InitGcra, NextGcra, PTL DEF Spec

-----------------------------------------------------------------------------
(* The sliding window.                                                     *)

\* Entries of the log from a score on.
Newer(s) == {m \in log : m[1] >= s}

\* Whoever got through since s has an entry of its own, if s is within a window
\* of the last script and of the last key; the key outlives the window of
\* whoever got through; and the bound itself.
WindowFacts(u) ==
    /\ \A s \in Int : s > latest - Window(u) /\ s > goneAt - Window(u) =>
           Cardinality(Since(u, s)) <= Cardinality(Newer(s))
    /\ kind = "zset" => \A s \in Int : s > expireAt - Window(u) => Since(u, s) = {}
    /\ \A t \in Time : Cardinality(Within(u, t - Window(u) + 1, t)) <= u.limit

Sliders == {u \in Rules : u.algorithm = "sliding_window_counter" /\ Window(u) > 0}

WindowInv == Strict /\ jumbled = {} => \A u \in Sliders \ cut : WindowFacts(u)

\* The numbers of a state.
LEMMA Numbers ==
    Typed => /\ now \in Nat /\ latest \in Nat /\ goneAt \in Nat /\ expireAt \in Nat
             /\ IsFiniteSet(log) /\ \A s : IsFiniteSet(Newer(s))
<1> SUFFICES ASSUME Typed
             PROVE  /\ now \in Nat /\ latest \in Nat /\ goneAt \in Nat /\ expireAt \in Nat
                    /\ IsFiniteSet(log) /\ \A s : IsFiniteSet(Newer(s))
  OBVIOUS
<1>1. now \in Nat /\ latest \in Nat /\ goneAt \in Nat /\ expireAt \in Nat /\ IsFiniteSet(log)
  BY LimitAssumption DEF Typed, TypeOK, RedisFacts, Time
<1>2. \A s : Newer(s) \subseteq log
  BY DEF Newer
<1> QED
  BY <1>1, <1>2, FinitePart

LEMMA NumbersNext ==
    Typed' => /\ latest' \in Nat /\ goneAt' \in Nat /\ expireAt' \in Nat
              /\ \A s : IsFiniteSet(Newer(s)')
<1> SUFFICES ASSUME Typed'
             PROVE  /\ latest' \in Nat /\ goneAt' \in Nat /\ expireAt' \in Nat
                    /\ \A s : IsFiniteSet(Newer(s)')
  OBVIOUS
<1>1. latest' \in Nat /\ goneAt' \in Nat /\ expireAt' \in Nat /\ IsFiniteSet(log')
  BY LimitAssumption DEF Typed, TypeOK, RedisFacts
<1>2. \A s : Newer(s)' \subseteq log'
  BY DEF Newer
<1> QED
  BY <1>1, <1>2, FinitePart

\* No clock is ahead of now.
LEMMA NobodyAhead ==
    ASSUME Typed, NEW u \in Rules, NEW s \in Int, s > now
    PROVE  Since(u, s) = {}
<1>1. \A d \in Request : Through(d, u) => req[d].clock \in 1..now
  BY LimitAssumption DEF Through, Typed, ReqFacts
<1>2. now \in Nat
  BY Numbers
<1> QED
  BY <1>1, <1>2 DEF Since

\* A step in which nobody gets through under u keeps its facts, if the entries
\* that count stay and the key lives long enough.
LEMMA WindowKept ==
    ASSUME Typed, Typed', NEW u \in Rules, WindowFacts(u),
           \A s : Since(u, s)' = Since(u, s),
           \A s, t : Within(u, s, t)' = Within(u, s, t),
           latest <= latest', goneAt <= goneAt',
           \A s \in Int : s > latest' - Window(u) /\ s > goneAt' - Window(u) =>
               Since(u, s) = {} \/ Newer(s) \subseteq Newer(s)',
           kind' = "zset" => \A s \in Int : s > expireAt' - Window(u) => Since(u, s) = {}
    PROVE  WindowFacts(u)'
<1>1. /\ latest \in Nat /\ goneAt \in Nat /\ latest' \in Nat /\ goneAt' \in Nat /\ Window(u) \in Nat
      /\ \A s : IsFiniteSet(Newer(s)) /\ IsFiniteSet(Newer(s)')
  <2>1. latest' \in Nat /\ goneAt' \in Nat /\ \A s : IsFiniteSet(Newer(s)')
    BY NumbersNext
  <2> QED
    BY <2>1, Numbers, RuleNumbers
<1>2. ASSUME NEW s \in Int, s > latest' - Window(u), s > goneAt' - Window(u)
      PROVE  Cardinality(Since(u, s)') <= Cardinality(Newer(s)')
  <2>1. Since(u, s)' = Since(u, s) /\ Cardinality(Since(u, s)) \in Nat
    BY Counts
  <2>2. s > latest - Window(u) /\ s > goneAt - Window(u)
    BY <1>1, <1>2
  <2>3. Cardinality(Since(u, s)) <= Cardinality(Newer(s))
    BY <2>2 DEF WindowFacts
  <2>4. CASE Since(u, s) = {}
    <3>1. Cardinality(Since(u, s)') = 0 /\ Cardinality(Newer(s)') \in Nat
      BY <1>1, <2>1, <2>4, FS_EmptySet, FS_CardinalityType
    <3> QED
      BY <3>1
  <2>5. CASE Newer(s) \subseteq Newer(s)'
    <3>1. /\ Cardinality(Newer(s)) <= Cardinality(Newer(s)')
          /\ Cardinality(Newer(s)) \in Nat /\ Cardinality(Newer(s)') \in Nat
      BY <1>1, <2>5, FinitePart
    <3> QED
      BY <2>1, <2>3, <3>1
  <2> QED
    BY <1>2, <2>4, <2>5
<1>3. \A t \in Time : Cardinality(Within(u, t - Window(u) + 1, t)') <= u.limit
  BY DEF WindowFacts
<1> QED
  BY <1>2, <1>3 DEF WindowFacts

\* The script of v prunes nothing that counts for u, or nobody got through
\* under u.
LEMMA PruneSpares ==
    ASSUME Typed, NEW u \in Rules, u \notin cut', NEW r \in Request, NEW x, Ran(r, x),
           req[r].state = "sent", req[r].rule.algorithm = "sliding_window_counter"
    PROVE  /\ Window(u) <= Window(req[r].rule) \/ \A s : Since(u, s) = {}
           /\ \A s \in Int : s > req[r].clock - Window(u) =>
                  Since(u, s) = {} \/ Newer(s) \subseteq Pruned(log, req[r].rule, req[r].clock)
<1> DEFINE v == req[r].rule
           t == req[r].clock
<1>1. /\ v \in Rules /\ Window(u) \in Nat /\ Window(v) \in Nat /\ t \in Nat
      /\ \A m \in log : m[1] \in Nat
  BY Carried, RuleNumbers DEF Time, Typed, TypeOK
<1>2. Window(u) <= Window(v) \/ \A s : Since(u, s) = {}
  <2>1. ~(Window(u) > Window(v)) \/ ~\E q \in Request : req[q].state = "passed" /\ req[q].rule = u
    BY DEF Ran
  <2>2. CASE ~(Window(u) > Window(v))
    <3> HIDE DEF v
    <3> QED
      BY <1>1, <2>2
  <2>3. CASE ~\E q \in Request : req[q].state = "passed" /\ req[q].rule = u
    BY <2>3 DEF Since, Through
  <2> QED
    BY <2>1, <2>2, <2>3
<1>3. ASSUME NEW s \in Int, s > t - Window(u), Window(u) <= Window(v), NEW m \in Newer(s)
      PROVE  m \in Pruned(log, v, t)
  <2>1. m \in log /\ m[1] >= s /\ m[1] \in Nat
    BY <1>1 DEF Newer
  <2>2. m[1] > t - Window(v)
    <3> HIDE DEF v, t
    <3> QED
      BY <1>1, <1>3, <2>1
  <2> QED
    BY <2>1, <2>2 DEF Pruned
<1> QED
  BY <1>2, <1>3

\* A script that refuses only prunes (slidingWindowScript).
LEMMA RefusedWindow ==
    ASSUME Typed, Typed', NEW u \in Rules, u \notin cut', WindowFacts(u), Nobody,
           NEW r \in Request, NEW x, Ran(r, x), req[r].state = "sent", UNCHANGED now,
           req[r].rule.algorithm = "sliding_window_counter",
           log' = Pruned(log, req[r].rule, req[r].clock), UNCHANGED <<kind, expireAt>>
    PROVE  WindowFacts(u)'
<1> DEFINE t == req[r].clock
<1>1. latest <= latest' /\ t <= latest' /\ goneAt' = goneAt /\ goneAt \in Nat /\ latest' \in Nat
      /\ t \in Nat /\ Window(u) \in Nat
  <2>1. latest' \in Nat
    BY NumbersNext
  <2> QED
    BY <2>1, RanTyped, Numbers, Carried, RuleNumbers DEF Time
<1>2. ASSUME NEW s \in Int, s > latest' - Window(u) PROVE Since(u, s) = {} \/ Newer(s) \subseteq Newer(s)'
  <2>1. s > t - Window(u)
    <3> HIDE DEF t
    <3> QED
      BY <1>1, <1>2
  <2>2. Since(u, s) = {} \/ Newer(s) \subseteq log'
    BY <2>1, PruneSpares
  <2> QED
    BY <2>2 DEF Newer
<1>3. \A s \in Int : kind' = "zset" /\ s > expireAt' - Window(u) => Since(u, s) = {}
  BY DEF WindowFacts
<1>4. /\ \A s : Since(u, s)' = Since(u, s)
      /\ \A s, y : Within(u, s, y)' = Within(u, s, y)
  BY DEF Nobody
<1>5. goneAt <= goneAt'
  BY <1>1
<1> HIDE DEF t
<1> QED
  BY <1>1, <1>2, <1>3, <1>4, <1>5, WindowKept

\* What a script that lets a request of u through does to what is counted for u.
LEMMA OwnWindow ==
    ASSUME Typed, Typed', NEW u \in Rules, Window(u) > 0, u \notin cut', WindowFacts(u), jumbled' = {},
           NEW r \in Request, NEW nano \in Nano, req[r].rule = u, req[r].state = "sent",
           u.algorithm = "sliding_window_counter", UNCHANGED now, Answer(r, "passed"),
           SlidingAllows(log, u, req[r].clock),
           log' = Pruned(log, u, req[r].clock) \cup {<<req[r].clock, nano>>},
           kind' = "zset", expireAt' = now + Window(u),
           Ran(r, <<req[r].clock, nano>> \in Pruned(log, u, req[r].clock))
    PROVE  WindowFacts(u)'
<1> DEFINE c == req[r].clock
           l == Pruned(log, u, c)
           e == <<c, nano>>
           w == Window(u)
<1>1. /\ c \in Nat /\ c \in Time /\ w \in Nat /\ latest \in Nat /\ goneAt \in Nat /\ now \in Nat
      /\ latest' \in Nat /\ latest' >= c /\ latest' >= latest /\ goneAt' = goneAt
      /\ \A m \in log : m[1] \in Nat
  BY RanTyped, Numbers, NumbersNext, Carried, RuleNumbers DEF Time, Typed, TypeOK
<1>2. latest <= c /\ goneAt <= c /\ e \notin l
  <2>1. ~(c < latest) /\ ~(c < goneAt) /\ e \notin l
    BY DEF Ran
  <2> HIDE DEF c, e, l
  <2> QED
    BY <1>1, <2>1
<1>3. /\ \A s : Since(u, s)' = IF s <= c THEN Since(u, s) \cup {r} ELSE Since(u, s)
      /\ \A s, t : Within(u, s, t)' = IF s <= c /\ c <= t
                                      THEN Within(u, s, t) \cup {r} ELSE Within(u, s, t)
      /\ \A s, t : r \notin Since(u, s) /\ r \notin Within(u, s, t)
  <2>1. /\ \A s : Since(u, s)' = IF req[r].rule = u /\ s <= req[r].clock
                                 THEN Since(u, s) \cup {r} ELSE Since(u, s)
        /\ \A s, t : Within(u, s, t)' =
               IF req[r].rule = u /\ s <= req[r].clock /\ req[r].clock <= t
               THEN Within(u, s, t) \cup {r} ELSE Within(u, s, t)
        /\ \A s, t : r \notin Since(u, s) /\ r \notin Within(u, s, t)
    BY GetsThrough
  <2>2. req[r].rule = u
    OBVIOUS
  <2> QED
    BY <2>1, <2>2, Zenon
<1>4. IsFiniteSet(l) /\ Cardinality(l) \in Nat /\ Cardinality(l) < u.limit /\ u.limit \in Nat
  <2>1. l \subseteq log
    BY DEF Pruned
  <2>2. IsFiniteSet(l) /\ Cardinality(l) \in Nat
    BY <2>1, Numbers, FinitePart
  <2> QED
    BY <2>2, RuleNumbers DEF SlidingAllows
<1>5. ASSUME NEW s \in Int, s > c - w
      PROVE  Newer(s) \subseteq l /\ Newer(s) \subseteq Newer(s)' /\ e \notin Newer(s)
             /\ (s <= c => Newer(s) \cup {e} \subseteq Newer(s)')
  <2>1. ASSUME NEW m \in Newer(s) PROVE m \in l
    <3>1. m \in log /\ m[1] >= s /\ m[1] \in Nat
      BY <1>1 DEF Newer
    <3>2. m[1] > c - w
      <4> HIDE DEF c, w
      <4> QED
        BY <1>1, <1>5, <3>1
    <3> QED
      BY <3>1, <3>2 DEF Pruned
  <2>2. Newer(s)' = {m \in l \cup {e} : m[1] >= s}
    BY DEF Newer
  <2>3. Newer(s) \subseteq Newer(s)'
    <3>1. \A m \in Newer(s) : m[1] >= s
      BY DEF Newer
    <3> HIDE DEF l, e
    <3> QED
      BY <2>1, <2>2, <3>1
  <2>4. s <= c => e \in Newer(s)'
    <3>1. e[1] = c
      OBVIOUS
    <3>2. s <= c => e[1] >= s
      <4> HIDE DEF c, e
      <4> QED
        BY <1>1, <3>1
    <3> HIDE DEF l, e, c
    <3> QED
      BY <2>2, <3>2
  <2> HIDE DEF l, e, c
  <2> QED
    BY <1>2, <2>1, <2>3, <2>4
<1>6. ASSUME NEW s \in Int, s > latest - w, s > goneAt - w
      PROVE  Cardinality(Since(u, s)) <= Cardinality(Newer(s))
  BY <1>6 DEF WindowFacts
<1>7. ASSUME NEW s \in Int, s > latest' - w, s > goneAt' - w
      PROVE  Cardinality(Since(u, s)') <= Cardinality(Newer(s)')
  <2>1. s > c - w /\ s > latest - w /\ s > goneAt - w
    <3>1. /\ c \in Nat /\ w \in Nat /\ latest \in Nat /\ latest' \in Nat /\ latest' >= c
          /\ latest' >= latest /\ s > latest' - w
      BY <1>1, <1>7
    <3>2. s > goneAt - w
      BY <1>1, <1>7
    <3> DEFINE a == latest
               b == latest'
    <3>3. a \in Nat /\ b \in Nat /\ a <= b /\ c <= b /\ s > b - w /\ w \in Nat /\ c \in Nat
      BY <3>1
    <3> HIDE DEF a, b, c, w, l, e
    <3>4. s > c - w /\ s > a - w
      BY <3>3
    <3> QED
      BY <3>2, <3>4 DEF a
  <2>2. /\ Newer(s) \subseteq Newer(s)' /\ e \notin Newer(s)
        /\ (s <= c => Newer(s) \cup {e} \subseteq Newer(s)')
    BY <1>5, <2>1
  <2>3. /\ IsFiniteSet(Since(u, s)) /\ Cardinality(Since(u, s)) \in Nat
        /\ IsFiniteSet(Newer(s)) /\ IsFiniteSet(Newer(s)')
    BY Counts, Numbers, NumbersNext
  <2>4. Cardinality(Newer(s)) \in Nat /\ Cardinality(Newer(s)') \in Nat
    BY <2>3, FS_CardinalityType
  <2>5. Cardinality(Since(u, s)) <= Cardinality(Newer(s))
    BY <1>6, <2>1
  <2>6. CASE s <= c
    <3>1. Since(u, s)' = Since(u, s) \cup {r} /\ r \notin Since(u, s)
      BY <1>3, <2>6
    <3>2. Cardinality(Since(u, s)') = Cardinality(Since(u, s)) + 1
      BY <2>3, <3>1, FS_AddElement
    <3> HIDE DEF e, c
    <3>3. IsFiniteSet(Newer(s) \cup {e}) /\ Cardinality(Newer(s) \cup {e}) = Cardinality(Newer(s)) + 1
      BY <2>2, <2>3, FS_AddElement
    <3>4. Cardinality(Newer(s) \cup {e}) <= Cardinality(Newer(s)')
      BY <2>2, <2>3, <2>6, FinitePart
    <3> QED
      BY <2>3, <2>4, <2>5, <3>2, <3>3, <3>4
  <2>7. CASE ~(s <= c)
    <3>1. Since(u, s)' = Since(u, s)
      BY <1>3, <2>7
    <3>2. Cardinality(Newer(s)) <= Cardinality(Newer(s)')
      BY <2>2, <2>3, FinitePart
    <3> QED
      BY <2>3, <2>4, <2>5, <3>1, <3>2
  <2> QED
    BY <2>6, <2>7
<1>8. ASSUME NEW s \in Int, s > expireAt' - w PROVE Since(u, s)' = {}
  <2>1. s > now
    <3>1. expireAt' = now + w
      OBVIOUS
    <3> HIDE DEF w
    <3> QED
      BY <1>1, <1>8, <3>1
  <2>2. ~(s <= c)
    <3>1. c <= now
      BY Carried
    <3> HIDE DEF c
    <3> QED
      BY <1>1, <2>1, <3>1
  <2> QED
    BY <1>3, <2>1, <2>2, NobodyAhead
<1>9. ASSUME NEW t \in Time PROVE Cardinality(Within(u, t - w + 1, t)') <= u.limit
  <2> DEFINE s == t - w + 1
  <2>1. t \in Nat /\ s \in Int
    BY <1>1 DEF Time
  <2>2. CASE s <= c /\ c <= t
    <3>1. s > c - w /\ s > latest - w /\ s > goneAt - w
      <4> HIDE DEF c, w
      <4> QED
        BY <1>1, <1>2, <2>1, <2>2
    <3>2. Newer(s) \subseteq l
      BY <1>5, <2>1, <3>1
    <3>3. Cardinality(Since(u, s)) <= Cardinality(Newer(s))
      BY <1>6, <2>1, <3>1
    <3>4. Within(u, s, t)' = Within(u, s, t) \cup {r} /\ r \notin Within(u, s, t)
      BY <1>3, <2>2
    <3> HIDE DEF s, l, c
    <3>5. Cardinality(Newer(s)) <= Cardinality(l) /\ Cardinality(Newer(s)) \in Nat
      BY <1>4, <3>2, FinitePart
    <3>6. /\ Cardinality(Within(u, s, t)) <= Cardinality(Since(u, s))
          /\ Cardinality(Within(u, s, t)) \in Nat /\ Cardinality(Since(u, s)) \in Nat
          /\ IsFiniteSet(Within(u, s, t))
      BY Counts
    <3>7. Cardinality(Within(u, s, t)') = Cardinality(Within(u, s, t)) + 1
      BY <3>4, <3>6, FS_AddElement
    <3>8. Cardinality(Within(u, s, t)') <= u.limit
      BY <1>4, <3>3, <3>5, <3>6, <3>7
    <3> QED
      BY <3>8 DEF s
  <2>3. CASE ~(s <= c /\ c <= t)
    <3>1. Within(u, s, t)' = Within(u, s, t)
      BY <1>3, <2>3
    <3> QED
      BY <3>1 DEF WindowFacts
  <2> QED
    BY <2>2, <2>3
<1> QED
  BY <1>7, <1>8, <1>9 DEF WindowFacts

\* What it does to what is counted for another rule.
LEMMA OtherWindow ==
    ASSUME Typed, Typed', NEW u \in Rules, u \notin cut', Window(u) > 0, WindowFacts(u),
           \A s : Since(u, s)' = Since(u, s),
           \A s, t : Within(u, s, t)' = Within(u, s, t),
           NEW r \in Request, NEW x, Ran(r, x), req[r].state = "sent", UNCHANGED now,
           req[r].rule.algorithm = "sliding_window_counter",
           \/ /\ Pruned(log, req[r].rule, req[r].clock) \subseteq log'
              /\ expireAt' = now + Window(req[r].rule)
           \/ Window(req[r].rule) = 0 /\ kind' = "none"
    PROVE  WindowFacts(u)'
<1> DEFINE t == req[r].clock
           v == req[r].rule
<1>1. /\ latest <= latest' /\ t <= latest' /\ goneAt' = goneAt /\ goneAt \in Nat /\ latest' \in Nat
      /\ t \in Nat /\ Window(u) \in Nat /\ v \in Rules /\ Window(v) \in Nat /\ now \in Nat
  BY RanTyped, Numbers, NumbersNext, Carried, RuleNumbers DEF Time
<1>2. Window(u) <= Window(v) \/ \A s : Since(u, s) = {}
  BY PruneSpares
<1>3. ASSUME NEW s \in Int, s > latest' - Window(u) PROVE Since(u, s) = {} \/ Newer(s) \subseteq Newer(s)'
  <2>1. s > t - Window(u)
    <3> HIDE DEF t
    <3> QED
      BY <1>1, <1>3
  <2>2. Since(u, s) = {} \/ Newer(s) \subseteq Pruned(log, v, t)
    BY <2>1, PruneSpares
  <2>3. CASE Pruned(log, v, t) \subseteq log'
    BY <2>2, <2>3 DEF Newer
  <2>4. CASE Window(v) = 0
    <3>1. ~(Window(u) <= Window(v))
      <4> HIDE DEF v
      <4> QED
        BY <1>1, <2>4
    <3> QED
      BY <1>2, <3>1
  <2> QED
    BY <2>3, <2>4
<1>4. ASSUME NEW s \in Int, kind' = "zset", s > expireAt' - Window(u) PROVE Since(u, s) = {}
  <2>1. CASE Window(u) <= Window(v)
    <3>1. expireAt' = now + Window(v)
      BY <1>4
    <3>2. s > now
      <4> HIDE DEF v
      <4> QED
        BY <1>1, <1>4, <2>1, <3>1
    <3> QED
      BY <3>2, NobodyAhead
  <2> QED
    BY <1>2, <2>1
<1>5. goneAt <= goneAt'
  BY <1>1
<1> HIDE DEF t, v
<1> QED
  BY <1>1, <1>3, <1>4, <1>5, WindowKept

\* Every outcome of slidingWindowScript.
LEMMA SlidingWindow ==
    ASSUME Typed, Typed', WindowInv, NEW r \in Request, NEW nano \in Nano, Sliding(r, nano)
    PROVE  WindowInv'
<1> SUFFICES ASSUME Strict', jumbled' = {}, NEW u \in Sliders, u \notin cut' PROVE WindowFacts(u)'
  BY DEF WindowInv
<1> DEFINE v == req[r].rule
           t == req[r].clock
<1>1. /\ req[r].state = "sent" /\ v.algorithm = "sliding_window_counter"
      /\ UNCHANGED <<now, mode>> /\ \E x : Ran(r, x)
  BY DEF Sliding
<1>2. Strict /\ jumbled = {} /\ u \notin cut
  <2>1. jumbled \subseteq jumbled' /\ cut \subseteq cut'
    BY <1>1, RanTyped
  <2> QED
    BY <1>1, <2>1 DEF Strict
<1>3. u \in Rules /\ u.algorithm = "sliding_window_counter" /\ Window(u) > 0 /\ WindowFacts(u)
  BY <1>2 DEF Sliders, WindowInv
<1>4. CASE ~SlidingAllows(log, v, t) /\ log' = Pruned(log, v, t) /\ Refused(r) /\ UNCHANGED <<kind, expireAt>>
  <2>1. Nobody
    BY <1>1, <1>2, <1>4, OthersStay
  <2> QED
    BY <1>1, <1>3, <1>4, <2>1, RefusedWindow
<1>5. ASSUME Failed(r) \/ (v # u /\ Answer(r, "passed"))
      PROVE  /\ \A s : Since(u, s)' = Since(u, s)
             /\ \A s, y : Within(u, s, y)' = Within(u, s, y)
  <2>1. CASE Failed(r)
    BY <1>1, <1>2, <1>3, <2>1, OthersStay DEF Nobody
  <2>2. CASE v # u /\ Answer(r, "passed")
    <3>1. /\ \A s : Since(u, s)' = IF req[r].rule = u /\ s <= req[r].clock
                                   THEN Since(u, s) \cup {r} ELSE Since(u, s)
          /\ \A s, y : Within(u, s, y)' =
                 IF req[r].rule = u /\ s <= req[r].clock /\ req[r].clock <= y
                 THEN Within(u, s, y) \cup {r} ELSE Within(u, s, y)
      BY <1>1, <1>3, <2>2, GetsThrough
    <3> QED
      BY <2>2, <3>1
  <2> QED
    BY <1>5, <2>1, <2>2
<1>6. CASE /\ SlidingAllows(log, v, t) /\ Window(v) > 0 /\ kind' = "zset"
           /\ log' = Pruned(log, v, t) \cup {<<t, nano>>} /\ expireAt' = SlidingExpiry(v)
           /\ Admitted(r) /\ Ran(r, <<t, nano>> \in Pruned(log, v, t))
  <2>1. expireAt' = now + Window(v)
    BY <1>6 DEF SlidingExpiry
  <2>2. CASE v = u /\ Answer(r, "passed")
    BY <1>1, <1>3, <1>6, <2>1, <2>2, OwnWindow
  <2>3. CASE Failed(r) \/ (v # u /\ Answer(r, "passed"))
    <3>1. Pruned(log, v, t) \subseteq log'
      BY <1>6
    <3> QED
      BY <1>1, <1>3, <1>5, <1>6, <2>1, <2>3, <3>1, OtherWindow
  <2> QED
    BY <1>6, <2>2, <2>3 DEF Admitted
<1>7. CASE Window(v) = 0 /\ kind' = "none" /\ Admitted(r)
  <2>1. Failed(r) \/ (v # u /\ Answer(r, "passed"))
    BY <1>3, <1>7 DEF Admitted
  <2> QED
    BY <1>1, <1>3, <1>5, <1>7, <2>1, OtherWindow
<1> QED
  BY <1>4, <1>6, <1>7 DEF Sliding

\* Steps that leave the log and the requests of sliding rules alone.
LEMMA LogStays ==
    ASSUME Typed, Typed', WindowInv, UNCHANGED <<mode, log, goneAt>>, latest <= latest',
           jumbled \subseteq jumbled', cut \subseteq cut',
           kind' = "zset" => UNCHANGED <<kind, expireAt>>,
           Strict => \A u \in Sliders : /\ \A s : Since(u, s)' = Since(u, s)
                                        /\ \A s, t : Within(u, s, t)' = Within(u, s, t)
    PROVE  WindowInv'
<1> SUFFICES ASSUME Strict', jumbled' = {}, NEW u \in Sliders, u \notin cut' PROVE WindowFacts(u)'
  BY DEF WindowInv
<1>1. Strict /\ jumbled = {} /\ u \notin cut /\ u \in Rules
  BY DEF Strict, Sliders
<1>2. WindowFacts(u)
  BY <1>1 DEF WindowInv
<1>3. goneAt <= goneAt'
  BY Numbers
<1>4. \A s : Newer(s)' = Newer(s)
  BY DEF Newer
<1>5. kind' = "zset" => \A s \in Int : s > expireAt' - Window(u) => Since(u, s) = {}
  BY <1>2 DEF WindowFacts
<1> QED
  BY <1>1, <1>2, <1>3, <1>4, <1>5, WindowKept

\* GCRA and the log never meet: a key has one type (gcraScript).
LEMMA GcraWindow ==
    ASSUME Typed, Typed', WindowInv, NEW r \in Request, Gcra(r)
    PROVE  WindowInv'
<1>1. /\ req[r].state = "sent" /\ req[r].rule.algorithm = "gcra" /\ kind # "zset" /\ kind' # "zset"
      /\ UNCHANGED <<now, mode, log, goneAt>> /\ Ran(r, FALSE)
  BY DEF Gcra, Ran
<1>2. latest <= latest' /\ jumbled \subseteq jumbled' /\ cut \subseteq cut'
  BY <1>1, RanTyped, Numbers, NumbersNext
<1>3. Strict => \A u \in Sliders : /\ \A s : Since(u, s)' = Since(u, s)
                                   /\ \A s, t : Within(u, s, t)' = Within(u, s, t)
  <2>1. CASE Refused(r) \/ Failed(r)
    <3>1. Strict => Nobody
      BY <1>1, <2>1, OthersStay
    <3> QED
      BY <3>1 DEF Nobody, Sliders
  <2>2. CASE Answer(r, "passed")
    <3> SUFFICES ASSUME NEW u \in Sliders
                 PROVE  /\ \A s : Since(u, s)' = Since(u, s)
                        /\ \A s, t : Within(u, s, t)' = Within(u, s, t)
      OBVIOUS
    <3>1. u \in Rules /\ req[r].rule # u
      BY <1>1 DEF Sliders
    <3>2. /\ \A s : Since(u, s)' = IF req[r].rule = u /\ s <= req[r].clock
                                   THEN Since(u, s) \cup {r} ELSE Since(u, s)
          /\ \A s, y : Within(u, s, y)' =
                 IF req[r].rule = u /\ s <= req[r].clock /\ req[r].clock <= y
                 THEN Within(u, s, y) \cup {r} ELSE Within(u, s, y)
      BY <1>1, <2>2, <3>1, GetsThrough
    <3> QED
      BY <3>1, <3>2
  <2> QED
    BY <2>1, <2>2 DEF Gcra, Admitted
<1> QED
  BY <1>1, <1>2, <1>3, LogStays

\* A key that goes takes only entries with it that no longer count (PEXPIRE).
LEMMA TickWindow ==
    ASSUME Typed, Typed', WindowInv, Tick
    PROVE  WindowInv'
<1>1. /\ UNCHANGED <<mode, req, jumbled, latest, cut>> /\ now' = now + 1 /\ now \in Nat
      /\ expireAt \in Nat /\ goneAt \in Nat /\ latest \in Nat /\ goneAt <= now
  BY Numbers DEF Tick, Typed, RedisFacts
<1>2. Nobody
  BY <1>1, NobodyMoves
<1>3. CASE kind # "none" /\ expireAt <= now + 1
  <2>1. kind' = "none" /\ goneAt' = now + 1
    BY <1>3 DEF Tick
  <2> SUFFICES ASSUME Strict', jumbled' = {}, NEW u \in Sliders, u \notin cut' PROVE WindowFacts(u)'
    BY DEF WindowInv
  <2>2. u \in Rules /\ WindowFacts(u) /\ Window(u) \in Nat
    BY <1>1, RuleNumbers DEF Sliders, WindowInv, Strict
  <2>3. ASSUME NEW s \in Int, s > goneAt' - Window(u)
        PROVE  Since(u, s) = {} \/ Newer(s) \subseteq Newer(s)'
    <3>1. CASE kind = "zset"
      <4>1. s > expireAt - Window(u)
        BY <1>1, <1>3, <2>1, <2>2, <2>3
      <4> QED
        BY <2>2, <3>1, <4>1 DEF WindowFacts
    <3>2. CASE kind # "zset"
      <4>1. log = {}
        BY <3>2 DEF Typed, RedisFacts
      <4> QED
        BY <4>1 DEF Newer
    <3> QED
      BY <3>1, <3>2
  <2>4. latest <= latest' /\ goneAt <= goneAt'
    BY <1>1, <2>1
  <2>5. /\ \A s : Since(u, s)' = Since(u, s)
        /\ \A s, t : Within(u, s, t)' = Within(u, s, t)
    BY <1>2, <2>2 DEF Nobody
  <2> QED
    BY <2>1, <2>2, <2>3, <2>4, <2>5, WindowKept
<1>4. CASE ~(kind # "none" /\ expireAt <= now + 1)
  <2>1. UNCHANGED <<kind, log, expireAt, goneAt>>
    BY <1>4 DEF Tick, redis
  <2>2. Strict => \A u \in Sliders : /\ \A s : Since(u, s)' = Since(u, s)
                                     /\ \A s, t : Within(u, s, t)' = Within(u, s, t)
    BY <1>2 DEF Nobody, Sliders
  <2>3. latest <= latest' /\ jumbled \subseteq jumbled' /\ cut \subseteq cut'
    BY <1>1
  <2> QED
    BY <1>1, <2>1, <2>2, <2>3, LogStays
<1> QED
  BY <1>3, <1>4

LEMMA NextWindow == Typed /\ Typed' /\ WindowInv /\ [Next]_vars => WindowInv'
<1> SUFFICES ASSUME Typed, Typed', WindowInv, [Next]_vars PROVE WindowInv'
  OBVIOUS
<1>1. ASSUME UNCHANGED <<mode, redis, history>>, Strict => Nobody PROVE WindowInv'
  <2>1. UNCHANGED <<kind, log, expireAt, latest, goneAt, jumbled, cut, mode>>
    BY <1>1 DEF redis, history
  <2>2. latest <= latest' /\ jumbled \subseteq jumbled' /\ cut \subseteq cut'
    BY <2>1, Numbers
  <2>3. Strict => \A u \in Sliders : /\ \A s : Since(u, s)' = Since(u, s)
                                     /\ \A s, t : Within(u, s, t)' = Within(u, s, t)
    BY <1>1 DEF Nobody, Sliders
  <2> QED
    BY <2>1, <2>2, <2>3, LogStays
<1>2. ASSUME NEW r \in Request, NEW down \in BOOLEAN, Unlimited(r) \/ Send(r) \/ BackendError(r, down)
      PROVE  WindowInv'
  <2>1. UNCHANGED <<mode, redis, history>>
    BY <1>2 DEF Unlimited, Send, BackendError
  <2>2. Strict => Nobody
    BY <1>2, OthersStay
  <2> QED
    BY <1>1, <2>1, <2>2
<1>3. ASSUME UNCHANGED <<mode, redis, req, history>> PROVE WindowInv'
  BY <1>1, <1>3, NobodyMoves
<1>4. ASSUME NEW u \in Rules \cup {NoRule}, ChangeRule(u) PROVE WindowInv'
  BY <1>3, <1>4 DEF ChangeRule
<1>5. CASE UNCHANGED vars
  BY <1>3, <1>5 DEF vars
<1> QED
  BY <1>2, <1>4, <1>5, GcraWindow, SlidingWindow, TickWindow DEF Next

LEMMA InitWindow == Init => WindowInv
<1> SUFFICES ASSUME Init PROVE WindowInv
  OBVIOUS
<1>1. \A u, s, t : Since(u, s) = {} /\ Within(u, s, t) = {}
  BY DEF Init, Fresh, Since, Within, Through
<1>2. \A s : Newer(s) = {}
  BY DEF Init, Newer
<1>3. \A u, s, t : /\ Cardinality(Since(u, s)) = 0 /\ Cardinality(Within(u, s, t)) = 0
                   /\ Cardinality(Newer(s)) = 0
  BY <1>1, <1>2, FS_EmptySet
<1>4. \A u \in Rules : WindowFacts(u)
  BY <1>1, <1>3, RuleNumbers DEF WindowFacts
<1> QED
  BY <1>4 DEF WindowInv, Sliders

\* No window holds more than limit requests that got through under a sliding
\* rule, while its scripts run in the order of their clocks, within the life of
\* the key and on a log that nobody cut shorter (slidingWindowScript, RateLimit).
THEOREM SlidingWindowBoundHolds == Spec => []SlidingWindowBound
<1>1. Typed /\ WindowInv => SlidingWindowBound
  <2> SUFFICES ASSUME Typed, WindowInv, Enforced("sliding_window_counter"), jumbled = {},
                      rule \notin cut, Window(rule) > 0, NEW t \in Time
               PROVE  PassedBetween(t - Window(rule) + 1, t) <= rule.limit
    BY DEF SlidingWindowBound
  <2>1. rule \in Rules /\ rule \in Sliders /\ Strict
    BY DEF Enforced, Typed, TypeOK, Strict, Sliders
  <2>2. WindowFacts(rule)
    BY <2>1 DEF WindowInv
  <2>3. PassedBetween(t - Window(rule) + 1, t) = Cardinality(Within(rule, t - Window(rule) + 1, t))
    BY DEF PassedBetween, Within, Through
  <2> QED
    BY <2>2, <2>3 DEF WindowFacts
<1> QED
  BY <1>1, InitTyped, NextTyped, InitWindow, NextWindow, PTL DEF Spec

=============================================================================
