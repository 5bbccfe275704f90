----------------------------- MODULE MemoryStore -----------------------------
(***************************************************************************)
(* The in-memory event store of eventbus/infrastructure/memory/store.go.   *)
(*                                                                         *)
(* Every operation runs under the store's mutex, so each is one action; an *)
(* operation that returns an error changes nothing.  Times are kept as the *)
(* time left: visibleIn[i] is how long event i stays hidden, and Elapse    *)
(* lets one unit of time pass.  An event is its ID; payload, error text    *)
(* and ordering metadata other than the age are left out.                  *)
(***************************************************************************)
EXTENDS Integers, FiniteSets

CONSTANTS
    Id,            \* event IDs
    Type,          \* event types
    TypeOf,        \* the type of each event
    Delays,        \* how far in the future DelayedUntil may lie (0: not delayed)
    Lease,         \* the visibility window Poll grants
    InitialDelay,  \* DefaultRetryPolicy().InitialDelay
    MaxDelay,      \* DefaultRetryPolicy().MaxDelay
    PolicyAttempts \* DefaultRetryPolicy().MaxAttempts

ASSUME StoreAssumption ==
    /\ IsFiniteSet(Id) /\ TypeOf \in [Id -> Type]
    /\ Delays \subseteq Nat
    /\ Lease \in Nat /\ Lease > 0 /\ InitialDelay \in Nat /\ MaxDelay \in Nat
    /\ PolicyAttempts \in Nat /\ PolicyAttempts > 0

VARIABLES
    live,      \* the IDs in s.events
    visibleIn, \* time until each live event is visible
    attempt,   \* DomainEvent.Attempt of each live event
    dlq,       \* the IDs in s.dlq
    closed     \* Store.closed

storeVars == <<live, visibleIn, attempt, dlq, closed>>

StoreTypeOK ==
    /\ live \subseteq Id
    /\ visibleIn \in [Id -> Nat]
    /\ attempt \in [Id -> Nat]
    /\ dlq \subseteq Id
    /\ closed \in BOOLEAN

StoreInit ==
    /\ live = {}
    /\ visibleIn = [i \in Id |-> 0]
    /\ attempt = [i \in Id |-> 0]
    /\ dlq = {}
    /\ closed = FALSE

-----------------------------------------------------------------------------

\* pow, with the policy's BackoffFactor of 2.
pow[n \in Nat] == IF n = 0 THEN 1 ELSE 2 * pow[n - 1]

\* ComputeDelay: attempts below 1 or beyond the policy count as its ends.
Clamp(a) == IF a < 1 THEN 1 ELSE IF a > PolicyAttempts THEN PolicyAttempts ELSE a

\* ComputeDelay: exponential, capped, plus a jitter below a tenth of it.
ComputeDelay(a) ==
    LET raw == InitialDelay * pow[Clamp(a) - 1]
        factor == IF raw > MaxDelay THEN MaxDelay ELSE raw
    IN  {d \in 0..(2 * MaxDelay) : factor <= d /\ (d = factor \/ d < factor + factor \div 10)}

\* Save, on an open store: a new event, or the same ID replaced.
Save(i, delay) ==
    /\ ~closed
    /\ live' = live \cup {i}
    /\ visibleIn' = [visibleIn EXCEPT ![i] = delay]
    /\ attempt' = [attempt EXCEPT ![i] = 0]
    /\ UNCHANGED <<dlq, closed>>

\* Poll that forgets to lease what it returns.
PollNoLease(type, size, S) ==
    /\ ~closed
    /\ LET V == {i \in live : TypeOf[i] = type /\ visibleIn[i] = 0}
       IN  S \subseteq V /\ Cardinality(S) = IF Cardinality(V) < size THEN Cardinality(V) ELSE size
    /\ UNCHANGED storeVars

\* Poll: up to size visible events of a type, whichever the map yields first,
\* each hidden for Lease.
Poll(type, size, S) ==
    /\ ~closed
    /\ LET V == {i \in live : TypeOf[i] = type /\ visibleIn[i] = 0}
       IN  S \subseteq V /\ Cardinality(S) = IF Cardinality(V) < size THEN Cardinality(V) ELSE size
    /\ visibleIn' = [i \in Id |-> IF i \in S THEN Lease ELSE visibleIn[i]]
    /\ UNCHANGED <<live, attempt, dlq, closed>>

\* delete(s.events, i): the entry goes with its metadata.
Delete(i) ==
    /\ live' = live \ {i}
    /\ visibleIn' = [visibleIn EXCEPT ![i] = 0]
    /\ attempt' = [attempt EXCEPT ![i] = 0]

\* MarkProcessed, when the event is there.
MarkProcessed(i) ==
    /\ i \in live
    /\ Delete(i)
    /\ UNCHANGED <<dlq, closed>>

\* MarkFailed below the limit: hidden again for the backoff.
Requeue(i, a) ==
    /\ attempt' = [attempt EXCEPT ![i] = a]
    /\ \E d \in ComputeDelay(a) : visibleIn' = [visibleIn EXCEPT ![i] = d]
    /\ UNCHANGED <<live, dlq>>

\* moveToDLQLocked: taken out of the events if it is there, buried in any case.
MoveToDLQ(i) ==
    /\ IF i \in live THEN Delete(i) ELSE UNCHANGED <<live, visibleIn, attempt>>
    /\ dlq' = dlq \cup {i}
    /\ UNCHANGED closed

\* MarkFailed that gives up one attempt early.
MarkFailedEarly(i, a, max) ==
    /\ i \in live
    /\ \/ a + 1 >= max /\ MoveToDLQ(i)
       \/ a + 1 < max /\ Requeue(i, a) /\ UNCHANGED closed

\* MarkFailed that writes the event back without looking whether it is still
\* there.
MarkFailedBlind(i, a, max) ==
    \/ a >= max /\ MoveToDLQ(i)
    \/ a < max /\ live' = live \cup {i} /\ visibleIn' = [visibleIn EXCEPT ![i] = 0]
               /\ attempt' = [attempt EXCEPT ![i] = a] /\ UNCHANGED <<dlq, closed>>

\* MarkFailed, when the event is there: bury it after max attempts, else hide
\* it for the backoff.  Whoever holds the event now is not looked at.
MarkFailed(i, a, max) ==
    /\ i \in live
    /\ \/ a >= max /\ MoveToDLQ(i)
       \/ a < max /\ Requeue(i, a) /\ UNCHANGED closed

Close ==
    /\ closed' = TRUE
    /\ UNCHANGED <<live, visibleIn, attempt, dlq>>

\* One unit of time passes.
Elapse ==
    /\ visibleIn' = [i \in Id |-> IF visibleIn[i] > 0 THEN visibleIn[i] - 1 ELSE 0]
    /\ UNCHANGED <<live, attempt, dlq, closed>>

=============================================================================
