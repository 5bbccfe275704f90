-------------------------- MODULE RefreshingProvider --------------------------
(***************************************************************************)
(* The cached limits matrix (infrastructure/ratelimit/provider.go).        *)
(*                                                                         *)
(* A matrix is the version of the source it was read from; EmptyMatrix is  *)
(* the Matrix{} a provider starts with when its first fetch fails.  Time   *)
(* appears as time.Since(fetchedAt), which matters up to the ttl only.     *)
(* fetchedAt is never zero once NewRefreshingProvider has returned, so the *)
(* IsZero branch of refresh belongs to Init.                               *)
(***************************************************************************)
EXTENDS Integers

CONSTANTS
    Goroutine,  \* goroutines that call RuleFor
    Nobody,     \* refreshMu is free
    TTL,        \* ttl
    MaxVersion  \* bound: versions of the source

EmptyMatrix == 0
NoMatrix == -1   \* fetch returned an error or a nil matrix
Version == 1..MaxVersion

ASSUME ProviderAssumption ==
    /\ Nobody \notin Goroutine
    /\ TTL \in Nat
    /\ MaxVersion \in Nat \ {0}

VARIABLES
    source,    \* version the source of truth has
    matrix,    \* p.matrix
    age,       \* time.Since(p.fetchedAt), at most TTL
    refreshMu, \* holder of p.refreshMu
    pc,        \* where each goroutine is
    fetched,   \* m of refresh, of each goroutine
    asOf       \* history: version of the source when a goroutine's call began

vars == <<source, matrix, age, refreshMu, pc, fetched, asOf>>

States == {"idle", "try", "fetch", "store", "unlock", "read"}

Goto(g, state) == pc' = [pc EXCEPT ![g] = state]

\* NewRefreshingProvider: nobody else has the provider while it fetches once.
Init ==
    /\ source = 1
    /\ matrix \in {EmptyMatrix, source}
    /\ age = 0
    /\ refreshMu = Nobody
    /\ pc = [g \in Goroutine |-> "idle"]
    /\ fetched = [g \in Goroutine |-> NoMatrix]
    /\ asOf = [g \in Goroutine |-> 1]

\* maybeRefresh: the read of fetchedAt under p.mu.
MaybeRefresh(g) ==
    /\ pc[g] = "idle"
    /\ \/ age >= TTL /\ Goto(g, "try")
       \/ age < TTL /\ Goto(g, "read")
    /\ asOf' = [asOf EXCEPT ![g] = source]
    /\ UNCHANGED <<source, matrix, age, refreshMu, fetched>>

\* refresh with Lock in place of TryLock.
LockAndWait(g) ==
    /\ pc[g] = "try"
    /\ refreshMu = Nobody
    /\ Goto(g, "fetch")
    /\ refreshMu' = g
    /\ UNCHANGED <<source, matrix, age, fetched, asOf>>
\* refresh: TryLock.
TryLock(g) ==
    /\ pc[g] = "try"
    /\ \/ refreshMu = Nobody /\ Goto(g, "fetch") /\ refreshMu' = g
       \/ refreshMu # Nobody /\ Goto(g, "read") /\ UNCHANGED refreshMu
    /\ UNCHANGED <<source, matrix, age, fetched, asOf>>

\* refresh: p.fetch returns what the source has.
FetchOk(g) ==
    /\ pc[g] = "fetch"
    /\ fetched' = [fetched EXCEPT ![g] = source]
    /\ Goto(g, "store")
    /\ UNCHANGED <<source, matrix, age, refreshMu, asOf>>

\* refresh: p.fetch returns an error or nil.
FetchFails(g) ==
    /\ pc[g] = "fetch"
    /\ fetched' = [fetched EXCEPT ![g] = NoMatrix]
    /\ Goto(g, "store")
    /\ UNCHANGED <<source, matrix, age, refreshMu, asOf>>

\* refresh that gives up the old matrix when the fetch fails.
KeptDropped(m) == IF m = NoMatrix THEN EmptyMatrix ELSE m
\* refresh that fills an empty matrix and never replaces one.
KeptFirst(m) == IF m = NoMatrix \/ matrix # EmptyMatrix THEN matrix ELSE m
\* refresh: the matrix after a fetch returned m.
Kept(m) == IF m = NoMatrix THEN matrix ELSE m

\* refresh: fetchedAt moves with a matrix only.
AgeAfter(m) == IF m = NoMatrix THEN age ELSE 0

\* refresh: matrix and fetchedAt, under p.mu.
Store(g) ==
    /\ pc[g] = "store"
    /\ matrix' = Kept(fetched[g])
    /\ age' = AgeAfter(fetched[g])
    /\ Goto(g, "unlock")
    /\ UNCHANGED <<source, refreshMu, fetched, asOf>>

\* refresh: an early return without the deferred unlock.
UnlockOnSuccess(g) ==
    /\ pc[g] = "unlock"
    /\ refreshMu' = IF fetched[g] = NoMatrix THEN refreshMu ELSE Nobody
    /\ Goto(g, "read")
    /\ UNCHANGED <<source, matrix, age, fetched, asOf>>
\* refresh: the deferred Unlock.
Unlock(g) ==
    /\ pc[g] = "unlock"
    /\ refreshMu' = Nobody
    /\ Goto(g, "read")
    /\ UNCHANGED <<source, matrix, age, fetched, asOf>>

\* RuleFor: the matrix is read under p.mu.
RuleFor(g) ==
    /\ pc[g] = "read"
    /\ Goto(g, "idle")
    /\ fetched' = [fetched EXCEPT ![g] = NoMatrix]
    /\ UNCHANGED <<source, matrix, age, refreshMu, asOf>>

\* The plans change in the source of truth.
SourceChanges ==
    /\ source < MaxVersion
    /\ source' = source + 1
    /\ UNCHANGED <<matrix, age, refreshMu, pc, fetched, asOf>>

\* Time passes.
Tick ==
    /\ age < TTL
    /\ age' = age + 1
    /\ UNCHANGED <<source, matrix, refreshMu, pc, fetched, asOf>>

Step(g) == TryLock(g) \/ Store(g) \/ Unlock(g) \/ RuleFor(g)

Next ==
    \/ \E g \in Goroutine : MaybeRefresh(g) \/ Step(g) \/ FetchOk(g) \/ FetchFails(g)
    \/ SourceChanges
    \/ Tick

Spec == Init /\ [][Next]_vars

\* The scheduler runs every goroutine, time passes, and requests keep coming.
FairSpec ==
    /\ Spec
    /\ \A g \in Goroutine : WF_vars(Step(g)) /\ WF_vars(MaybeRefresh(g))
    /\ WF_vars(Tick)

-----------------------------------------------------------------------------
(* Properties.                                                             *)

\* Every variable has its type.
TypeOK ==
    /\ source \in Version
    /\ matrix \in Version \cup {EmptyMatrix}
    /\ age \in 0..TTL
    /\ refreshMu \in Goroutine \cup {Nobody}
    /\ pc \in [Goroutine -> States]
    /\ fetched \in [Goroutine -> Version \cup {NoMatrix}]
    /\ asOf \in [Goroutine -> Version]

\* refresh is single-flight: whoever fetches, stores or unlocks holds refreshMu.
SingleFetch ==
    \A g \in Goroutine : pc[g] \in {"fetch", "store", "unlock"} <=> refreshMu = g

\* The limits never go back: no step replaces the matrix by an older one or by
\* the empty one, whatever fetches fail or answer late (refresh).
MatrixNeverRegresses == [][matrix' >= matrix]_vars

\* A call whose own fetch succeeded answers from a matrix no older than the
\* source was when the call began (RuleFor, refresh).
RefresherSeesItsFetch ==
    \A g \in Goroutine :
        pc[g] = "read" /\ fetched[g] # NoMatrix => matrix >= asOf[g]

\* A fetch that never returns holds up the goroutine that makes it and nobody
\* else: every other call returns (TryLock in refresh).
OnlyTheFetcherWaits ==
    \A g \in Goroutine : pc[g] # "idle" ~> pc[g] \in {"idle", "fetch"}

\* fetch returns, and not always with an error.
SourceAnswers ==
    \A g \in Goroutine : WF_vars(FetchOk(g) \/ FetchFails(g)) /\ SF_vars(FetchOk(g))

\* Once the source stays as it is and answers, the provider has its version for
\* good, even after failed fetches and late ones (maybeRefresh, refresh).
Converges ==
    SourceAnswers => \A v \in Version : <>[](source = v) => <>[](matrix = v)

=============================================================================
