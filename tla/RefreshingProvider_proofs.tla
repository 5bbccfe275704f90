----------------------- MODULE RefreshingProvider_proofs -----------------------
(***************************************************************************)
(* The safety of RefreshingProvider for any number of goroutines, any ttl  *)
(* and any number of versions.                                             *)
(*                                                                         *)
(* That the matrix never goes back is not inductive: a goroutine about to  *)
(* store must hold a version no older than the matrix, which lasts only    *)
(* because nobody else can store meanwhile (SingleFetch), and because a    *)
(* fetch reads the source, which is never behind the matrix.               *)
(***************************************************************************)
EXTENDS RefreshingProvider, TLAPS

\* Nothing is newer than the source.
NotAhead ==
    /\ matrix <= source
    /\ \A g \in Goroutine : fetched[g] <= source /\ asOf[g] <= source

\* A result exists from the end of the fetch to the end of the call, and it is
\* no older than the source was when the call began.
ResultFresh ==
    \A g \in Goroutine : fetched[g] # NoMatrix =>
        pc[g] \in {"store", "unlock", "read"} /\ fetched[g] >= asOf[g]

\* A result about to be stored is no older than the matrix.
ResultNewer ==
    \A g \in Goroutine :
        pc[g] = "store" /\ fetched[g] # NoMatrix => fetched[g] >= matrix

\* A result that was stored is not newer than the matrix.
ResultStored ==
    \A g \in Goroutine :
        pc[g] \in {"unlock", "read"} /\ fetched[g] # NoMatrix => matrix >= asOf[g]

IInv == TypeOK /\ SingleFetch /\ NotAhead /\ ResultFresh /\ ResultNewer /\ ResultStored

-----------------------------------------------------------------------------

\* A newly built provider satisfies the invariant (NewRefreshingProvider).
LEMMA InitInv == Init => IInv
  BY ProviderAssumption
  DEF Init, IInv, TypeOK, SingleFetch, NotAhead, ResultFresh, ResultNewer, ResultStored,
      Version, States, EmptyMatrix, NoMatrix

\* Every step of the provider keeps types and the lock (maybeRefresh, refresh,
\* RuleFor).
LEMMA StepTyped == TypeOK /\ SingleFetch /\ [Next]_vars => TypeOK' /\ SingleFetch'
<1> SUFFICES ASSUME TypeOK, SingleFetch, [Next]_vars
             PROVE  TypeOK' /\ SingleFetch'
  OBVIOUS
<1> USE ProviderAssumption DEF TypeOK, SingleFetch, Goto, Version, EmptyMatrix, NoMatrix, States
<1>1. ASSUME NEW g \in Goroutine, MaybeRefresh(g) PROVE TypeOK' /\ SingleFetch'
  BY <1>1 DEF MaybeRefresh
<1>2. ASSUME NEW g \in Goroutine, TryLock(g) PROVE TypeOK' /\ SingleFetch'
  BY <1>2 DEF TryLock
<1>3. ASSUME NEW g \in Goroutine, FetchOk(g) PROVE TypeOK' /\ SingleFetch'
  BY <1>3 DEF FetchOk
<1>4. ASSUME NEW g \in Goroutine, FetchFails(g) PROVE TypeOK' /\ SingleFetch'
  BY <1>4 DEF FetchFails
<1>5. ASSUME NEW g \in Goroutine, Store(g) PROVE TypeOK' /\ SingleFetch'
  BY <1>5 DEF Store, Kept, AgeAfter
<1>6. ASSUME NEW g \in Goroutine, Unlock(g) PROVE TypeOK' /\ SingleFetch'
  BY <1>6 DEF Unlock
<1>7. ASSUME NEW g \in Goroutine, RuleFor(g) PROVE TypeOK' /\ SingleFetch'
  BY <1>7 DEF RuleFor
<1>8. CASE SourceChanges
  BY <1>8 DEF SourceChanges
<1>9. CASE Tick
  BY <1>9 DEF Tick
<1>10. CASE UNCHANGED vars
  BY <1>10 DEF vars
<1> QED
  BY <1>1, <1>2, <1>3, <1>4, <1>5, <1>6, <1>7, <1>8, <1>9, <1>10 DEF Next, Step

\* Every step of the provider keeps the order of versions (maybeRefresh,
\* refresh, RuleFor).
LEMMA StepOrdered ==
    IInv /\ [Next]_vars => NotAhead' /\ ResultFresh' /\ ResultNewer' /\ ResultStored'
<1> DEFINE Goal == NotAhead /\ ResultFresh /\ ResultNewer /\ ResultStored
<1> SUFFICES ASSUME IInv, [Next]_vars
             PROVE  Goal'
  OBVIOUS
<1> USE ProviderAssumption DEF IInv, TypeOK, SingleFetch, NotAhead, ResultFresh, ResultNewer,
        ResultStored, Goto, Version, EmptyMatrix, NoMatrix, States
<1>1. ASSUME NEW g \in Goroutine, MaybeRefresh(g) PROVE Goal'
  BY <1>1 DEF MaybeRefresh
<1>2. ASSUME NEW g \in Goroutine, TryLock(g) PROVE Goal'
  BY <1>2 DEF TryLock
<1>3. ASSUME NEW g \in Goroutine, FetchOk(g) PROVE Goal'
  BY <1>3 DEF FetchOk
<1>4. ASSUME NEW g \in Goroutine, FetchFails(g) PROVE Goal'
  BY <1>4 DEF FetchFails
<1>5. ASSUME NEW g \in Goroutine, Store(g) PROVE Goal'
  BY <1>5 DEF Store, Kept
<1>6. ASSUME NEW g \in Goroutine, Unlock(g) PROVE Goal'
  BY <1>6 DEF Unlock
<1>7. ASSUME NEW g \in Goroutine, RuleFor(g) PROVE Goal'
  BY <1>7 DEF RuleFor
<1>8. CASE SourceChanges
  BY <1>8 DEF SourceChanges
<1>9. CASE Tick
  BY <1>9 DEF Tick
<1>10. CASE UNCHANGED vars
  BY <1>10 DEF vars
<1> QED
  BY <1>1, <1>2, <1>3, <1>4, <1>5, <1>6, <1>7, <1>8, <1>9, <1>10 DEF Next, Step

\* The invariant holds throughout (NewRefreshingProvider, RuleFor).
THEOREM Invariant == Spec => []IInv
<1>1. IInv /\ [Next]_vars => IInv'
  BY StepTyped, StepOrdered DEF IInv
<1> QED
  BY InitInv, <1>1, PTL DEF Spec

\* refresh is single-flight.
THEOREM SingleFetchHolds == Spec => []SingleFetch
<1>1. IInv => SingleFetch
  BY DEF IInv
<1> QED
  BY Invariant, <1>1, PTL

\* A call whose own fetch succeeded answers from a matrix no older than the
\* source was when the call began (RuleFor, refresh).
THEOREM RefresherSeesItsFetchHolds == Spec => []RefresherSeesItsFetch
<1>1. IInv => RefresherSeesItsFetch
  BY DEF IInv, ResultStored, RefresherSeesItsFetch
<1> QED
  BY Invariant, <1>1, PTL

\* No step, of any number of goroutines, replaces the matrix by an older one
\* (refresh).
THEOREM MatrixNeverRegressesHolds == Spec => MatrixNeverRegresses
<1>1. IInv /\ [Next]_vars => [matrix' >= matrix]_vars
  <2> SUFFICES ASSUME IInv, Next
               PROVE  matrix' >= matrix
    OBVIOUS
  <2>1. matrix \in Int
    BY ProviderAssumption DEF IInv, TypeOK, Version, EmptyMatrix
  <2>2. ASSUME NEW g \in Goroutine, Store(g) PROVE matrix' >= matrix
    BY <2>1, <2>2 DEF Store, Kept, IInv, ResultNewer
  <2>3. ASSUME UNCHANGED matrix PROVE matrix' >= matrix
    BY <2>1, <2>3
  <2> QED
    BY <2>2, <2>3 DEF Next, Step, MaybeRefresh, TryLock, FetchOk, FetchFails, Unlock,
                      RuleFor, SourceChanges, Tick
<1> QED
  BY Invariant, <1>1, PTL DEF Spec, MatrixNeverRegresses

=============================================================================
