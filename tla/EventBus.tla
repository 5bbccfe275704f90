------------------------------ MODULE EventBus ------------------------------
(***************************************************************************)
(* The event bus on the in-memory store: PublishUseCase and ConsumeUseCase *)
(* of eventbus/application/usecase.go and the polling goroutines of        *)
(* eventbus/worker/worker.go.                                              *)
(*                                                                         *)
(* A worker goroutine wakes up, polls each of its event types, runs the    *)
(* handlers of the events of the batch one after the other, and settles    *)
(* each one in the store.  Handlers take any time, so a lease can run out  *)
(* while its event is being handled.  Metrics are left out.                *)
(***************************************************************************)
EXTENDS MemoryStore, Sequences

CONSTANTS
    Worker,      \* the goroutines of Worker.Start
    NoEvent,     \* no event is being handled
    Types,       \* Config.EventTypes, in order
    Handler,     \* handlers
    HandlersOf,  \* the handlers subscribed to each type
    MaxRetries,  \* application Config.MaxRetries
    BatchSize,   \* the batch PollOnce asks for
    Batches,     \* the batches given to PublishBatch
    Ops          \* the store operations called from outside the bus

ASSUME BusAssumption ==
    /\ NoEvent \notin Id
    /\ Types \in Seq(Type)
    /\ HandlersOf \in [Type -> SUBSET Handler]
    /\ MaxRetries \in Nat /\ BatchSize \in Nat /\ BatchSize > 0
    /\ Batches \subseteq SUBSET Id
    /\ Ops \subseteq {"Close", "MoveToDLQ"}

VARIABLES
    pc,        \* where each worker goroutine is
    typeIx,    \* the index into Types of its poll cycle
    batch,     \* the events of its batch that it has not settled yet
    grabbed,   \* the Attempt of each event when it was polled
    lease,     \* time left of the lease of its batch
    current,   \* the event each goroutine is handling or about to settle
    failing,   \* whether the dispatch just made returned an error
    saving,    \* the events SaveBatch has still to save
    stopping,  \* Stop was called, or the worker's context ended
    published, \* the events that were published
    handledBy, \* history: the handlers that succeeded on each event
    failed,    \* history: failed deliveries of each event, up to MaxRetries
    buried,    \* history: events an operator moved to the DLQ
    overrun    \* history: the lease of a batch ran out before it was settled

workerVars == <<pc, typeIx, batch, grabbed, lease, current, failing>>
publishVars == <<saving, published>>
history == <<handledBy, failed, buried, overrun>>
vars == <<storeVars, workerVars, publishVars, stopping, history>>

Working == {"work", "handling", "settle"}

Init ==
    /\ StoreInit
    /\ pc = [w \in Worker |-> "waiting"]
    /\ typeIx = [w \in Worker |-> 1]
    /\ batch = [w \in Worker |-> {}]
    /\ grabbed = [w \in Worker |-> [i \in Id |-> 0]]
    /\ lease = [w \in Worker |-> 0]
    /\ current = [w \in Worker |-> NoEvent]
    /\ failing = [w \in Worker |-> FALSE]
    /\ saving = {}
    /\ stopping = FALSE
    /\ published = {}
    /\ handledBy = [i \in Id |-> {}]
    /\ failed = [i \in Id |-> 0]
    /\ buried = {}
    /\ overrun = FALSE

-----------------------------------------------------------------------------
(* Publishing.                                                             *)

\* Publish of a fresh event; on a closed store it fails and changes nothing.
Publish(i, delay) ==
    /\ i \notin published \cup saving
    /\ Save(i, delay)
    /\ published' = published \cup {i}
    /\ UNCHANGED <<workerVars, saving, stopping, history>>

\* PublishBatch enters SaveBatch with fresh events.
PublishBatch(S) ==
    /\ saving = {}
    /\ S # {} /\ S \cap published = {}
    /\ saving' = S
    /\ UNCHANGED <<storeVars, workerVars, published, stopping, history>>

\* SaveBatch: the next Save, each under its own lock; the first error ends
\* it, and what was saved before stays.
SaveNext(i, delay) ==
    /\ i \in saving
    /\ \/ /\ Save(i, delay)
          /\ saving' = saving \ {i}
          /\ published' = published \cup {i}
       \/ /\ closed
          /\ saving' = {}
          /\ UNCHANGED <<storeVars, published>>
    /\ UNCHANGED <<workerVars, stopping, history>>

-----------------------------------------------------------------------------
(* A worker goroutine.                                                     *)

\* loop: the poll interval is over.
Wake(w) ==
    /\ pc[w] = "waiting"
    /\ pc' = [pc EXCEPT ![w] = "poll"]
    /\ typeIx' = [typeIx EXCEPT ![w] = 1]
    /\ UNCHANGED <<storeVars, batch, grabbed, lease, current, failing, publishVars,
                   stopping, history>>

\* loop: the stop channel or the context ends the wait.
Exit(w) ==
    /\ pc[w] = "waiting"
    /\ stopping
    /\ pc' = [pc EXCEPT ![w] = "exited"]
    /\ UNCHANGED <<storeVars, typeIx, batch, grabbed, lease, current, failing, publishVars,
                   stopping, history>>

\* loop that goes back to sleep without looking at the stop channel first.
EndCycleDeaf(w) ==
    /\ pc[w] = "poll"
    /\ typeIx[w] > Len(Types)
    /\ pc' = [pc EXCEPT ![w] = "waiting"]
    /\ UNCHANGED <<storeVars, typeIx, batch, grabbed, lease, current, failing, publishVars,
                   stopping, history>>

\* loop: every type was polled; back to the select, where a stop that
\* already happened is the only case ready.
EndCycle(w) ==
    /\ pc[w] = "poll"
    /\ typeIx[w] > Len(Types)
    /\ pc' = [pc EXCEPT ![w] = IF stopping THEN "exited" ELSE "waiting"]
    /\ UNCHANGED <<storeVars, typeIx, batch, grabbed, lease, current, failing, publishVars,
                   stopping, history>>

\* PollOnce: the store is closed; the loop logs it and goes on.
PollFails(w) ==
    /\ pc[w] = "poll"
    /\ typeIx[w] <= Len(Types)
    /\ closed
    /\ typeIx' = [typeIx EXCEPT ![w] = @ + 1]
    /\ UNCHANGED <<storeVars, pc, batch, grabbed, lease, current, failing, publishVars,
                   stopping, history>>

\* PollOnce: poll one type; an empty batch ends it.
PollOnce(w, S) ==
    /\ pc[w] = "poll"
    /\ typeIx[w] <= Len(Types)
    /\ Poll(Types[typeIx[w]], BatchSize, S)
    /\ \/ /\ S = {}
          /\ typeIx' = [typeIx EXCEPT ![w] = @ + 1]
          /\ UNCHANGED <<pc, batch, grabbed, lease>>
       \/ /\ S # {}
          /\ batch' = [batch EXCEPT ![w] = S]
          /\ grabbed' = [grabbed EXCEPT ![w] = [i \in Id |-> IF i \in S THEN attempt[i] ELSE 0]]
          /\ lease' = [lease EXCEPT ![w] = Lease]
          /\ pc' = [pc EXCEPT ![w] = "work"]
          /\ UNCHANGED typeIx
    /\ UNCHANGED <<current, failing, publishVars, stopping, history>>

\* dispatch that reports only the last handler's error, so that a failure
\* followed by a success passes for a success.
DispatchErrLast(hs, F) == F = hs /\ F # {}
\* dispatch: every handler of the type runs; the first error is returned.
DispatchErr(hs, F) == F # {}

\* dispatch starts on the next event of the batch.  Poll sorts a batch by
\* OccurredAt, which publishers may set and a whole batch shares, and leaves
\* ties in any order: the next event may be any of them.
StartHandlers(w, i) ==
    /\ pc[w] = "work"
    /\ i \in batch[w]
    /\ current' = [current EXCEPT ![w] = i]
    /\ pc' = [pc EXCEPT ![w] = "handling"]
    /\ UNCHANGED <<storeVars, typeIx, batch, grabbed, lease, failing, publishVars, stopping,
                   history>>

\* dispatch ends, with the handlers in F failing.
EndHandlers(w, F) ==
    LET i == current[w]
        hs == HandlersOf[TypeOf[i]]
    IN
    /\ pc[w] = "handling"
    /\ F \subseteq hs
    /\ failing' = [failing EXCEPT ![w] = DispatchErr(hs, F)]
    /\ handledBy' = [handledBy EXCEPT ![i] = @ \cup (hs \ F)]
    /\ pc' = [pc EXCEPT ![w] = "settle"]
    /\ UNCHANGED <<storeVars, typeIx, batch, grabbed, lease, current, publishVars, stopping,
                   failed, buried, overrun>>

\* PollOnce moves on: to the rest of the batch, or to the next type.
Advance(w, rest) ==
    /\ batch' = [batch EXCEPT ![w] = rest]
    /\ IF rest # {}
       THEN pc' = [pc EXCEPT ![w] = "work"] /\ UNCHANGED <<typeIx, grabbed, lease>>
       ELSE /\ pc' = [pc EXCEPT ![w] = "poll"]
            /\ typeIx' = [typeIx EXCEPT ![w] = @ + 1]
            /\ grabbed' = [grabbed EXCEPT ![w] = [j \in Id |-> 0]]
            /\ lease' = [lease EXCEPT ![w] = 0]
    /\ current' = [current EXCEPT ![w] = NoEvent]
    /\ failing' = [failing EXCEPT ![w] = FALSE]

\* PollOnce, handlers succeeded: the event is acknowledged.
Ack(w, i) ==
    /\ pc[w] = "settle"
    /\ i = current[w]
    /\ ~failing[w]
    /\ MarkProcessed(i)
    /\ Advance(w, batch[w] \ {i})
    /\ UNCHANGED <<publishVars, stopping, history>>

\* PollOnce, the event is no longer there to acknowledge: the error returns
\* at once and the rest of the batch stays leased.
AckFails(w, i) ==
    /\ pc[w] = "settle"
    /\ i = current[w]
    /\ ~failing[w]
    /\ i \notin live
    /\ Advance(w, {})
    /\ UNCHANGED <<storeVars, publishVars, stopping, history>>

\* PollOnce without the count of the attempt just made.
NextAttemptStuck(a) == a
\* PollOnce: the attempt just made counts.
NextAttempt(a) == a + 1

\* PollOnce, a handler failed: retry or DLQ, as the store decides.
Nack(w, i) ==
    /\ pc[w] = "settle"
    /\ i = current[w]
    /\ failing[w]
    /\ \/ MarkFailed(i, NextAttempt(grabbed[w][i]), MaxRetries)
       \/ i \notin live /\ UNCHANGED storeVars
    /\ failed' = [failed EXCEPT ![i] = IF @ < MaxRetries THEN @ + 1 ELSE @]
    /\ Advance(w, batch[w] \ {i})
    /\ UNCHANGED <<publishVars, stopping, handledBy, buried, overrun>>

-----------------------------------------------------------------------------
(* Control.                                                                *)

\* Stop, or the end of the context given to Start.
Stop ==
    /\ ~stopping
    /\ stopping' = TRUE
    /\ UNCHANGED <<storeVars, workerVars, publishVars, history>>

\* Close, called by whoever owns the store.
CloseStore ==
    /\ "Close" \in Ops
    /\ ~closed
    /\ Close
    /\ UNCHANGED <<workerVars, publishVars, stopping, history>>

\* MoveToDLQ called from outside the bus, on an event that was published.
Bury(i) ==
    /\ "MoveToDLQ" \in Ops
    /\ i \in published \ dlq
    /\ MoveToDLQ(i)
    /\ buried' = buried \cup {i}
    /\ UNCHANGED <<workerVars, publishVars, stopping, handledBy, failed, overrun>>

Tick ==
    /\ Elapse
    /\ lease' = [w \in Worker |-> IF lease[w] > 0 THEN lease[w] - 1 ELSE 0]
    /\ overrun' = (overrun \/ \E w \in Worker : pc[w] \in Working /\ lease[w] <= 1)
    /\ UNCHANGED <<pc, typeIx, batch, grabbed, current, failing, publishVars, stopping,
                   handledBy, failed, buried>>

-----------------------------------------------------------------------------

WorkerStep(w) ==
    \/ Wake(w) \/ Exit(w) \/ EndCycle(w) \/ PollFails(w)
    \/ \E S \in SUBSET Id : PollOnce(w, S)
    \/ \E F \in SUBSET Handler : EndHandlers(w, F)
    \/ \E i \in Id : StartHandlers(w, i) \/ Ack(w, i) \/ AckFails(w, i) \/ Nack(w, i)

PublisherStep ==
    \/ \E i \in Id, delay \in Delays : Publish(i, delay) \/ SaveNext(i, delay)
    \/ \E S \in Batches : PublishBatch(S)

Next ==
    \/ \E w \in Worker : WorkerStep(w)
    \/ PublisherStep
    \/ Stop \/ CloseStore \/ Tick
    \/ \E i \in Id : Bury(i)

Spec == Init /\ [][Next]_vars

\* Time passes, timers fire, handlers return.
FairSpec == Spec /\ WF_vars(Tick) /\ \A w \in Worker : WF_vars(WorkerStep(w))

-----------------------------------------------------------------------------
(* Properties.                                                             *)

\* Every variable has its type, only working goroutines hold events, and the
\* event one is handling is of its batch.
TypeOK ==
    /\ StoreTypeOK
    /\ pc \in [Worker -> {"waiting", "poll", "exited"} \cup Working]
    /\ typeIx \in [Worker -> Nat]
    /\ batch \in [Worker -> SUBSET Id]
    /\ grabbed \in [Worker -> [Id -> Nat]]
    /\ lease \in [Worker -> Nat]
    /\ current \in [Worker -> Id \cup {NoEvent}]
    /\ failing \in [Worker -> BOOLEAN]
    /\ saving \subseteq Id
    /\ stopping \in BOOLEAN
    /\ published \subseteq Id
    /\ handledBy \in [Id -> SUBSET Handler]
    /\ failed \in [Id -> 0..MaxRetries]
    /\ buried \subseteq Id
    /\ overrun \in BOOLEAN
    /\ \A w \in Worker : batch[w] # {} <=> pc[w] \in Working
    /\ \A w \in Worker : pc[w] \in {"handling", "settle"} => current[w] \in batch[w]

\* An event that was published is in the store, in the DLQ, or every handler
\* of its type has succeeded on it: nothing is acknowledged unhandled, and an
\* exhausted event is never dropped (PollOnce, MarkFailed).
NothingLost ==
    \A i \in published :
        i \in live \/ i \in dlq \/ HandlersOf[TypeOf[i]] \subseteq handledBy[i]

\* The consumer buries an event only after MaxRetries failed deliveries,
\* however leases expire and stale results arrive.
NoPrematureDLQ ==
    /\ \A i \in live : attempt[i] <= failed[i]
    /\ \A i \in dlq \ buried : failed[i] >= MaxRetries

\* Every published event is accounted for: it is still stored, all of its
\* handlers succeeded, or it is in the DLQ after as many failures as the limit
\* says (PollOnce, MarkFailed).
Accounted == NothingLost /\ NoPrematureDLQ

\* As long as every batch is settled within its lease, an event is in the
\* hands of at most one goroutine and Attempt counts its failed deliveries
\* exactly (Poll, MarkFailed).
ExclusiveDelivery ==
    ~overrun =>
        /\ \A v, w \in Worker : v # w => batch[v] \cap batch[w] = {}
        /\ \A i \in live : attempt[i] = failed[i]

\* Every published event is eventually acknowledged or buried, as long as
\* the bus runs: not even an acknowledgement error, which leaves the rest of
\* its batch leased, or an expired lease strands one.
EventuallySettled ==
    \A i \in Id : (i \in live) ~> (i \notin live \/ stopping \/ closed)

\* Stop returns: every goroutine ends once it was asked to.
StopReturns == stopping ~> \A w \in Worker : pc[w] = "exited"

\* "must respect ... ownership/lease": an event is handed to a goroutine only
\* if no other goroutine holds an unexpired lease on it.
LeaseExclusive ==
    [][\A v, w \in Worker : \A i \in batch'[w] \ batch[w] :
        v # w /\ i \in batch[v] => lease[v] = 0]_vars

-----------------------------------------------------------------------------
(* The bus implements the at-least-once channel.  What is hidden: types,   *)
(* batches and their order, visibility and leases, Attempt, closing, and   *)
(* who holds an event.                                                     *)

\* The events in the hands of worker goroutines.
InHand == UNION {batch[w] : w \in Worker}

Channel == INSTANCE AtLeastOnce WITH
    Subscribers <- [i \in Id |-> HandlersOf[TypeOf[i]]],
    offered <- published,
    pending <- live,
    out <- InHand,
    handled <- handledBy,
    refused <- failed,
    dead <- dlq

\* Whatever leases run out and whatever stale results arrive, an event that
\* was acknowledged or buried is never pending again and no new delivery of it
\* starts; it is acknowledged only by a holder and after all of its handlers
\* succeeded, and the bus itself buries it only in a delivery that failed, and
\* not before MaxRetries of them did (PollOnce, MarkProcessed, MarkFailed).
ImplementsAtLeastOnce == Channel!ChannelSpec

=============================================================================
