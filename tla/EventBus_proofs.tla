--------------------------- MODULE EventBus_proofs ---------------------------
(***************************************************************************)
(* The safety of the event bus for every number of workers, events, types  *)
(* and handlers, every lease, backoff and retry limit, and the proof that  *)
(* it implements the at-least-once channel.                                *)
(*                                                                         *)
(* Neither Accounted nor ExclusiveDelivery is inductive. What is missing:  *)
(* a dispatch without an error has run every handler on the event that is  *)
(* about to be settled; the Attempt a worker took with an event never      *)
(* exceeds the failures of that event; and while no lease was overrun, an  *)
(* event in the hands of a worker stays hidden at least as long as the     *)
(* lease of its batch.                                                     *)
(***************************************************************************)
EXTENDS EventBus, TLAPS

\* Events are published before they are stored or held, and only once.
OnlyPublished ==
    /\ live \subseteq published
    /\ \A w \in Worker : batch[w] \subseteq published
    /\ saving \cap published = {}
    /\ \A i \in Id : i \notin published => failed[i] = 0

\* An event about to be acknowledged was handled by every handler.
Handled ==
    \A w \in Worker :
        pc[w] = "settle" /\ ~failing[w] => HandlersOf[TypeOf[current[w]]] \subseteq handledBy[current[w]]

\* A worker never knows of more attempts than there were failures.
Counted == \A w \in Worker : \A i \in batch[w] : grabbed[w][i] <= failed[i]

\* What a worker holds is hidden for as long as its lease lasts.
Hidden(w) ==
    pc[w] \in Working =>
        /\ lease[w] > 0
        /\ \A i \in batch[w] : i \in live => visibleIn[i] >= lease[w] /\ grabbed[w][i] = attempt[i]

Leased == ~overrun => \A w \in Worker : Hidden(w)

Delivery == Handled /\ Counted /\ NothingLost /\ NoPrematureDLQ /\ ExclusiveDelivery /\ Leased

Inv == TypeOK /\ OnlyPublished /\ Delivery

-----------------------------------------------------------------------------
(* Types.                                                                  *)

LEMMA DelayIsNat == ASSUME NEW a PROVE ComputeDelay(a) \subseteq Nat
BY StoreAssumption DEF ComputeDelay

LEMMA InitInv == Init => Inv
<1> SUFFICES ASSUME Init PROVE Inv
  OBVIOUS
<1> USE DEF Init, StoreInit
<1>1. TypeOK
  <2>1. StoreTypeOK
    BY DEF StoreTypeOK
  <2>2. 0 \in 0..MaxRetries
    BY BusAssumption
  <2>3. grabbed \in [Worker -> [Id -> Nat]]
    OBVIOUS
  <2>4. \A w \in Worker : batch[w] # {} <=> pc[w] \in Working
    BY DEF Working
  <2> QED
    BY <2>1, <2>2, <2>3, <2>4 DEF TypeOK
<1>2. OnlyPublished
  BY DEF OnlyPublished
<1>3. Delivery
  BY DEF Delivery, Handled, Counted, NothingLost, NoPrematureDLQ, ExclusiveDelivery, Leased,
              Hidden, Working
<1> QED
  BY <1>1, <1>2, <1>3 DEF Inv

\* A step that touches neither events nor what workers hold.
LEMMA QuietStep ==
    ASSUME Inv, TypeOK', UNCHANGED <<live, visibleIn, attempt, dlq, batch, grabbed, lease, failing>>,
           UNCHANGED <<published, history>>, saving' \cap published = {},
           \A w \in Worker : /\ pc'[w] \in Working <=> pc[w] \in Working
                             /\ pc'[w] = "settle" => pc[w] = "settle" /\ current'[w] = current[w]
    PROVE  Inv'
<1>1. OnlyPublished'
  BY DEF Inv, OnlyPublished, history
<1>2. Handled' /\ Counted'
  BY DEF Inv, Delivery, Handled, Counted, history
<1>3. NothingLost' /\ NoPrematureDLQ'
  BY DEF Inv, Delivery, NothingLost, NoPrematureDLQ, history
<1>4. ExclusiveDelivery' /\ Leased'
  BY DEF Inv, Delivery, ExclusiveDelivery, Leased, Hidden, history
<1> QED
  BY <1>1, <1>2, <1>3, <1>4 DEF Inv, Delivery

-----------------------------------------------------------------------------
(* Publishing.                                                             *)

\* Save of an event that was not published before.
LEMMA SaveStep ==
    ASSUME Inv, NEW i \in Id, NEW delay \in Delays, i \notin published, Save(i, delay),
           published' = published \cup {i},
           UNCHANGED <<workerVars, history>>, saving' \subseteq saving \ {i}
    PROVE  StoreTypeOK' /\ OnlyPublished' /\ Delivery'
<1>t. /\ TypeOK /\ StoreTypeOK /\ live \subseteq Id
      /\ visibleIn \in [Id -> Nat] /\ attempt \in [Id -> Nat] /\ failed \in [Id -> 0..MaxRetries]
  BY DEF Inv, TypeOK, StoreTypeOK
<1>1. live' = live \cup {i} /\ i \notin live /\ \A w \in Worker : i \notin batch[w]
  BY DEF Inv, OnlyPublished, Save
<1>2. OnlyPublished'
  BY <1>1 DEF Inv, OnlyPublished, workerVars, history
<1>3. /\ attempt'[i] = 0 /\ \A j \in Id : j # i => attempt'[j] = attempt[j] /\ visibleIn'[j] = visibleIn[j]
      /\ dlq' = dlq
  BY <1>t DEF Save
<1>4. StoreTypeOK'
  BY <1>t, StoreAssumption DEF Save, StoreTypeOK
<1>5. Handled'
  BY DEF Inv, Delivery, Handled, workerVars, history
<1>6. Counted'
  BY DEF Inv, Delivery, Counted, workerVars, history
<1>7. NothingLost'
  BY <1>1, <1>3 DEF Inv, Delivery, NothingLost, history
<1>8. failed[i] = 0 /\ failed' = failed /\ buried' = buried /\ overrun' = overrun
  BY DEF Inv, OnlyPublished, history
<1>9. NoPrematureDLQ'
  <2>1. \A j \in live' : attempt'[j] <= failed'[j]
    BY <1>t, <1>1, <1>3, <1>8 DEF Inv, Delivery, NoPrematureDLQ
  <2> QED
    BY <2>1, <1>3, <1>8 DEF Inv, Delivery, NoPrematureDLQ
<1>10. ExclusiveDelivery'
  <2>1. ~overrun => \A j \in live' : attempt'[j] = failed'[j]
    BY <1>t, <1>1, <1>3, <1>8 DEF Inv, Delivery, ExclusiveDelivery
  <2> QED
    BY <2>1, <1>8 DEF Inv, Delivery, ExclusiveDelivery, workerVars
<1>11. Leased'
  <2>1. ASSUME NEW w \in Worker, Hidden(w) PROVE Hidden(w)'
    <3>1. \A k \in batch[w] : k # i /\ k \in Id
      BY <1>1 DEF Inv, TypeOK
    <3> QED
      BY <1>1, <1>3, <2>1, <3>1 DEF Hidden, workerVars
  <2> QED
    BY <2>1, <1>8 DEF Inv, Delivery, Leased
<1> QED
  BY <1>2, <1>4, <1>5, <1>6, <1>7, <1>9, <1>10, <1>11, <1>t DEF Delivery

\* Publish, PublishBatch and the saves of SaveBatch.
LEMMA PublisherInv ==
    ASSUME Inv, PublisherStep
    PROVE  Inv'
<1>t. TypeOK /\ OnlyPublished
  BY DEF Inv
<1>1. ASSUME NEW i \in Id, NEW delay \in Delays, Publish(i, delay) PROVE Inv'
  <2>1. StoreTypeOK' /\ OnlyPublished' /\ Delivery'
    BY <1>1, SaveStep DEF Publish
  <2>2. TypeOK'
    BY <1>1, <1>t, <2>1 DEF Publish, TypeOK, workerVars, history
  <2> QED
    BY <2>1, <2>2 DEF Inv
<1>3. ASSUME UNCHANGED <<storeVars, workerVars, published, stopping, history>>,
             saving' \subseteq Id, saving' \cap published = {}
      PROVE  Inv'
  <2>1. TypeOK'
    BY <1>3, <1>t DEF TypeOK, StoreTypeOK, storeVars, workerVars, history
  <2> QED
    BY <1>3, <2>1, QuietStep DEF storeVars, workerVars
<1>4. ASSUME NEW i \in Id, NEW delay \in Delays, SaveNext(i, delay), closed PROVE Inv'
  BY <1>3, <1>4, <1>t DEF SaveNext, Save, TypeOK
<1>5. ASSUME NEW S \in Batches, PublishBatch(S) PROVE Inv'
  <2>1. S \subseteq Id
    BY BusAssumption
  <2> QED
    BY <1>3, <1>5, <2>1 DEF PublishBatch
<1>6. ASSUME NEW i \in Id, NEW delay \in Delays, SaveNext(i, delay) PROVE Inv'
  <2>1. CASE closed
    BY <1>4, <1>6, <2>1
  <2>2. CASE ~closed
    <3>1. i \notin published /\ Save(i, delay) /\ saving' = saving \ {i}
          /\ published' = published \cup {i}
          /\ UNCHANGED <<workerVars, stopping, history>>
      BY <1>6, <2>2, <1>t DEF SaveNext, OnlyPublished
    <3>2. StoreTypeOK' /\ OnlyPublished' /\ Delivery'
      BY <3>1, SaveStep
    <3>3. TypeOK'
      BY <1>t, <3>1, <3>2 DEF TypeOK, workerVars, history
    <3> QED
      BY <3>2, <3>3 DEF Inv
  <2> QED
    BY <2>1, <2>2
<1> QED
  BY <1>1, <1>5, <1>6 DEF PublisherStep

-----------------------------------------------------------------------------
(* Workers.                                                                *)

\* The steps of a worker that neither take, handle nor settle an event.
LEMMA IdleInv ==
    ASSUME Inv, NEW w \in Worker, Wake(w) \/ Exit(w) \/ EndCycle(w) \/ PollFails(w)
    PROVE  Inv'
<1>t. TypeOK /\ saving \cap published = {} /\ pc \in [Worker -> {"waiting", "poll", "exited"} \cup Working]
      /\ typeIx \in [Worker -> Nat]
  BY DEF Inv, TypeOK, OnlyPublished
<1>1. UNCHANGED <<storeVars, batch, grabbed, lease, current, failing, publishVars, stopping, history>>
  BY DEF Wake, Exit, EndCycle, PollFails
<1>2. typeIx' \in [Worker -> Nat]
  BY <1>t DEF Wake, Exit, EndCycle, PollFails
<1>3. /\ pc' \in [Worker -> {"waiting", "poll", "exited"} \cup Working]
      /\ \A v \in Worker : /\ pc'[v] \in Working <=> pc[v] \in Working
                           /\ pc'[v] \in {"handling", "settle"} => pc'[v] = pc[v]
  BY <1>t DEF Wake, Exit, EndCycle, PollFails, Working
<1>4. TypeOK'
  BY <1>t, <1>1, <1>2, <1>3 DEF TypeOK, StoreTypeOK, storeVars, publishVars, history
<1> QED
  BY <1>1, <1>3, <1>4, <1>t, QuietStep DEF storeVars, publishVars

\* dispatch starts on an event of the batch.
LEMMA StartInv ==
    ASSUME Inv, NEW w \in Worker, NEW i \in Id, StartHandlers(w, i)
    PROVE  Inv'
<1>t. /\ TypeOK /\ saving \cap published = {} /\ pc \in [Worker -> {"waiting", "poll", "exited"} \cup Working]
      /\ current \in [Worker -> Id \cup {NoEvent}]
  BY DEF Inv, TypeOK, OnlyPublished
<1>1. /\ UNCHANGED <<storeVars, typeIx, batch, grabbed, lease, failing, publishVars, stopping, history>>
      /\ pc[w] = "work" /\ pc' = [pc EXCEPT ![w] = "handling"]
      /\ i \in batch[w] /\ current' = [current EXCEPT ![w] = i]
  BY DEF StartHandlers
<1>2. /\ pc' \in [Worker -> {"waiting", "poll", "exited"} \cup Working]
      /\ \A v \in Worker : /\ pc'[v] \in Working <=> pc[v] \in Working
                           /\ pc'[v] = "settle" => pc[v] = "settle" /\ current'[v] = current[v]
  BY <1>1, <1>t DEF Working
<1>3. /\ current' \in [Worker -> Id \cup {NoEvent}]
      /\ \A v \in Worker : pc'[v] \in {"handling", "settle"} => current'[v] \in batch[v]
  BY <1>1, <1>t DEF TypeOK
<1>4. TypeOK'
  BY <1>t, <1>1, <1>2, <1>3 DEF TypeOK, StoreTypeOK, storeVars, publishVars, history
<1> QED
  BY <1>1, <1>2, <1>4, <1>t, QuietStep DEF storeVars, publishVars

\* PollOnce takes a batch, or finds nothing.
LEMMA PollInv ==
    ASSUME Inv, NEW w \in Worker, NEW S \in SUBSET Id, PollOnce(w, S)
    PROVE  Inv'
<1>t. /\ TypeOK /\ StoreTypeOK /\ live \subseteq Id /\ visibleIn \in [Id -> Nat]
      /\ attempt \in [Id -> Nat]
      /\ pc \in [Worker -> {"waiting", "poll", "exited"} \cup Working] /\ typeIx \in [Worker -> Nat]
      /\ batch \in [Worker -> SUBSET Id] /\ grabbed \in [Worker -> [Id -> Nat]]
      /\ lease \in [Worker -> Nat]
  BY DEF Inv, TypeOK, StoreTypeOK
<1>1. /\ S \subseteq live /\ \A i \in S : visibleIn[i] = 0
      /\ visibleIn' = [i \in Id |-> IF i \in S THEN Lease ELSE visibleIn[i]]
      /\ UNCHANGED <<live, attempt, dlq, closed, current, failing, publishVars, stopping, history>>
  BY DEF PollOnce, Poll
<1>2. visibleIn' \in [Id -> Nat]
  BY <1>1, <1>t, StoreAssumption
<1>3. StoreTypeOK'
  BY <1>1, <1>2, <1>t DEF StoreTypeOK
<1>4. CASE S = {}
  <2>1. UNCHANGED <<pc, batch, grabbed, lease>> /\ typeIx' \in [Worker -> Nat]
    <3>1. UNCHANGED <<pc, batch, grabbed, lease>> /\ typeIx' = [typeIx EXCEPT ![w] = @ + 1]
      BY <1>4 DEF PollOnce
    <3>2. typeIx \in [Worker -> Nat]
      BY <1>t
    <3> QED
      BY <3>1, <3>2
  <2>2. visibleIn' = visibleIn
    BY <1>1, <1>4, <1>t
  <2>3. TypeOK'
    BY <2>1, <1>1, <1>3, <1>t DEF TypeOK, publishVars, history
  <2>4. saving' \cap published = {}
    BY <1>1 DEF Inv, OnlyPublished, publishVars
  <2> QED
    BY <2>1, <2>2, <2>3, <2>4, <1>1, QuietStep DEF publishVars
<1>5. CASE S # {}
  <2>1. /\ batch' = [batch EXCEPT ![w] = S]
        /\ grabbed' = [grabbed EXCEPT ![w] = [i \in Id |-> IF i \in S THEN attempt[i] ELSE 0]]
        /\ lease' = [lease EXCEPT ![w] = Lease]
        /\ pc' = [pc EXCEPT ![w] = "work"]
        /\ typeIx' = typeIx
    BY <1>5 DEF PollOnce
  <2>2. /\ batch'[w] = S /\ lease'[w] = Lease /\ pc'[w] = "work"
        /\ \A i \in S : grabbed'[w][i] = attempt[i]
    BY <2>1, <1>t
  <2>3. \A v \in Worker : v # w => /\ batch'[v] = batch[v] /\ lease'[v] = lease[v] /\ pc'[v] = pc[v]
                                   /\ grabbed'[v] = grabbed[v]
    BY <2>1, <1>t
  <2>4. TypeOK'
    <3>1. /\ batch' \in [Worker -> SUBSET Id] /\ lease' \in [Worker -> Nat]
          /\ pc' \in [Worker -> {"waiting", "poll", "exited"} \cup Working]
      BY <2>1, <1>t, StoreAssumption DEF Working
    <3>2. grabbed' \in [Worker -> [Id -> Nat]]
      <4>1. [i \in Id |-> IF i \in S THEN attempt[i] ELSE 0] \in [Id -> Nat]
        BY <1>t
      <4> QED
        BY <2>1, <4>1, <1>t
    <3>3. \A v \in Worker : batch'[v] # {} <=> pc'[v] \in Working
      BY <2>2, <2>3, <1>5, <1>t DEF TypeOK, Working
    <3>4. \A v \in Worker : pc'[v] \in {"handling", "settle"} => current'[v] \in batch'[v]
      BY <2>2, <2>3, <1>1, <1>t DEF TypeOK
    <3> QED
      BY <3>1, <3>2, <3>3, <3>4, <2>1, <1>1, <1>3, <1>t DEF TypeOK, publishVars, history
  <2>5. published' = published
    BY <1>1 DEF publishVars
  <2>6. OnlyPublished'
    BY <1>1, <2>2, <2>3, <2>5 DEF Inv, OnlyPublished, publishVars, history
  <2>7. Handled'
    BY <1>1, <2>2, <2>3 DEF Inv, Delivery, Handled, publishVars, history
  <2>8. NothingLost' /\ NoPrematureDLQ'
    BY <1>1, <2>5 DEF Inv, Delivery, NothingLost, NoPrematureDLQ, history
  <2>9. Counted'
    BY <1>1, <2>2, <2>3 DEF Inv, Delivery, Counted, NoPrematureDLQ, history
  <2>10. ASSUME ~overrun, NEW v \in Worker, v # w PROVE batch[v] \cap S = {}
    <3> SUFFICES ASSUME NEW i \in batch[v], i \in S PROVE FALSE
      OBVIOUS
    <3>1. pc[v] \in Working
      BY <1>t DEF TypeOK
    <3>2. lease[v] > 0 /\ visibleIn[i] >= lease[v]
      BY <3>1, <2>10, <1>1 DEF Inv, Delivery, Leased, Hidden
    <3>3. visibleIn[i] = 0 /\ lease[v] \in Nat
      BY <1>1, <1>t
    <3> QED
      BY <3>2, <3>3
  <2>11. ExclusiveDelivery'
    BY <1>1, <2>2, <2>3, <2>10 DEF Inv, Delivery, ExclusiveDelivery, history
  <2>12. Leased'
    <3>1. SUFFICES ASSUME ~overrun, NEW v \in Worker PROVE Hidden(v)'
      BY <1>1 DEF Leased, history
    <3>2. CASE v = w
      <4>1. Lease > 0 /\ \A i \in S : visibleIn'[i] = Lease
        BY <1>1, <1>t, StoreAssumption
      <4>2. Lease >= Lease
        BY StoreAssumption
      <4> QED
        BY <4>1, <4>2, <2>2, <1>1, <3>2 DEF Hidden
    <3>3. CASE v # w
      <4>1. \A i \in batch[v] : visibleIn'[i] = visibleIn[i]
        BY <2>10, <3>1, <3>3, <1>1, <1>t
      <4> QED
        BY <4>1, <2>3, <3>1, <3>3, <1>1 DEF Inv, Delivery, Leased, Hidden
    <3> QED
      BY <3>2, <3>3
  <2> QED
    BY <2>4, <2>6, <2>7, <2>8, <2>9, <2>11, <2>12 DEF Inv, Delivery
<1> QED
  BY <1>4, <1>5

\* dispatch: what it reports without an error was handled by everyone.
LEMMA HandlersInv ==
    ASSUME Inv, NEW w \in Worker, NEW F \in SUBSET Handler, EndHandlers(w, F)
    PROVE  Inv'
<1> DEFINE i == current[w]
           hs == HandlersOf[TypeOf[i]]
<1>t. /\ TypeOK /\ handledBy \in [Id -> SUBSET Handler] /\ failing \in [Worker -> BOOLEAN]
      /\ pc \in [Worker -> {"waiting", "poll", "exited"} \cup Working]
      /\ batch \in [Worker -> SUBSET Id]
  BY DEF Inv, TypeOK
<1>i. i \in Id
  BY <1>t DEF TypeOK, EndHandlers
<1>h. hs \subseteq Handler
  BY <1>i, StoreAssumption, BusAssumption
<1>1. /\ pc[w] = "handling"
      /\ failing' = [failing EXCEPT ![w] = (F # {})]
      /\ handledBy' = [handledBy EXCEPT ![i] = @ \cup (hs \ F)]
      /\ pc' = [pc EXCEPT ![w] = "settle"]
      /\ UNCHANGED <<storeVars, typeIx, batch, grabbed, lease, current, publishVars, stopping, failed,
                     buried, overrun>>
  BY DEF EndHandlers, DispatchErr
<1>2. \A j \in Id : handledBy[j] \subseteq handledBy'[j]
  BY <1>1, <1>t
<1>3. handledBy' \in [Id -> SUBSET Handler]
  BY <1>1, <1>t, <1>i, <1>h
<1>4. \A v \in Worker : pc'[v] \in Working <=> pc[v] \in Working
  BY <1>1, <1>t DEF Working
<1>5. TypeOK'
  <2>1. pc' \in [Worker -> {"waiting", "poll", "exited"} \cup Working] /\ failing' \in [Worker -> BOOLEAN]
    BY <1>1, <1>t DEF Working
  <2> QED
    BY <2>1, <1>1, <1>3, <1>4, <1>t DEF TypeOK, StoreTypeOK, storeVars, publishVars
<1>6. published' = published
  BY <1>1 DEF publishVars
<1>7. OnlyPublished'
  BY <1>1, <1>6 DEF Inv, OnlyPublished, storeVars, publishVars
<1>8. Handled'
  <2>1. SUFFICES ASSUME NEW v \in Worker, pc'[v] = "settle", ~failing'[v]
                 PROVE  HandlersOf[TypeOf[current[v]]] \subseteq handledBy'[current[v]]
    BY <1>1 DEF Handled
  <2>2. CASE v = w
    <3>1. F = {}
      BY <2>1, <2>2, <1>1, <1>t
    <3> QED
      BY <3>1, <2>2, <1>1, <1>t, <1>i
  <2>3. CASE v # w
    <3>1. pc[v] = "settle" /\ ~failing[v]
      BY <2>1, <2>3, <1>1, <1>t
    <3>2. current[v] \in Id
      BY <3>1, <1>t DEF TypeOK
    <3> QED
      BY <3>1, <3>2, <1>2 DEF Inv, Delivery, Handled
  <2> QED
    BY <2>2, <2>3
<1>9. NothingLost'
  BY <1>1, <1>2, <1>6 DEF Inv, Delivery, NothingLost, storeVars
<1>10. Counted' /\ NoPrematureDLQ' /\ ExclusiveDelivery'
  BY <1>1 DEF Inv, Delivery, Counted, NoPrematureDLQ, ExclusiveDelivery, storeVars
<1>11. Leased'
  BY <1>1, <1>4 DEF Inv, Delivery, Leased, Hidden, storeVars
<1> QED
  BY <1>5, <1>7, <1>8, <1>9, <1>10, <1>11 DEF Inv, Delivery

\* PollOnce settles event i in whatever way and moves on to rest.
LEMMA SettleStep ==
    ASSUME Inv, NEW w \in Worker, NEW i \in Id, NEW rest \in SUBSET Id,
           pc[w] = "settle", i = current[w], rest \subseteq batch[w] \ {i}, Advance(w, rest),
           StoreTypeOK', failed' \in [Id -> 0..MaxRetries],
           UNCHANGED <<publishVars, stopping, handledBy, buried, overrun>>,
           live' \subseteq live, dlq \subseteq dlq', dlq' \subseteq dlq \cup {i},
           \A j \in Id : failed'[j] >= failed[j],
           \A j \in Id : j # i => /\ j \in live' <=> j \in live
                                  /\ attempt'[j] = attempt[j] /\ visibleIn'[j] = visibleIn[j]
                                  /\ failed'[j] = failed[j],
           i \in live' => attempt'[i] <= failed'[i] /\ (~overrun => attempt'[i] = failed'[i]),
           i \in live \ live' => i \in dlq' \/ HandlersOf[TypeOf[i]] \subseteq handledBy[i],
           i \in dlq' \ dlq => failed'[i] >= MaxRetries
    PROVE  Inv'
<1>t. /\ TypeOK /\ StoreTypeOK /\ live \subseteq Id /\ dlq \subseteq Id /\ attempt \in [Id -> Nat]
      /\ pc \in [Worker -> {"waiting", "poll", "exited"} \cup Working] /\ typeIx \in [Worker -> Nat]
      /\ batch \in [Worker -> SUBSET Id] /\ grabbed \in [Worker -> [Id -> Nat]]
      /\ lease \in [Worker -> Nat] /\ failing \in [Worker -> BOOLEAN]
      /\ failed \in [Id -> 0..MaxRetries] /\ MaxRetries \in Nat
      /\ current \in [Worker -> Id \cup {NoEvent}] /\ i \in batch[w]
  BY BusAssumption DEF Inv, TypeOK, StoreTypeOK
<1>n. \A j \in Id : failed[j] \in Nat /\ failed'[j] \in Nat
  BY <1>t
<1>1. /\ batch'[w] = rest /\ pc'[w] = (IF rest # {} THEN "work" ELSE "poll")
      /\ rest # {} => grabbed'[w] = grabbed[w] /\ lease'[w] = lease[w]
  BY <1>t DEF Advance
<1>2. \A v \in Worker : v # w => /\ batch'[v] = batch[v] /\ pc'[v] = pc[v] /\ failing'[v] = failing[v]
                                 /\ grabbed'[v] = grabbed[v] /\ lease'[v] = lease[v]
                                 /\ current'[v] = current[v]
  BY <1>t DEF Advance
<1>3. \A v \in Worker : batch'[v] \subseteq batch[v] /\ \A j \in batch'[v] : j \in Id
  BY <1>1, <1>2, <1>t
<1>4. \A v \in Worker : \A j \in batch'[v] : grabbed'[v][j] = grabbed[v][j]
  BY <1>1, <1>2
<1>5. TypeOK'
  <2>1. /\ batch' \in [Worker -> SUBSET Id] /\ failing' \in [Worker -> BOOLEAN]
        /\ pc' \in [Worker -> {"waiting", "poll", "exited"} \cup Working]
    BY <1>t DEF Advance, Working
  <2>2. typeIx' \in [Worker -> Nat] /\ lease' \in [Worker -> Nat]
    <3>1. typeIx \in [Worker -> Nat] /\ lease \in [Worker -> Nat]
      BY <1>t
    <3>2. CASE rest = {}
      <4>1. typeIx' = [typeIx EXCEPT ![w] = @ + 1] /\ lease' = [lease EXCEPT ![w] = 0]
        BY <3>2 DEF Advance
      <4> QED
        BY <3>1, <4>1
    <3>3. CASE rest # {}
      BY <3>1, <3>3 DEF Advance
    <3> QED
      BY <3>2, <3>3
  <2>3. grabbed' \in [Worker -> [Id -> Nat]]
    <3>1. [j \in Id |-> 0] \in [Id -> Nat]
      OBVIOUS
    <3> QED
      BY <3>1, <1>t DEF Advance
  <2>4. \A v \in Worker : batch'[v] # {} <=> pc'[v] \in Working
    BY <1>1, <1>2, <1>t DEF TypeOK, Working
  <2>5. /\ current' \in [Worker -> Id \cup {NoEvent}]
        /\ \A v \in Worker : pc'[v] \in {"handling", "settle"} => current'[v] \in batch'[v]
    BY <1>1, <1>2, <1>t DEF TypeOK, Advance
  <2> QED
    BY <2>1, <2>2, <2>3, <2>4, <2>5, <1>t DEF TypeOK, publishVars
<1>6. published' = published
  BY DEF publishVars
<1>7. OnlyPublished'
  <2>1. i \in published
    BY <1>t DEF Inv, OnlyPublished
  <2> QED
    BY <2>1, <1>3, <1>6 DEF Inv, OnlyPublished, publishVars
<1>8. Handled'
  <2>1. \A v \in Worker : pc'[v] = "settle" => v # w
    BY <1>1
  <2> QED
    BY <2>1, <1>2 DEF Inv, Delivery, Handled
<1>9. Counted'
  <2>1. SUFFICES ASSUME NEW v \in Worker, NEW j \in batch'[v] PROVE grabbed'[v][j] <= failed'[j]
    BY DEF Counted
  <2>2. j \in Id /\ j \in batch[v] /\ grabbed'[v][j] = grabbed[v][j] /\ grabbed[v][j] \in Nat
    BY <1>3, <1>4, <1>t
  <2>3. grabbed[v][j] <= failed[j] /\ failed[j] <= failed'[j]
    BY <2>2, <1>n DEF Inv, Delivery, Counted
  <2> QED
    BY <2>2, <2>3, <1>n
<1>10. NothingLost'
  <2>1. published \subseteq Id /\ handledBy' = handledBy
    BY <1>t DEF TypeOK
  <2> QED
    BY <2>1, <1>6 DEF Inv, Delivery, NothingLost
<1>11. NoPrematureDLQ'
  <2>1. \A j \in live' : attempt'[j] <= failed'[j]
    BY <1>t DEF Inv, Delivery, NoPrematureDLQ
  <2>2. ASSUME NEW j \in dlq' \ buried' PROVE failed'[j] >= MaxRetries
    <3>1. CASE j \in dlq
      <4>1. j \in Id /\ failed[j] >= MaxRetries
        BY <2>2, <3>1, <1>t DEF Inv, Delivery, NoPrematureDLQ
      <4> QED
        BY <4>1, <1>n, <1>t
    <3>2. CASE j \notin dlq
      BY <2>2, <3>2
    <3> QED
      BY <3>1, <3>2
  <2> QED
    BY <2>1, <2>2 DEF NoPrematureDLQ
<1>12. ExclusiveDelivery'
  <2>1. SUFFICES ASSUME ~overrun
                 PROVE  /\ \A v, u \in Worker : v # u => batch'[v] \cap batch'[u] = {}
                        /\ \A j \in live' : attempt'[j] = failed'[j]
    BY DEF ExclusiveDelivery
  <2>2. \A v, u \in Worker : v # u => batch'[v] \cap batch'[u] = {}
    BY <2>1, <1>3 DEF Inv, Delivery, ExclusiveDelivery
  <2>3. \A j \in live' : attempt'[j] = failed'[j]
    BY <2>1, <1>t DEF Inv, Delivery, ExclusiveDelivery
  <2> QED
    BY <2>2, <2>3
<1>13. Leased'
  <2>1. SUFFICES ASSUME ~overrun, NEW v \in Worker, pc'[v] \in Working PROVE Hidden(v)'
    BY DEF Leased, Hidden
  <2>2. Hidden(v) /\ pc[v] \in Working
    BY <2>1, <1>1, <1>2 DEF Inv, Delivery, Leased, Working
  <2>3. lease'[v] = lease[v]
    BY <2>1, <1>1, <1>2 DEF Working
  <2>4. i \notin batch'[v]
    <3>1. CASE v = w
      BY <3>1, <1>1
    <3>2. CASE v # w
      BY <2>1, <3>2, <1>2, <1>t DEF Inv, Delivery, ExclusiveDelivery
    <3> QED
      BY <3>1, <3>2
  <2>5. \A j \in batch'[v] : /\ j \in Id /\ j # i /\ j \in batch[v]
                             /\ grabbed'[v][j] = grabbed[v][j]
    BY <2>4, <1>3, <1>4
  <2> QED
    BY <2>2, <2>3, <2>5 DEF Hidden
<1> QED
  BY <1>5, <1>7, <1>8, <1>9, <1>10, <1>11, <1>12, <1>13 DEF Inv, Delivery

\* MarkProcessed and MarkFailed of the event whose dispatch just ended.
LEMMA SettleInv ==
    ASSUME Inv, NEW w \in Worker, NEW i \in Id, Ack(w, i) \/ AckFails(w, i) \/ Nack(w, i)
    PROVE  Inv'
<1>t. /\ TypeOK /\ StoreTypeOK /\ live \subseteq Id /\ dlq \subseteq Id /\ attempt \in [Id -> Nat]
      /\ visibleIn \in [Id -> Nat] /\ closed \in BOOLEAN
      /\ batch \in [Worker -> SUBSET Id] /\ grabbed \in [Worker -> [Id -> Nat]]
      /\ failed \in [Id -> 0..MaxRetries] /\ MaxRetries \in Nat
  BY BusAssumption DEF Inv, TypeOK, StoreTypeOK
<1>n. \A j \in Id : failed[j] \in Nat /\ failed[j] <= MaxRetries
  BY <1>t
<1>1. pc[w] = "settle" /\ i = current[w] /\ i \in batch[w]
  BY <1>t DEF Ack, AckFails, Nack, TypeOK
<1>2. CASE Ack(w, i)
  <2>1. /\ i \in live /\ live' = live \ {i} /\ UNCHANGED <<dlq, closed>>
        /\ visibleIn' = [visibleIn EXCEPT ![i] = 0] /\ attempt' = [attempt EXCEPT ![i] = 0]
        /\ Advance(w, batch[w] \ {i}) /\ UNCHANGED <<publishVars, stopping, history>>
    BY <1>2 DEF Ack, MarkProcessed, Delete
  <2>2. StoreTypeOK'
    BY <2>1, <1>t DEF StoreTypeOK
  <2>3. HandlersOf[TypeOf[i]] \subseteq handledBy[i]
    BY <1>1, <1>2 DEF Ack, Inv, Delivery, Handled
  <2>4. \A j \in Id : j # i => attempt'[j] = attempt[j] /\ visibleIn'[j] = visibleIn[j]
    BY <2>1, <1>t
  <2>5. \A j \in Id : failed'[j] >= failed[j] /\ failed'[j] = failed[j]
    BY <2>1, <1>n DEF history
  <2>6. batch[w] \ {i} \in SUBSET Id /\ failed' \in [Id -> 0..MaxRetries]
    BY <2>1, <1>t DEF history
  <2>7. \A j \in Id : j # i => (j \in live' <=> j \in live)
    BY <2>1
  <2> QED
    BY <1>1, <2>1, <2>2, <2>3, <2>4, <2>5, <2>6, <2>7, SettleStep DEF history
<1>3. CASE AckFails(w, i)
  <2>1. /\ i \notin live /\ Advance(w, {})
        /\ UNCHANGED <<live, visibleIn, attempt, dlq, closed, publishVars, stopping, history>>
    BY <1>3 DEF AckFails, storeVars
  <2>2. StoreTypeOK' /\ failed' \in [Id -> 0..MaxRetries]
    BY <2>1, <1>t DEF StoreTypeOK, history
  <2>3. \A j \in Id : failed'[j] >= failed[j] /\ failed'[j] = failed[j]
    BY <2>1, <1>n DEF history
  <2> QED
    BY <1>1, <2>1, <2>2, <2>3, SettleStep DEF history
<1>4. CASE Nack(w, i)
  <2>a. PICK a \in Nat : a = grabbed[w][i] + 1
    BY <1>t
  <2>b. a <= failed[i] + 1
    BY <2>a, <1>1, <1>t, <1>n DEF Inv, Delivery, Counted
  <2>1. /\ MarkFailed(i, a, MaxRetries) \/ (i \notin live /\ UNCHANGED storeVars)
        /\ failed' = [failed EXCEPT ![i] = IF failed[i] < MaxRetries THEN failed[i] + 1 ELSE failed[i]]
        /\ Advance(w, batch[w] \ {i})
        /\ UNCHANGED <<publishVars, stopping, handledBy, buried, overrun>>
    BY <1>4, <2>a DEF Nack, NextAttempt
  <2>2. failed' \in [Id -> 0..MaxRetries]
    <3>1. (IF failed[i] < MaxRetries THEN failed[i] + 1 ELSE failed[i]) \in 0..MaxRetries
      BY <1>n, <1>t
    <3> QED
      BY <3>1, <2>1, <1>t
  <2>3. /\ failed'[i] = IF failed[i] < MaxRetries THEN failed[i] + 1 ELSE failed[i]
        /\ \A j \in Id : j # i => failed'[j] = failed[j]
    BY <2>1, <1>t
  <2>4. \A j \in Id : failed'[j] >= failed[j]
    BY <2>3, <1>n
  <2>5. batch[w] \ {i} \in SUBSET Id
    BY <1>t
  <2>6. CASE i \notin live /\ UNCHANGED storeVars
    <3>1. UNCHANGED <<live, visibleIn, attempt, dlq, closed>>
      BY <2>6 DEF storeVars
    <3>2. StoreTypeOK'
      BY <3>1, <1>t DEF StoreTypeOK
    <3>3. \A j \in Id : j # i => /\ j \in live' <=> j \in live
                                 /\ attempt'[j] = attempt[j] /\ visibleIn'[j] = visibleIn[j]
                                 /\ failed'[j] = failed[j]
      BY <3>1, <2>3
    <3>4. i \notin live' /\ dlq' = dlq /\ live' = live /\ i \notin live
      BY <2>6, <3>1
    <3> QED
      BY <1>1, <2>1, <2>2, <2>4, <2>5, <3>2, <3>3, <3>4, SettleStep
  <2>7. CASE i \in live /\ a >= MaxRetries /\ MoveToDLQ(i)
    <3>1. /\ live' = live \ {i} /\ visibleIn' = [visibleIn EXCEPT ![i] = 0]
          /\ attempt' = [attempt EXCEPT ![i] = 0] /\ dlq' = dlq \cup {i} /\ closed' = closed
      BY <2>7 DEF MoveToDLQ, Delete
    <3>2. StoreTypeOK'
      BY <3>1, <1>t DEF StoreTypeOK
    <3>3. \A j \in Id : j # i => /\ j \in live' <=> j \in live
                                 /\ attempt'[j] = attempt[j] /\ visibleIn'[j] = visibleIn[j]
                                 /\ failed'[j] = failed[j]
      BY <3>1, <2>3, <1>t
    <3>4. failed'[i] >= MaxRetries
      BY <2>3, <2>b, <2>7, <1>n, <1>t
    <3>5. i \notin live' /\ live' \subseteq live /\ dlq' = dlq \cup {i}
      BY <3>1
    <3> QED
      BY <1>1, <2>1, <2>2, <2>4, <2>5, <3>2, <3>3, <3>4, <3>5, SettleStep
  <2>8. CASE i \in live /\ a < MaxRetries /\ Requeue(i, a) /\ UNCHANGED closed
    <3>1. PICK d \in ComputeDelay(a) : visibleIn' = [visibleIn EXCEPT ![i] = d]
      BY <2>8 DEF Requeue
    <3>2. d \in Nat
      BY DelayIsNat
    <3>3. attempt' = [attempt EXCEPT ![i] = a] /\ UNCHANGED <<live, dlq, closed>>
      BY <2>8 DEF Requeue
    <3>4. StoreTypeOK'
      BY <3>1, <3>2, <3>3, <1>t DEF StoreTypeOK
    <3>5. \A j \in Id : j # i => /\ j \in live' <=> j \in live
                                 /\ attempt'[j] = attempt[j] /\ visibleIn'[j] = visibleIn[j]
                                 /\ failed'[j] = failed[j]
      BY <3>1, <3>3, <2>3, <1>t
    <3>6. attempt'[i] = a /\ a <= failed'[i]
      BY <3>3, <2>3, <2>b, <2>8, <1>n, <1>t
    <3>7. ~overrun => a = failed'[i]
      <4>1. ~overrun => grabbed[w][i] = attempt[i] /\ attempt[i] = failed[i]
        BY <1>1, <2>8 DEF Inv, Delivery, Leased, Hidden, ExclusiveDelivery, Working
      <4> QED
        BY <4>1, <2>3, <2>a, <2>8, <1>n, <1>t
    <3>8. live' = live /\ dlq' = dlq
      BY <3>3
    <3> QED
      BY <1>1, <2>1, <2>2, <2>4, <2>5, <3>4, <3>5, <3>6, <3>7, <3>8, SettleStep
  <2> QED
    BY <2>1, <2>6, <2>7, <2>8 DEF MarkFailed
<1> QED
  BY <1>2, <1>3, <1>4

-----------------------------------------------------------------------------
(* Control and time.                                                       *)

\* Stop and Close.
LEMMA ControlInv ==
    ASSUME Inv, Stop \/ CloseStore
    PROVE  Inv'
<1>1. UNCHANGED <<live, visibleIn, attempt, dlq, workerVars, publishVars, history>>
      /\ stopping' \in BOOLEAN /\ closed' \in BOOLEAN
  BY DEF Stop, CloseStore, Close, Inv, TypeOK, StoreTypeOK, storeVars
<1>2. TypeOK'
  BY <1>1 DEF Inv, TypeOK, StoreTypeOK, workerVars, publishVars, history
<1>3. saving' \cap published = {}
  BY <1>1 DEF Inv, OnlyPublished, publishVars
<1> QED
  BY <1>1, <1>2, <1>3, QuietStep DEF workerVars, publishVars

\* MoveToDLQ called from outside.
LEMMA BuryInv ==
    ASSUME Inv, NEW i \in Id, Bury(i)
    PROVE  Inv'
<1>t. /\ TypeOK /\ live \subseteq Id /\ dlq \subseteq Id /\ attempt \in [Id -> Nat]
      /\ visibleIn \in [Id -> Nat] /\ closed \in BOOLEAN /\ buried \subseteq Id
      /\ batch \in [Worker -> SUBSET Id]
  BY DEF Inv, TypeOK, StoreTypeOK
<1>1. /\ live' = live \ {i} /\ dlq' = dlq \cup {i} /\ closed' = closed /\ buried' = buried \cup {i}
      /\ UNCHANGED <<workerVars, publishVars, stopping, handledBy, failed, overrun>>
  BY DEF Bury, MoveToDLQ, Delete
<1>2. visibleIn' \in [Id -> Nat] /\ attempt' \in [Id -> Nat]
  BY <1>t DEF Bury, MoveToDLQ, Delete
<1>3. \A j \in Id : j # i => attempt'[j] = attempt[j] /\ visibleIn'[j] = visibleIn[j]
  BY <1>t DEF Bury, MoveToDLQ, Delete
<1>4. TypeOK'
  BY <1>1, <1>2, <1>t DEF TypeOK, StoreTypeOK, workerVars, publishVars
<1>5. published' = published
  BY <1>1 DEF publishVars
<1>6. OnlyPublished'
  BY <1>1, <1>5 DEF Inv, OnlyPublished, workerVars, publishVars
<1>7. Handled' /\ Counted'
  BY <1>1 DEF Inv, Delivery, Handled, Counted, workerVars, publishVars
<1>8. NothingLost'
  BY <1>1, <1>5 DEF Inv, Delivery, NothingLost
<1>9. NoPrematureDLQ' /\ ExclusiveDelivery'
  BY <1>1, <1>3, <1>t DEF Inv, Delivery, NoPrematureDLQ, ExclusiveDelivery, workerVars
<1>10. Leased'
  BY <1>1, <1>3, <1>t DEF Inv, Delivery, Leased, Hidden, workerVars
<1> QED
  BY <1>4, <1>6, <1>7, <1>8, <1>9, <1>10 DEF Inv, Delivery

\* Time passes: a lease that ends under a working goroutine is an overrun.
LEMMA TickInv ==
    ASSUME Inv, Tick
    PROVE  Inv'
<1>t. TypeOK /\ visibleIn \in [Id -> Nat] /\ lease \in [Worker -> Nat] /\ live \subseteq Id
  BY DEF Inv, TypeOK, StoreTypeOK
<1>1. /\ visibleIn' = [i \in Id |-> IF visibleIn[i] > 0 THEN visibleIn[i] - 1 ELSE 0]
      /\ lease' = [w \in Worker |-> IF lease[w] > 0 THEN lease[w] - 1 ELSE 0]
      /\ overrun' = (overrun \/ \E w \in Worker : pc[w] \in Working /\ lease[w] <= 1)
      /\ UNCHANGED <<live, attempt, dlq, closed, pc, typeIx, batch, grabbed, current, failing, publishVars>>
      /\ UNCHANGED <<stopping, handledBy, failed, buried>>
  BY DEF Tick, Elapse
<1>2. visibleIn' \in [Id -> Nat] /\ lease' \in [Worker -> Nat]
  BY <1>1, <1>t
<1>3. overrun' \in BOOLEAN /\ (overrun => overrun')
  BY <1>1
<1>4. TypeOK'
  BY <1>1, <1>2, <1>3, <1>t DEF TypeOK, StoreTypeOK, publishVars
<1>5. published' = published
  BY <1>1 DEF publishVars
<1>6. OnlyPublished'
  BY <1>1, <1>5 DEF Inv, OnlyPublished, publishVars
<1>7. Handled' /\ Counted'
  BY <1>1 DEF Inv, Delivery, Handled, Counted, publishVars
<1>8. NothingLost' /\ NoPrematureDLQ'
  BY <1>1, <1>5 DEF Inv, Delivery, NothingLost, NoPrematureDLQ
<1>9. ExclusiveDelivery'
  BY <1>1, <1>3 DEF Inv, Delivery, ExclusiveDelivery
<1>10. Leased'
  <2>1. SUFFICES ASSUME ~overrun', NEW w \in Worker, pc[w] \in Working PROVE Hidden(w)'
    BY <1>1 DEF Leased, Hidden
  <2>2. ~overrun /\ ~(lease[w] <= 1)
    BY <2>1, <1>1
  <2>3. lease[w] > 1 /\ lease'[w] = lease[w] - 1 /\ lease[w] \in Nat
    BY <2>2, <1>1, <1>t
  <2>4. ASSUME NEW i \in batch[w], i \in live
        PROVE  visibleIn'[i] >= lease'[w] /\ grabbed[w][i] = attempt[i]
    <3>1. visibleIn[i] >= lease[w] /\ grabbed[w][i] = attempt[i]
      BY <2>1, <2>2, <2>4 DEF Inv, Delivery, Leased, Hidden
    <3>2. i \in Id /\ visibleIn[i] \in Nat
      BY <2>4, <1>t
    <3> QED
      BY <3>1, <3>2, <2>3, <1>1
  <2>5. lease'[w] > 0
    BY <2>3
  <2> QED
    BY <2>4, <2>5, <1>1 DEF Hidden
<1> QED
  BY <1>4, <1>6, <1>7, <1>8, <1>9, <1>10 DEF Inv, Delivery

-----------------------------------------------------------------------------

LEMMA NextInv == Inv /\ [Next]_vars => Inv'
<1> SUFFICES ASSUME Inv, [Next]_vars PROVE Inv'
  OBVIOUS
<1>1. ASSUME NEW w \in Worker, WorkerStep(w) PROVE Inv'
  BY <1>1, IdleInv, StartInv, PollInv, HandlersInv, SettleInv DEF WorkerStep
<1>2. CASE UNCHANGED vars
  <2>1. UNCHANGED <<storeVars, workerVars, publishVars, stopping, history>>
    BY <1>2 DEF vars
  <2>2. TypeOK' /\ saving' \cap published = {}
    BY <2>1 DEF Inv, TypeOK, StoreTypeOK, OnlyPublished, storeVars, workerVars, publishVars, history
  <2> QED
    BY <2>1, <2>2, QuietStep DEF storeVars, workerVars, publishVars
<1> QED
  BY <1>1, <1>2, PublisherInv, ControlInv, BuryInv, TickInv DEF Next

LEMMA AlwaysInv == Spec => []Inv
BY InitInv, NextInv, PTL DEF Spec

\* Every variable keeps its type, and exactly the working goroutines hold
\* events (PollOnce and the loop of worker.go).
THEOREM TypeCorrect == Spec => []TypeOK
<1>1. Inv => TypeOK
  BY DEF Inv
<1> QED
  BY <1>1, AlwaysInv, PTL

\* A published event is stored, or handled by every handler of its type since
\* PollOnce acknowledges only what dispatch finished, or in the DLQ, where
\* MarkFailed puts it only after MaxRetries failed deliveries, even when it is
\* given the stale Attempt of a worker that overran its lease.
THEOREM AccountedHolds == Spec => []Accounted
<1>1. Inv => Accounted
  BY DEF Inv, Delivery, Accounted
<1> QED
  BY <1>1, AlwaysInv, PTL

\* While every batch is settled within its lease, Poll gives an event to one
\* goroutine at a time and Attempt counts its failures exactly.
THEOREM ExclusiveDeliveryHolds == Spec => []ExclusiveDelivery
<1>1. Inv => ExclusiveDelivery
  BY DEF Inv, Delivery
<1> QED
  BY <1>1, AlwaysInv, PTL

-----------------------------------------------------------------------------
(* The bus implements the at-least-once channel. Inv is what the mapping   *)
(* needs: Handled makes an acknowledgement a Settle, Counted makes a       *)
(* burial by MarkFailed a Refuse at the limit, and OnlyPublished a Save an *)
(* Offer of something new.                                                 *)

\* What a step of the bus leaves to the channel when it changes nothing there.
ChannelStutter == UNCHANGED <<published, live, InHand, handledBy, failed, dlq>>

LEMMA StutterMaps == ChannelStutter => UNCHANGED Channel!channelVars
BY DEF ChannelStutter, Channel!channelVars

LEMMA InitMaps == Init => Channel!ChannelInit
<1> SUFFICES ASSUME Init PROVE Channel!ChannelInit
  OBVIOUS
<1>1. published = {} /\ InHand = {}
  BY DEF Init, InHand
<1> QED
  BY <1>1 DEF Init, StoreInit, Channel!ChannelInit

\* Publish and the saves of SaveBatch offer an event.
LEMMA SaveMaps ==
    ASSUME NEW i \in Id, NEW delay \in Delays, i \notin published, Save(i, delay),
           published' = published \cup {i}, UNCHANGED <<workerVars, history>>
    PROVE  Channel!Offer(i)
<1>1. InHand' = InHand
  BY DEF InHand, workerVars
<1> QED
  BY <1>1 DEF Channel!Offer, Save, history

LEMMA PublisherMaps ==
    ASSUME Inv, PublisherStep
    PROVE  (\E i \in Id : Channel!Offer(i)) \/ ChannelStutter
<1>q. ASSUME UNCHANGED <<storeVars, workerVars, published, history>> PROVE ChannelStutter
  BY <1>q DEF ChannelStutter, InHand, storeVars, workerVars, history
<1>1. ASSUME NEW i \in Id, NEW delay \in Delays, Publish(i, delay) PROVE Channel!Offer(i)
  BY <1>1, SaveMaps DEF Publish
<1>2. ASSUME NEW S \in Batches, PublishBatch(S) PROVE ChannelStutter
  BY <1>2, <1>q DEF PublishBatch
<1>3. ASSUME NEW i \in Id, NEW delay \in Delays, SaveNext(i, delay)
      PROVE  Channel!Offer(i) \/ ChannelStutter
  <2>1. i \notin published
    BY <1>3 DEF SaveNext, Inv, OnlyPublished
  <2> QED
    BY <1>3, <2>1, <1>q, SaveMaps DEF SaveNext
<1> QED
  BY <1>1, <1>2, <1>3 DEF PublisherStep

\* A polled batch is handed out; an empty one changes nothing.
LEMMA PollMaps ==
    ASSUME Inv, NEW w \in Worker, NEW S \in SUBSET Id, PollOnce(w, S)
    PROVE  Channel!HandOut(S)
<1>1. /\ S \subseteq live
      /\ UNCHANGED <<live, dlq, publishVars, history>>
  BY DEF PollOnce, Poll
<1>2. published' = published
  BY <1>1 DEF publishVars
<1>3. InHand' = InHand \cup S
  <2>1. CASE S = {}
    BY <2>1 DEF PollOnce, InHand
  <2>2. CASE S # {}
    <3>1. batch' = [batch EXCEPT ![w] = S] /\ pc[w] = "poll"
      BY <2>2 DEF PollOnce
    <3>2. batch[w] = {} /\ batch \in [Worker -> SUBSET Id]
      BY <3>1 DEF Inv, TypeOK, Working
    <3>3. batch'[w] = S /\ \A v \in Worker : v # w => batch'[v] = batch[v]
      BY <3>1, <3>2
    <3> QED
      BY <3>2, <3>3 DEF InHand
  <2> QED
    BY <2>1, <2>2
<1> QED
  BY <1>1, <1>2, <1>3 DEF Channel!HandOut, history

LEMMA HandlersMap ==
    ASSUME Inv, NEW w \in Worker, NEW F \in SUBSET Handler, EndHandlers(w, F)
    PROVE  \E i \in Id, H \in SUBSET Handler : Channel!Handle(i, H)
<1> DEFINE i == current[w]
           H == HandlersOf[TypeOf[i]] \ F
<1>1. i \in Id /\ i \in InHand
  BY DEF EndHandlers, Inv, TypeOK, InHand
<1>2. H \in SUBSET Handler
  BY <1>1, StoreAssumption, BusAssumption
<1>3. /\ handledBy' = [handledBy EXCEPT ![i] = @ \cup H]
      /\ UNCHANGED <<published, live, InHand, failed, dlq>>
  BY DEF EndHandlers, InHand, storeVars, publishVars
<1>4. H \subseteq [j \in Id |-> HandlersOf[TypeOf[j]]][i]
  BY <1>1
<1>5. Channel!Handle(i, H)
  BY <1>1, <1>3, <1>4 DEF Channel!Handle
<1> QED
  BY <1>1, <1>2, <1>5

\* Who settles an event lets go of it; another worker may still hold it.
LEMMA LetGo ==
    ASSUME Inv, NEW w \in Worker, NEW i \in Id, Advance(w, batch[w] \ {i})
    PROVE  Channel!Return(i)
<1>1. batch \in [Worker -> SUBSET Id]
  BY DEF Inv, TypeOK
<1>2. batch'[w] = batch[w] \ {i} /\ \A v \in Worker : v # w => batch'[v] = batch[v]
  BY <1>1 DEF Advance
<1>3. CASE \E v \in Worker : v # w /\ i \in batch[v]
  <2>1. InHand' = InHand
    BY <1>2, <1>3 DEF InHand
  <2> QED
    BY <2>1 DEF Channel!Return
<1>4. CASE ~\E v \in Worker : v # w /\ i \in batch[v]
  <2>1. InHand' = InHand \ {i}
    BY <1>2, <1>4 DEF InHand
  <2> QED
    BY <2>1 DEF Channel!Return
<1> QED
  BY <1>3, <1>4

LEMMA SettleMaps ==
    ASSUME Inv, NEW w \in Worker, NEW i \in Id, Ack(w, i) \/ AckFails(w, i) \/ Nack(w, i)
    PROVE  Channel!Settle(i) \/ Channel!Refuse(i) \/ \E R \in SUBSET Id : Channel!Forget(R)
<1>t. /\ batch \in [Worker -> SUBSET Id] /\ grabbed \in [Worker -> [Id -> Nat]]
      /\ failed \in [Id -> 0..MaxRetries] /\ MaxRetries \in Nat
  BY BusAssumption DEF Inv, TypeOK
<1>1. pc[w] = "settle" /\ i = current[w] /\ i \in batch[w] /\ i \in InHand
  BY DEF Ack, AckFails, Nack, Inv, TypeOK, InHand
<1>2. published' = published
  BY DEF Ack, AckFails, Nack, publishVars
<1>3. ASSUME Ack(w, i) PROVE Channel!Settle(i)
  <2>1. /\ i \in live /\ live' = live \ {i}
        /\ Advance(w, batch[w] \ {i}) /\ UNCHANGED <<dlq, history>>
    BY <1>3 DEF Ack, MarkProcessed, Delete
  <2>2. [j \in Id |-> HandlersOf[TypeOf[j]]][i] \subseteq handledBy[i]
    BY <1>1, <1>3 DEF Ack, Inv, Delivery, Handled
  <2> QED
    BY <1>1, <1>2, <2>1, <2>2, LetGo DEF Channel!Settle, history
<1>4. ASSUME AckFails(w, i) PROVE \E R \in SUBSET Id : Channel!Forget(R)
  <2>1. Advance(w, {}) /\ UNCHANGED <<live, dlq, history>>
    BY <1>4 DEF AckFails, storeVars
  <2>2. batch'[w] = {} /\ \A v \in Worker : v # w => batch'[v] = batch[v]
    BY <1>t, <2>1 DEF Advance
  <2>3. InHand' = InHand \ (InHand \ InHand') /\ InHand \ InHand' \in SUBSET Id
    BY <1>t, <2>2 DEF InHand
  <2>4. Channel!Forget(InHand \ InHand')
    BY <1>2, <2>1, <2>3 DEF Channel!Forget, history
  <2> QED
    BY <2>3, <2>4
<1>5. ASSUME Nack(w, i) PROVE Channel!Refuse(i)
  <2>1. /\ MarkFailed(i, grabbed[w][i] + 1, MaxRetries) \/ (i \notin live /\ UNCHANGED storeVars)
        /\ failed' = [failed EXCEPT ![i] = IF @ < MaxRetries THEN @ + 1 ELSE @]
        /\ Advance(w, batch[w] \ {i})
        /\ UNCHANGED handledBy
    BY <1>5 DEF Nack, NextAttempt
  <2>2. \/ UNCHANGED <<live, dlq>>
        \/ /\ i \in live /\ grabbed[w][i] + 1 >= MaxRetries
           /\ live' = live \ {i} /\ dlq' = dlq \cup {i}
    BY <2>1 DEF MarkFailed, MoveToDLQ, Delete, Requeue, storeVars
  <2>3. grabbed[w][i] + 1 >= MaxRetries => failed'[i] >= MaxRetries
    <3>1. grabbed[w][i] <= failed[i]
      BY <1>1 DEF Inv, Delivery, Counted
    <3>2. failed'[i] = IF failed[i] < MaxRetries THEN failed[i] + 1 ELSE failed[i]
      BY <2>1, <1>t
    <3>3. grabbed[w][i] \in Nat /\ failed[i] \in Nat
      BY <1>t
    <3> QED
      BY <3>1, <3>2, <3>3, <1>t
  <2> QED
    BY <1>1, <1>2, <2>1, <2>2, <2>3, LetGo DEF Channel!Refuse
<1> QED
  BY <1>3, <1>4, <1>5

LEMMA WorkerMaps ==
    ASSUME Inv, NEW w \in Worker, WorkerStep(w)
    PROVE  [Channel!ChannelNext]_Channel!channelVars
<1>1. ASSUME Wake(w) \/ Exit(w) \/ EndCycle(w) \/ PollFails(w) \/ \E i \in Id : StartHandlers(w, i)
      PROVE  ChannelStutter
  BY <1>1 DEF Wake, Exit, EndCycle, PollFails, StartHandlers, ChannelStutter, InHand,
              storeVars, publishVars, history
<1> QED
  BY <1>1, StutterMaps, PollMaps, HandlersMap, SettleMaps DEF WorkerStep, Channel!ChannelNext

LEMMA BuryMaps == ASSUME NEW i \in Id, Bury(i) PROVE Channel!GiveUp(i)
<1>1. UNCHANGED <<published, InHand>>
  BY DEF Bury, InHand, workerVars, publishVars
<1> QED
  BY <1>1 DEF Bury, MoveToDLQ, Delete, Channel!GiveUp

\* Stop, Close and the clock are invisible in the channel.
LEMMA ControlMaps == ASSUME Stop \/ CloseStore \/ Tick \/ UNCHANGED vars PROVE ChannelStutter
BY DEF Stop, CloseStore, Close, Tick, Elapse, vars, storeVars, workerVars, publishVars, history,
       ChannelStutter, InHand

LEMMA NextMaps == Inv /\ [Next]_vars => [Channel!ChannelNext]_Channel!channelVars
<1> SUFFICES ASSUME Inv, [Next]_vars PROVE [Channel!ChannelNext]_Channel!channelVars
  OBVIOUS
<1>1. CASE \E w \in Worker : WorkerStep(w)
  BY <1>1, WorkerMaps
<1>2. CASE PublisherStep
  BY <1>2, PublisherMaps, StutterMaps DEF Channel!ChannelNext
<1>3. CASE Stop \/ CloseStore \/ Tick \/ UNCHANGED vars
  BY <1>3, ControlMaps, StutterMaps
<1>4. CASE \E i \in Id : Bury(i)
  BY <1>4, BuryMaps DEF Channel!ChannelNext
<1> QED
  BY <1>1, <1>2, <1>3, <1>4 DEF Next

\* The bus is an at-least-once channel, however leases expire and however
\* late a result reaches the store: PollOnce, MarkProcessed and MarkFailed
\* settle an event once and for all, and only on grounds the channel allows.
THEOREM BusImplementsAtLeastOnce == Spec => ImplementsAtLeastOnce
BY InitMaps, NextMaps, AlwaysInv, PTL DEF Spec, ImplementsAtLeastOnce, Channel!ChannelSpec

=============================================================================
