----------------------------- MODULE AtLeastOnce -----------------------------
(***************************************************************************)
(* What the event bus promises to publishers and handlers, without types,  *)
(* batches, visibility, leases, attempts, a closed store or worker         *)
(* goroutines: an event is handed out any number of times, but only while  *)
(* it is pending, and it stops being pending for good, either because      *)
(* every subscriber has handled it or because it was given up.             *)
(* EventBus implements this specification.                                 *)
(***************************************************************************)
EXTENDS Naturals

CONSTANTS
    Id,          \* events
    Handler,     \* handlers
    Subscribers, \* the handlers each event is for
    MaxRetries   \* failed deliveries before the bus may give an event up

VARIABLES
    offered,  \* events that were published
    pending,  \* events still to be settled
    out,      \* events handed to the consumers and not answered for
    handled,  \* the handlers that succeeded on each event
    refused,  \* failed deliveries of each event, up to MaxRetries
    dead      \* events in the dead-letter queue

channelVars == <<offered, pending, out, handled, refused, dead>>

ChannelInit ==
    /\ offered = {} /\ pending = {} /\ out = {} /\ dead = {}
    /\ handled = [i \in Id |-> {}]
    /\ refused = [i \in Id |-> 0]

\* An event is published, once.
Offer(i) ==
    /\ i \notin offered
    /\ offered' = offered \cup {i}
    /\ pending' = pending \cup {i}
    /\ UNCHANGED <<out, handled, refused, dead>>

\* Pending events are handed out, those already out included.
HandOut(S) ==
    /\ S \subseteq pending
    /\ out' = out \cup S
    /\ UNCHANGED <<offered, pending, handled, refused, dead>>

\* Some subscribers succeed on an event that is out, settled or not.
Handle(i, H) ==
    /\ i \in out
    /\ H \subseteq Subscribers[i]
    /\ handled' = [handled EXCEPT ![i] = @ \cup H]
    /\ UNCHANGED <<offered, pending, out, refused, dead>>

\* One holder answers for an event; another may still have it.
Return(i) == out' \in {out, out \ {i}}

\* An event that every subscriber has handled is done with.
Settle(i) ==
    /\ i \in out \cap pending
    /\ Subscribers[i] \subseteq handled[i]
    /\ pending' = pending \ {i}
    /\ Return(i)
    /\ UNCHANGED <<offered, handled, refused, dead>>

\* A delivery failed: the event stays as it is, or it is given up after
\* MaxRetries failures.
Refuse(i) ==
    /\ i \in out
    /\ refused' = [refused EXCEPT ![i] = IF @ < MaxRetries THEN @ + 1 ELSE @]
    /\ \/ UNCHANGED <<pending, dead>>
       \/ /\ i \in pending /\ refused'[i] >= MaxRetries
          /\ pending' = pending \ {i}
          /\ dead' = dead \cup {i}
    /\ Return(i)
    /\ UNCHANGED <<offered, handled>>

\* A consumer drops what it holds without a word.
Forget(R) ==
    /\ out' = out \ R
    /\ UNCHANGED <<offered, pending, handled, refused, dead>>

\* An operator gives an event up, whatever its state.
GiveUp(i) ==
    /\ i \in offered \ dead
    /\ pending' = pending \ {i}
    /\ dead' = dead \cup {i}
    /\ UNCHANGED <<offered, out, handled, refused>>

ChannelNext ==
    \/ \E i \in Id : Offer(i) \/ Settle(i) \/ Refuse(i) \/ GiveUp(i)
    \/ \E i \in Id, H \in SUBSET Handler : Handle(i, H)
    \/ \E S \in SUBSET Id : HandOut(S) \/ Forget(S)

ChannelSpec == ChannelInit /\ [][ChannelNext]_channelVars

=============================================================================
