----------------------------- MODULE MCEventBus -----------------------------
(* Instances of EventBus for TLC.                                          *)
EXTENDS EventBus, TLC

CONSTANTS w1, w2, i1, i2, h1, h2, tA, tB

OneType == <<tA>>
TwoTypes == <<tA, tB>>
AllTypeA == [i \in Id |-> tA]
EachHandler == [t \in Type |-> Handler]
WholeBatch == {Id}
NoBatches == {}

\* Goroutines run the same code, and events and handlers of one type are alike.
Symmetry == Permutations(Worker) \cup Permutations(Id) \cup Permutations(Handler)
=============================================================================
