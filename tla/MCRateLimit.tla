----------------------------- MODULE MCRateLimit -----------------------------
(* Instances of RateLimit for TLC.                                         *)
EXTENDS RateLimit, TLC

Millis(n) == n * 1000000

\* 2 requests in 2 ms.
TwoInTwo ==
    [algorithm |-> "sliding_window_counter", limit |-> 2, window |-> Millis(2), burst |-> 0]
\* 700/s and a burst of one: the emission interval truncates to a millisecond.
SevenHundred == [algorithm |-> "gcra", limit |-> 700, window |-> Millis(1000), burst |-> 1]
\* 2000/s: the emission interval truncates to zero.
TwoThousand == [algorithm |-> "gcra", limit |-> 2000, window |-> Millis(1000), burst |-> 1]
\* A window that truncates to zero.
Blink == [algorithm |-> "sliding_window_counter", limit |-> 1, window |-> 500000, burst |-> 0]
AllRules == {TwoInTwo, SevenHundred, TwoThousand, Blink}

Enforcing == [failClosed |-> TRUE, observeOnly |-> FALSE]
Observing == [failClosed |-> FALSE, observeOnly |-> TRUE]
BothModes == {Enforcing, Observing}

\* Requests are interchangeable.
Symmetry == Permutations(Request)
=============================================================================
