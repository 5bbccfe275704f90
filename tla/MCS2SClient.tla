----------------------------- MODULE MCS2SClient -----------------------------
(* Instances of S2SClient for TLC. *)
EXTENDS S2SClient, TLC

CONSTANTS c1, c2, e1, e2, a1

OneAud == [e \in Entry |-> a1]

\* Callers are interchangeable.
Symmetry == Permutations(Caller)

\* The entries of one audience are interchangeable too.
SymmetryBoth == Permutations(Caller) \cup Permutations(Entry)

=============================================================================
