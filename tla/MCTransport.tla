---------------------------- MODULE MCTransport ----------------------------
EXTENDS Transport, TLC

CONSTANTS c1, c2, dest, other, home, away

Symmetry == Permutations({c1, c2})

=============================================================================
