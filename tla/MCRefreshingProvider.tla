------------------------- MODULE MCRefreshingProvider -------------------------
(* Instances of RefreshingProvider for TLC.                                *)
EXTENDS RefreshingProvider, TLC

CONSTANTS g1, g2, g3
=============================================================================
