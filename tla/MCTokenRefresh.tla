--------------------------- MODULE MCTokenRefresh ---------------------------
(* TokenRefresh for TLC.  The replicas are interchangeable.                *)
EXTENDS TokenRefresh, TLC

Symmetry == Permutations(Replicas)
=============================================================================
