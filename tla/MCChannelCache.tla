--------------------------- MODULE MCChannelCache ---------------------------
(* ChannelCache for TLC.  Replicas, channels, keys, lookups and mutations  *)
(* are each interchangeable.                                               *)
EXTENDS ChannelCache, TLC

Symmetry ==
    Permutations(Replicas) \cup Permutations(Channels) \cup Permutations(Keys)
    \cup Permutations(Lookups) \cup Permutations(Mutations)
=============================================================================
