-------------------------- MODULE MCConversations --------------------------
(* Conversations for TLC.  Deliveries, replicas and numbers are each        *)
(* interchangeable.                                                        *)
EXTENDS Conversations, TLC

Symmetry == Permutations(Deliveries) \cup Permutations(Replicas) \cup Permutations(Numbers)
=============================================================================
