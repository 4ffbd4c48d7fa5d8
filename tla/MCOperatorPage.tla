---------------------------- MODULE MCOperatorPage ----------------------------
(* OperatorPage for TLC.  The chats are interchangeable.                   *)
EXTENDS OperatorPage, TLC

Symmetry == Permutations(Chats)
=============================================================================
