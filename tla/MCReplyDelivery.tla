-------------------------- MODULE MCReplyDelivery --------------------------
(* ReplyDelivery for TLC.  The panel's ids are interchangeable: no action  *)
(* or safety property tells one from another.                              *)
EXTENDS ReplyDelivery, TLC

Symmetry == Permutations(Mids)
=============================================================================
