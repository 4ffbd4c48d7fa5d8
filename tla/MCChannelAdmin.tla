--------------------------- MODULE MCChannelAdmin ---------------------------
(* ChannelAdmin for TLC.  Requests are interchangeable.                    *)
EXTENDS ChannelAdmin, TLC

Symmetry == Permutations(Requests)
=============================================================================
