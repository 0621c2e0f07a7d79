--------------------------- MODULE MCResultCache ---------------------------
(* ResultCache on a small instance. *)
EXTENDS ResultCache

CONSTANTS k1, k2, k3, k4

MCKeys == {k1, k2, k3, k4}

\* Digests carry no order.
Digests == Permutations(MCKeys)
=============================================================================
