--------------------------- MODULE MCJobSnapshot ---------------------------
(* JobSnapshot on a small instance. *)
EXTENDS JobSnapshot, TLC

CONSTANTS j1, c1, c2, e1

MCJobIds == {j1}
MCFetchers == {c1, c2}
MCBodies == {"full"}

\* Requests carry no order.
Requests == Permutations(MCFetchers)
=============================================================================
