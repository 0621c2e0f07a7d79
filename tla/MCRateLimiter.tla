--------------------------- MODULE MCRateLimiter ---------------------------
(* RateLimiter on a small instance. *)
EXTENDS RateLimiter, TLC

CONSTANTS a, b

MCClients == {a, b}
Addresses == Permutations(MCClients)
=============================================================================
