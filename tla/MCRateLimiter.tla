--------------------------- MODULE MCRateLimiter ---------------------------
(* Instance of RateLimiter for TLC: two clients of one key. *)
EXTENDS RateLimiter

CONSTANTS c1, c2

MCClients == {c1, c2}
=============================================================================
