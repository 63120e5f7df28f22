--------------------------- MODULE MCRetryService ---------------------------
(* Instance of RetryService for TLC: one idempotent caller, one that writes. *)
EXTENDS RetryService

CONSTANTS c1, c2

MCCallers == {c1, c2}
=============================================================================
