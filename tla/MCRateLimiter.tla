--------------------------- MODULE MCRateLimiter ---------------------------
(* Small instances of RateLimiter for TLC. *)
EXTENDS RateLimiter

CONSTANTS p1, p2

TwoProcesses == {p1, p2}
=============================================================================
