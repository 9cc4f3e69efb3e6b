--------------------------- MODULE MCRateLimiter ---------------------------
(* Small instances of RateLimiter for TLC. *)
EXTENDS RateLimiter, TLC

LimiterSymmetry == Permutations(Requests) \cup Permutations(Keys)
=============================================================================
