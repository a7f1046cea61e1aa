------------------------ MODULE MCRateLimiterWindow ------------------------
(* A model of RateLimiter and RateLimiterWindow for TLC. *)
EXTENDS RateLimiterWindow
=============================================================================
