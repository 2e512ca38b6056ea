--------------------------- MODULE MCRateLimiter ----------------------------
(* Values for the constants of RateLimiter: tokens that take two ticks to  *)
(* refill, a bucket of two of them, and clocks one tick apart.    *)
EXTENDS RateLimiter, TLC

CONSTANTS c1, c2

OneTickApart == (c1 :> 0) @@ (c2 :> 1)
=============================================================================
