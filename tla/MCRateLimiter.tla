---------------------------- MODULE MCRateLimiter ----------------------------
(* A small instance of RateLimiter: two clients, a token every second and a *)
(* half, so that a Retry-After is rounded.                                  *)
EXTENDS RateLimiter, TLC

CONSTANTS i1, i2

Symmetry == Permutations({i1, i2})

==============================================================================
