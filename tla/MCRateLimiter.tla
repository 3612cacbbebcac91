---------------------------- MODULE MCRateLimiter ----------------------------
(* The rate limiter on a small instance; threads and clients are           *)
(* interchangeable.                                                        *)
EXTENDS RateLimiter, TLC

Symmetry == Permutations(Threads) \cup Permutations(Clients)
=============================================================================
