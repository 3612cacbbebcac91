---------------------------- MODULE SlidingWindow ----------------------------
(***************************************************************************)
(* The data of one client of services/ingest/auth.py's RateLimiter: a      *)
(* deque of the clock readings under which its admitted requests were      *)
(* recorded, oldest first.                                                 *)
(***************************************************************************)
EXTENDS Integers, Sequences

CONSTANTS Limit,   \* requests admitted per window: any int the environment sets
          Window   \* settings.rate_window_seconds, in clock ticks

ASSUME LimitAssumption == Limit \in Int
ASSUME WindowAssumption == Window \in Nat

-----------------------------------------------------------------------------
(* Slips the operators below could have been written with.                 *)

ExpiredLate(stamp, now) == now - stamp > Window

FullLate(h) == Len(h) > Limit

PrunedToo(h, k) == SubSeq(h, k + 2, Len(h))

-----------------------------------------------------------------------------

Expired(stamp, now) == now - stamp >= Window

\* "while hits and now - hits[0] >= window: hits.popleft()" ends after k pops.
Pops(h, now, k) ==
  /\ k \in 0..Len(h)
  /\ \A i \in 1..k : Expired(h[i], now)
  /\ k < Len(h) => ~Expired(h[k + 1], now)

Pruned(h, k) == SubSeq(h, k + 1, Len(h))

Full(h) == Len(h) >= Limit
=============================================================================
