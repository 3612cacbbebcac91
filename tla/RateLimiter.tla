----------------------------- MODULE RateLimiter -----------------------------
(***************************************************************************)
(* services/ingest/auth.py, class RateLimiter, as the FastAPI worker       *)
(* threads run it.  allow(key) reads the clock BEFORE it takes the lock,   *)
(* then prunes the client's deque and admits or refuses under the lock, so *)
(* a call is two steps: ReadClock, then Admit or Refuse.  Between the two  *)
(* time passes and other threads decide.                                   *)
(***************************************************************************)
EXTENDS SlidingWindow, FiniteSets

CONSTANTS Threads,   \* the worker threads of the server
          Clients,   \* the keys of _hits: client hosts
          Idle,      \* a thread that is not inside allow()
          MaxTime    \* bound on the clock

Call == [client : Clients, now : Nat]

Admission == [stamp : Nat, at : Nat]

ASSUME IdleAssumption == Idle \notin Call
ASSUME MaxTimeAssumption == MaxTime \in Nat

VARIABLES clock,     \* time.monotonic()
          hits,      \* _hits: per client, the stamps it is still charged for
          call,      \* per thread, the call it is in and the clock it read
          admitted   \* history: per client, its admissions in decision order

vars == <<clock, hits, call, admitted>>

Init ==
  /\ clock = 0
  /\ hits = [c \in Clients |-> <<>>]
  /\ call = [t \in Threads |-> Idle]
  /\ admitted = [c \in Clients |-> <<>>]

-----------------------------------------------------------------------------
Tick ==
  /\ clock < MaxTime
  /\ clock' = clock + 1
  /\ UNCHANGED <<hits, call, admitted>>

\* allow(key): "now = self._clock()".
ReadClock(t, c) ==
  /\ call[t] = Idle
  /\ call' = [call EXCEPT ![t] = [client |-> c, now |-> clock]]
  /\ UNCHANGED <<clock, hits, admitted>>

\* The locked block ending in "hits.append(now); return True".
Admit(t) ==
  /\ call[t] # Idle
  /\ LET c   == call[t].client
         now == call[t].now
     IN \E k \in 0..Len(hits[c]) :
          /\ Pops(hits[c], now, k)
          /\ ~Full(Pruned(hits[c], k))
          /\ hits' = [hits EXCEPT ![c] = Append(Pruned(@, k), now)]
          /\ admitted' = [admitted EXCEPT ![c] = Append(@, [stamp |-> now, at |-> clock])]
  /\ call' = [call EXCEPT ![t] = Idle]
  /\ UNCHANGED clock

\* The locked block ending in "return False": a refusal is not recorded, but
\* the expired stamps are gone.
Refuse(t) ==
  /\ call[t] # Idle
  /\ LET c   == call[t].client
         now == call[t].now
     IN \E k \in 0..Len(hits[c]) :
          /\ Pops(hits[c], now, k)
          /\ Full(Pruned(hits[c], k))
          /\ hits' = [hits EXCEPT ![c] = Pruned(@, k)]
  /\ call' = [call EXCEPT ![t] = Idle]
  /\ UNCHANGED <<clock, admitted>>

Next ==
  \/ Tick
  \/ \E t \in Threads :
       \/ \E c \in Clients : ReadClock(t, c)
       \/ Admit(t)
       \/ Refuse(t)

Spec == Init /\ [][Next]_vars

-----------------------------------------------------------------------------
(* Type correctness; a client's deque never holds more than Limit stamps   *)
(* (what makes the limiter's memory per client bounded).                   *)
TypeOK ==
  /\ clock \in Nat
  /\ hits \in [Clients -> Seq(Nat)]
  /\ call \in [Threads -> Call \cup {Idle}]
  /\ admitted \in [Clients -> Seq(Admission)]
  /\ \A c \in Clients : Len(hits[c]) > 0 => Len(hits[c]) <= Limit

(* h accounts at time n for the admissions in log: it is their tail, every *)
(* admission it has dropped had left the window, stamps never run ahead of *)
(* decisions, and decisions are in order of time.                          *)
Accounts(h, log, n) ==
  /\ Len(h) <= Len(log)
  /\ \A i \in 1..Len(h) : h[i] = log[Len(log) - Len(h) + i].stamp
  /\ \A i \in 1..(Len(log) - Len(h)) : log[i].stamp + Window <= n
  /\ \A i \in 1..Len(log) : log[i].stamp <= log[i].at /\ log[i].at <= n
  /\ \A i, j \in 1..Len(log) : i <= j => log[i].at <= log[j].at

(* Every client's deque accounts for its admissions, although refusals and *)
(* late threads prune it too.                                              *)
Ledger == \A c \in Clients : Accounts(hits[c], admitted[c], clock)

(* However late the threads reach the lock, the request admitted Limit     *)
(* places after another is decided at least Window ticks after the stamp   *)
(* of that other one.                                                      *)
QuotaHolds ==
  \A c \in Clients : \A j \in 1..Len(admitted[c]) :
    j > Limit => admitted[c][j].at >= admitted[c][j - Limit].stamp + Window

(* Thread t's call ends in this step, and with a refusal.                  *)
Refused(t) == call[t] # Idle /\ call'[t] = Idle /\ admitted' = admitted

(* A refusal is deserved: in the Window ticks before the moment its call   *)
(* came in, the client was admitted Limit times (by the time of decision). *)
RefusalDeserved ==
  [][\A t \in Threads : Refused(t) =>
       LET c == call[t].client
           n == Len(admitted[c])
       IN /\ n >= Limit
          /\ \A i \in 1..n : i > n - Limit => admitted[c][i].at > call[t].now - Window]_vars

(* The limiter implements the quota.                                       *)
Promise == INSTANCE Quota
ImplementsQuota == Promise!Spec

(* services/ingest/README.md: "Sliding-window rate limiting per client":   *)
(* no more than Limit admitted requests carry stamps inside one window.    *)
SlidingWindowExact ==
  \A c \in Clients : \A S \in SUBSET (1..Len(admitted[c])) :
    Cardinality(S) > Limit =>
      \E i, j \in S : admitted[c][i].stamp - admitted[c][j].stamp >= Window
=============================================================================
