-------------------------- MODULE RateLimiterProofs --------------------------
(***************************************************************************)
(* Proofs about the rate limiter, for any threads, clients, limit, window  *)
(* and length of run.                                                      *)
(***************************************************************************)
EXTENDS RateLimiter, SequenceTheorems, TLAPS

(* No call holds a clock reading from the future.                          *)
CallsPast == \A t \in Threads : call[t] # Idle => call[t].now <= clock

IInv == TypeOK /\ CallsPast /\ Ledger /\ QuotaHolds

-----------------------------------------------------------------------------
(* Pruning a deque leaves its tail.                                        *)
LEMMA PrunedTail ==
  ASSUME NEW h \in Seq(Nat), NEW k \in 0..Len(h)
  PROVE  /\ Pruned(h, k) \in Seq(Nat)
         /\ Len(Pruned(h, k)) = Len(h) - k
         /\ \A i \in 1..(Len(h) - k) : Pruned(h, k)[i] = h[k + i]
<1>1. \A i \in (k + 1)..Len(h) : h[i] \in Nat
  BY ElementOfSeq
<1>2. k + 1 \in Int /\ Len(h) \in Int
  OBVIOUS
<1>3. /\ SubSeq(h, k + 1, Len(h)) \in Seq(Nat)
      /\ Len(SubSeq(h, k + 1, Len(h))) = IF k + 1 <= Len(h) THEN Len(h) - (k + 1) + 1 ELSE 0
      /\ \A i \in 1..(Len(h) - (k + 1) + 1) : SubSeq(h, k + 1, Len(h))[i] = h[k + 1 + i - 1]
  BY <1>1, <1>2, SubSeqProperties
<1> QED
  BY <1>3 DEF Pruned

(* Both times of an admission are clock readings.                          *)
LEMMA AdmissionTimes ==
  ASSUME NEW log \in Seq(Admission), NEW i \in 1..Len(log)
  PROVE  log[i].stamp \in Nat /\ log[i].at \in Nat
<1>1. log[i] \in Admission
  BY ElementOfSeq
<1> QED
  BY <1>1 DEF Admission

(* The deque keeps accounting for the same admissions as time passes.      *)
LEMMA AccountsLater ==
  ASSUME NEW h \in Seq(Nat), NEW log \in Seq(Admission),
         NEW n \in Nat, NEW m \in Nat, n <= m, Accounts(h, log, n)
  PROVE  Accounts(h, log, m)
<1>1. \A i \in 1..Len(log) : log[i].stamp \in Nat /\ log[i].at \in Nat
  BY AdmissionTimes
<1>2. Len(log) \in Nat /\ Len(h) \in Nat
  OBVIOUS
<1>3. \A i \in 1..(Len(log) - Len(h)) : log[i].stamp + Window <= m
  <2> SUFFICES ASSUME NEW i \in 1..(Len(log) - Len(h))
               PROVE  log[i].stamp + Window <= m
    OBVIOUS
  <2>1. i \in 1..Len(log) /\ log[i].stamp + Window <= n
    BY <1>2 DEF Accounts
  <2> QED
    BY <2>1, <1>1, WindowAssumption
<1>4. \A i \in 1..Len(log) : log[i].stamp <= log[i].at /\ log[i].at <= m
  BY <1>1 DEF Accounts
<1> QED
  BY <1>3, <1>4 DEF Accounts

(* An empty deque accounts for no admissions.                              *)
LEMMA AccountsEmpty == ASSUME NEW n PROVE Accounts(<<>>, <<>>, n)
<1>1. Len(<<>>) = 0 /\ 0 - 0 = 0 /\ \A i : i \notin 1..0
  OBVIOUS
<1> QED
  BY <1>1 DEF Accounts

(* ... and when stamps that had left the window are pruned.                *)
LEMMA AccountsPruned ==
  ASSUME NEW h \in Seq(Nat), NEW log \in Seq(Admission),
         NEW n \in Nat, NEW now \in Nat, now <= n,
         NEW k \in 0..Len(h), Pops(h, now, k), Accounts(h, log, n)
  PROVE  Accounts(Pruned(h, k), log, n)
<1> DEFINE g == Pruned(h, k)
<1>1. /\ g \in Seq(Nat)
      /\ Len(g) = Len(h) - k
      /\ \A i \in 1..(Len(h) - k) : g[i] = h[k + i]
  BY PrunedTail
<1>2. Len(log) \in Nat /\ Len(h) \in Nat /\ \A i \in 1..Len(log) : log[i] \in Admission
  BY ElementOfSeq
<1> HIDE DEF g
<1>3. Len(g) <= Len(log)
  BY <1>1, <1>2 DEF Accounts
<1>4. \A i \in 1..Len(g) : g[i] = log[Len(log) - Len(g) + i].stamp
  <2> SUFFICES ASSUME NEW i \in 1..Len(g)
               PROVE  g[i] = log[Len(log) - Len(g) + i].stamp
    OBVIOUS
  <2>1. g[i] = h[k + i] /\ k + i \in 1..Len(h)
    BY <1>1, <1>2
  <2>2. h[k + i] = log[Len(log) - Len(h) + (k + i)].stamp
    BY <2>1 DEF Accounts
  <2>3. Len(log) - Len(h) + (k + i) = Len(log) - Len(g) + i
    BY <1>1, <1>2
  <2> QED
    BY <2>1, <2>2, <2>3
<1>5. \A i \in 1..(Len(log) - Len(g)) : log[i].stamp + Window <= n
  <2> SUFFICES ASSUME NEW i \in 1..(Len(log) - Len(g))
               PROVE  log[i].stamp + Window <= n
    OBVIOUS
  <2>1. CASE i <= Len(log) - Len(h)
    BY <2>1, <1>2 DEF Accounts
  <2>2. CASE i > Len(log) - Len(h)
    <3> DEFINE j == i - (Len(log) - Len(h))
    <3>1. j \in 1..k /\ j \in 1..Len(h)
      BY <2>2, <1>1, <1>2
    <3>2. Len(log) - Len(h) + j = i
      BY <1>2
    <3>3. h[j] = log[i].stamp
      BY <3>1, <3>2 DEF Accounts
    <3>4. now - h[j] >= Window /\ h[j] \in Nat
      BY <3>1, ElementOfSeq DEF Pops, Expired
    <3> QED
      BY <3>3, <3>4, WindowAssumption
  <2> QED
    BY <2>1, <2>2, <1>1, <1>2
<1> QED
  BY <1>3, <1>4, <1>5 DEF Accounts, g

(* ... and when an admission is recorded in both.                          *)
LEMMA AccountsAppended ==
  ASSUME NEW h \in Seq(Nat), NEW log \in Seq(Admission),
         NEW n \in Nat, NEW now \in Nat, now <= n, Accounts(h, log, n)
  PROVE  Accounts(Append(h, now), Append(log, [stamp |-> now, at |-> n]), n)
<1> DEFINE e == [stamp |-> now, at |-> n]
           g == Append(h, now)
           l == Append(log, e)
<1>1. e \in Admission /\ e.stamp = now /\ e.at = n
  BY DEF Admission
<1> HIDE DEF e
<1>2. /\ Len(g) = Len(h) + 1
      /\ \A i \in 1..Len(h) : g[i] = h[i]
      /\ g[Len(h) + 1] = now
  BY AppendProperties
<1>3. /\ Len(l) = Len(log) + 1
      /\ \A i \in 1..Len(log) : l[i] = log[i]
      /\ l[Len(log) + 1] = e
  BY <1>1, AppendProperties
<1>4. Len(log) \in Nat /\ Len(h) \in Nat /\ \A i \in 1..Len(log) : log[i] \in Admission
  BY ElementOfSeq
<1> HIDE DEF g, l
<1>5. \A i \in 1..Len(g) : g[i] = l[Len(l) - Len(g) + i].stamp
  <2> SUFFICES ASSUME NEW i \in 1..Len(g)
               PROVE  g[i] = l[Len(l) - Len(g) + i].stamp
    OBVIOUS
  <2>0. Len(l) - Len(g) + i = Len(log) - Len(h) + i
    BY <1>2, <1>3, <1>4
  <2>1. CASE i \in 1..Len(h)
    <3>1. Len(log) - Len(h) + i \in 1..Len(log)
      BY <2>1, <1>4 DEF Accounts
    <3>2. h[i] = log[Len(log) - Len(h) + i].stamp
      BY <2>1 DEF Accounts
    <3> QED
      BY <2>0, <2>1, <3>1, <3>2, <1>2, <1>3
  <2>2. CASE i = Len(h) + 1
    <3>1. Len(log) - Len(h) + i = Len(log) + 1
      BY <2>2, <1>4
    <3> QED
      BY <2>0, <2>2, <3>1, <1>1, <1>2, <1>3
  <2> QED
    BY <2>1, <2>2, <1>2, <1>4
<1>6. \A i \in 1..(Len(l) - Len(g)) : l[i].stamp + Window <= n
  BY <1>2, <1>3, <1>4 DEF Accounts
<1>7. \A i \in 1..Len(l) : l[i].stamp <= l[i].at /\ l[i].at <= n
  <2>1. \A i \in 1..Len(log) : log[i].stamp <= log[i].at /\ log[i].at <= n
    BY DEF Accounts
  <2>2. \A i \in 1..Len(l) : i \in 1..Len(log) \/ i = Len(log) + 1
    BY <1>3, <1>4
  <2> QED
    BY <1>1, <1>3, <2>1, <2>2
<1>8. \A i, j \in 1..Len(l) : i <= j => l[i].at <= l[j].at
  <2> SUFFICES ASSUME NEW i \in 1..Len(l), NEW j \in 1..Len(l), i <= j
               PROVE  l[i].at <= l[j].at
    OBVIOUS
  <2>1. CASE j \in 1..Len(log)
    <3>1. i \in 1..Len(log)
      BY <2>1, <1>3, <1>4
    <3>2. log[i].at <= log[j].at
      BY <2>1, <3>1 DEF Accounts
    <3> QED
      BY <2>1, <3>1, <3>2, <1>3
  <2>2. CASE j = Len(log) + 1
    BY <2>2, <1>1, <1>3, <1>7
  <2> QED
    BY <2>1, <2>2, <1>3, <1>4
<1>9. Len(g) <= Len(l)
  BY <1>2, <1>3, <1>4 DEF Accounts
<1> QED
  BY <1>5, <1>6, <1>7, <1>8, <1>9 DEF Accounts, g, l, e

-----------------------------------------------------------------------------
(* The initial state.                                                      *)
LEMMA InitIInv == Init => IInv
<1> SUFFICES ASSUME Init PROVE IInv
  OBVIOUS
<1>1. \A c \in Clients : hits[c] = <<>> /\ admitted[c] = <<>>
  BY DEF Init
<1>2. Len(<<>>) = 0
  OBVIOUS
<1>3. TypeOK
  BY <1>1, <1>2, EmptySeq DEF Init, TypeOK
<1>4. CallsPast
  BY DEF Init, CallsPast
<1>5. Ledger /\ QuotaHolds
  <2>1. \A i : i \notin 1..0
    OBVIOUS
  <2>2. \A c \in Clients : Accounts(hits[c], admitted[c], clock)
    BY <1>1, AccountsEmpty
  <2> QED
    BY <1>1, <1>2, <2>1, <2>2 DEF Ledger, QuotaHolds
<1> QED
  BY <1>3, <1>4, <1>5 DEF IInv

(* Time passing.                                                           *)
LEMMA TickIInv == IInv /\ Tick => IInv'
<1> SUFFICES ASSUME IInv, Tick PROVE IInv'
  OBVIOUS
<1> USE DEF IInv, Tick
<1>1. TypeOK'
  BY DEF TypeOK
<1>2. CallsPast'
  BY DEF TypeOK, CallsPast, Call
<1>3. Ledger'
  <2> SUFFICES ASSUME NEW c \in Clients
               PROVE  Accounts(hits[c], admitted[c], clock + 1)
    BY DEF Ledger, Accounts
  <2>1. admitted[c] \in Seq(Admission) /\ hits[c] \in Seq(Nat) /\ clock \in Nat
    BY DEF TypeOK
  <2>2. clock + 1 \in Nat /\ clock <= clock + 1 /\ Accounts(hits[c], admitted[c], clock)
    BY <2>1 DEF Ledger
  <2> QED
    BY <2>1, <2>2, AccountsLater
<1>4. QuotaHolds'
  BY DEF QuotaHolds
<1> QED
  BY <1>1, <1>2, <1>3, <1>4

(* A thread entering allow().                                              *)
LEMMA ReadClockIInv ==
  ASSUME IInv, NEW t \in Threads, NEW c \in Clients, ReadClock(t, c)
  PROVE  IInv'
<1> USE DEF IInv, ReadClock
<1>1. [client |-> c, now |-> clock] \in Call
  BY DEF TypeOK, Call
<1>2. TypeOK'
  BY <1>1 DEF TypeOK
<1>3. CallsPast'
  BY <1>1 DEF TypeOK, CallsPast
<1>4. Ledger' /\ QuotaHolds'
  BY DEF Ledger, QuotaHolds, Accounts
<1> QED
  BY <1>2, <1>3, <1>4

(* The call a thread is in when it takes the lock.                         *)
LEMMA PendingCall ==
  ASSUME TypeOK, CallsPast, NEW t \in Threads, call[t] # Idle
  PROVE  /\ call[t].client \in Clients
         /\ call[t].now \in Nat
         /\ call[t].now <= clock
<1>1. call[t] \in Call
  BY DEF TypeOK
<1> QED
  BY <1>1 DEF CallsPast, Call

(* Admitting keeps the quota: the admission Limit places back was dropped  *)
(* from the deque, now or earlier.                                         *)
LEMMA RoomInDeque ==
  ASSUME NEW h \in Seq(Nat), NEW log \in Seq(Admission), NEW n \in Nat,
         Accounts(h, log, n), ~Full(h)
  PROVE  /\ Limit > 0
         /\ Len(log) >= Limit => log[Len(log) - Limit + 1].stamp + Window <= n
<1>1. Len(h) \in Nat /\ Len(log) \in Nat /\ Len(h) < Limit
  BY LimitAssumption DEF Full
<1>2. ASSUME Len(log) >= Limit
      PROVE  log[Len(log) - Limit + 1].stamp + Window <= n
  <2>1. Len(log) - Limit + 1 \in 1..(Len(log) - Len(h))
    BY <1>1, <1>2, LimitAssumption
  <2> QED
    BY <2>1 DEF Accounts
<1> QED
  BY <1>1, <1>2, LimitAssumption

(* A call admitted.                                                        *)
LEMMA AdmitIInv ==
  ASSUME IInv, NEW t \in Threads, Admit(t)
  PROVE  IInv'
<1> DEFINE c   == call[t].client
           now == call[t].now
           e   == [stamp |-> now, at |-> clock]
<1>1. c \in Clients /\ now \in Nat /\ now <= clock /\ clock \in Nat
  BY PendingCall DEF IInv, Admit, TypeOK
<1>2. PICK k \in 0..Len(hits[c]) :
        /\ Pops(hits[c], now, k)
        /\ ~Full(Pruned(hits[c], k))
        /\ hits' = [hits EXCEPT ![c] = Append(Pruned(@, k), now)]
        /\ admitted' = [admitted EXCEPT ![c] = Append(@, e)]
  BY DEF Admit
<1>3. hits[c] \in Seq(Nat) /\ admitted[c] \in Seq(Admission) /\ e \in Admission
  BY <1>1 DEF IInv, TypeOK, Admission
<1> DEFINE g == Pruned(hits[c], k)
<1>4. g \in Seq(Nat)
  BY <1>3, PrunedTail
<1>5. Accounts(g, admitted[c], clock)
  BY <1>1, <1>2, <1>3, AccountsPruned DEF IInv, Ledger
<1>6. /\ hits' = [hits EXCEPT ![c] = Append(g, now)]
      /\ hits'[c] = Append(g, now)
      /\ admitted'[c] = Append(admitted[c], e)
      /\ \A d \in Clients \ {c} : hits'[d] = hits[d] /\ admitted'[d] = admitted[d]
      /\ clock' = clock
  BY <1>1, <1>2 DEF IInv, TypeOK, Admit
<1>7. ~Full(g)
  BY <1>2
<1>8. Append(g, now) \in Seq(Nat) /\ Len(Append(g, now)) = Len(g) + 1
  BY <1>1, <1>4, AppendProperties
<1>9. Append(admitted[c], e) \in Seq(Admission)
  BY <1>3, AppendProperties
<1> HIDE DEF c, now, e, g
<1>10. TypeOK'
  <2>1. call' = [call EXCEPT ![t] = Idle]
    BY DEF Admit
  <2>2. Len(g) + 1 <= Limit
    BY <1>4, <1>7, LimitAssumption DEF Full
  <2>3. hits' \in [Clients -> Seq(Nat)] /\ admitted' \in [Clients -> Seq(Admission)]
    BY <1>1, <1>2, <1>6, <1>8, <1>9 DEF IInv, TypeOK
  <2>4. \A d \in Clients : Len(hits'[d]) > 0 => Len(hits'[d]) <= Limit
    BY <1>6, <1>8, <2>2 DEF IInv, TypeOK
  <2> QED
    BY <1>6, <2>1, <2>3, <2>4 DEF IInv, TypeOK
<1>11. CallsPast'
  BY <1>6 DEF Admit, IInv, CallsPast, TypeOK
<1>12. Ledger'
  <2>1. Accounts(Append(g, now), Append(admitted[c], e), clock)
    BY <1>1, <1>3, <1>4, <1>5, AccountsAppended DEF e
  <2>2. \A d \in Clients : Accounts(hits'[d], admitted'[d], clock)
    BY <1>6, <2>1 DEF IInv, Ledger
  <2> QED
    BY <1>6, <2>2 DEF Ledger, Accounts
<1>13. QuotaHolds'
  <2> SUFFICES ASSUME NEW d \in Clients, NEW j \in 1..Len(admitted'[d]), j > Limit
               PROVE  admitted'[d][j].at >= admitted'[d][j - Limit].stamp + Window
    BY DEF QuotaHolds
  <2>1. CASE d # c
    BY <1>6, <2>1 DEF IInv, QuotaHolds
  <2>2. CASE d = c
    <3> DEFINE log == admitted[c]
    <3>1. /\ Len(Append(log, e)) = Len(log) + 1
          /\ \A i \in 1..Len(log) : Append(log, e)[i] = log[i]
          /\ Append(log, e)[Len(log) + 1] = e
      BY <1>3, AppendProperties
    <3>2. Len(log) \in Nat
      BY <1>3
    <3>3. /\ Limit > 0
          /\ Len(log) >= Limit => log[Len(log) - Limit + 1].stamp + Window <= clock
      BY <1>1, <1>3, <1>4, <1>5, <1>7, RoomInDeque
    <3>4. j - Limit \in 1..Len(log)
      BY <2>2, <1>6, <3>1, <3>2, <3>3, LimitAssumption
    <3>5. CASE j \in 1..Len(log)
      <4>1. log[j].at >= log[j - Limit].stamp + Window
        BY <1>1, <3>5 DEF IInv, QuotaHolds
      <4> QED
        BY <2>2, <1>6, <3>1, <3>4, <3>5, <4>1
    <3>6. CASE j = Len(log) + 1
      <4>1. j - Limit = Len(log) - Limit + 1 /\ Len(log) >= Limit
        BY <3>2, <3>4, <3>6, LimitAssumption
      <4>2. log[j - Limit].stamp + Window <= clock
        BY <3>3, <4>1
      <4>3. log[j - Limit].stamp \in Nat
        BY <1>3, <3>4, AdmissionTimes
      <4>4. admitted'[d][j].at = clock /\ admitted'[d][j - Limit] = log[j - Limit]
        BY <2>2, <1>6, <3>1, <3>4, <3>6 DEF e
      <4> QED
        BY <4>2, <4>3, <4>4, <1>1, WindowAssumption
    <3>7. j \in 1..Len(log) \/ j = Len(log) + 1
      BY <2>2, <1>6, <3>1, <3>2
    <3> QED
      BY <3>5, <3>6, <3>7
  <2> QED
    BY <2>1, <2>2
<1> QED
  BY <1>10, <1>11, <1>12, <1>13 DEF IInv

(* A call refused: pruning is all that happens.                            *)
LEMMA RefuseIInv ==
  ASSUME IInv, NEW t \in Threads, Refuse(t)
  PROVE  IInv'
<1> DEFINE c   == call[t].client
           now == call[t].now
<1>1. c \in Clients /\ now \in Nat /\ now <= clock /\ clock \in Nat
  BY PendingCall DEF IInv, Refuse, TypeOK
<1>2. PICK k \in 0..Len(hits[c]) :
        /\ Pops(hits[c], now, k)
        /\ hits' = [hits EXCEPT ![c] = Pruned(@, k)]
  BY DEF Refuse
<1> DEFINE g == Pruned(hits[c], k)
<1>3. hits[c] \in Seq(Nat) /\ admitted[c] \in Seq(Admission)
  BY <1>1 DEF IInv, TypeOK
<1>4. g \in Seq(Nat) /\ Len(g) = Len(hits[c]) - k
  BY <1>3, PrunedTail
<1>5. Accounts(g, admitted[c], clock)
  BY <1>1, <1>2, <1>3, AccountsPruned DEF IInv, Ledger
<1>6. /\ hits' = [hits EXCEPT ![c] = g]
      /\ hits'[c] = g
      /\ \A d \in Clients \ {c} : hits'[d] = hits[d]
      /\ clock' = clock /\ admitted' = admitted
      /\ call' = [call EXCEPT ![t] = Idle]
  BY <1>1, <1>2 DEF IInv, TypeOK, Refuse
<1> HIDE DEF c, now, g
<1>7. TypeOK'
  <2>1. \A d \in Clients : Len(hits'[d]) > 0 => Len(hits'[d]) <= Limit
    <3>1. Len(g) > 0 => Len(hits[c]) > 0 /\ Len(g) <= Len(hits[c])
      BY <1>3, <1>4
    <3>2. Len(hits[c]) > 0 => Len(hits[c]) <= Limit
      BY <1>1 DEF IInv, TypeOK
    <3> QED
      BY <1>3, <1>4, <1>6, <3>1, <3>2, LimitAssumption DEF IInv, TypeOK
  <2> QED
    BY <1>4, <1>6, <2>1 DEF IInv, TypeOK
<1>8. CallsPast'
  BY <1>6 DEF IInv, CallsPast, TypeOK
<1>9. Ledger'
  <2>1. \A d \in Clients : Accounts(hits'[d], admitted[d], clock)
    BY <1>5, <1>6 DEF IInv, Ledger
  <2>2. clock' = clock /\ admitted' = admitted
    BY <1>6
  <2> QED
    BY <2>1, <2>2 DEF Ledger
<1>10. QuotaHolds'
  BY <1>6 DEF IInv, QuotaHolds
<1> QED
  BY <1>7, <1>8, <1>9, <1>10 DEF IInv

(* Every step.                                                             *)
LEMMA NextIInv == IInv /\ [Next]_vars => IInv'
<1> SUFFICES ASSUME IInv, [Next]_vars PROVE IInv'
  OBVIOUS
<1>1. CASE Tick
  BY <1>1, TickIInv
<1>2. ASSUME NEW t \in Threads, NEW c \in Clients, ReadClock(t, c) PROVE IInv'
  BY <1>2, ReadClockIInv
<1>3. ASSUME NEW t \in Threads, Admit(t) PROVE IInv'
  BY <1>3, AdmitIInv
<1>4. ASSUME NEW t \in Threads, Refuse(t) PROVE IInv'
  BY <1>4, RefuseIInv
<1>5. CASE UNCHANGED vars
  BY <1>5 DEF vars, IInv, TypeOK, CallsPast, Ledger, Accounts, QuotaHolds
<1> QED
  BY <1>1, <1>2, <1>3, <1>4, <1>5 DEF Next

(* The inductive invariant holds throughout.                               *)
THEOREM Invariance == Spec => []IInv
<1> QED
  BY InitIInv, NextIInv, PTL DEF Spec

(* No client's deque ever holds more than Limit stamps.                    *)
THEOREM TypeCorrect == Spec => []TypeOK
<1>1. IInv => TypeOK
  BY DEF IInv
<1> QED
  BY <1>1, Invariance, PTL

(* The deque accounts for the client's admissions in every state.          *)
THEOREM LedgerCorrect == Spec => []Ledger
<1>1. IInv => Ledger
  BY DEF IInv
<1> QED
  BY <1>1, Invariance, PTL

(* Every client is held to its quota, whatever the threads' delays between *)
(* the clock and the lock.                                                 *)
THEOREM QuotaCorrect == Spec => []QuotaHolds
<1>1. IInv => QuotaHolds
  BY DEF IInv
<1> QED
  BY <1>1, Invariance, PTL

-----------------------------------------------------------------------------
(* A client whose pruned deque is full was admitted Limit times since now  *)
(* minus Window: its head has not left the window, and what was admitted   *)
(* after the head was decided after it.                                    *)
LEMMA FullMeansBusy ==
  ASSUME NEW h \in Seq(Nat), NEW log \in Seq(Admission), NEW n \in Nat,
         NEW now \in Nat, NEW k \in 0..Len(h),
         Accounts(h, log, n), Pops(h, now, k), Full(Pruned(h, k))
  PROVE  /\ Len(log) >= Limit
         /\ \A i \in 1..Len(log) : i > Len(log) - Limit => log[i].at > now - Window
<1>1. Len(h) \in Nat /\ Len(log) \in Nat /\ Len(h) <= Len(log)
  BY DEF Accounts
<1>2. Len(h) - k >= Limit
  BY PrunedTail DEF Full
<1>3. Len(log) >= Limit
  BY <1>1, <1>2, LimitAssumption
<1> SUFFICES ASSUME NEW i \in 1..Len(log), i > Len(log) - Limit
             PROVE  log[i].at > now - Window
  BY <1>3
<1>4. k + 1 \in 1..Len(h) /\ k < Len(h)
  BY <1>1, <1>2, LimitAssumption
<1> DEFINE p == Len(log) - Len(h) + (k + 1)
<1>5. p \in 1..Len(log) /\ p <= i
  BY <1>1, <1>2, <1>4, LimitAssumption
<1>6. h[k + 1] = log[p].stamp
  BY <1>4 DEF Accounts
<1>7. ~(now - h[k + 1] >= Window)
  BY <1>4 DEF Pops, Expired
<1>8. log[p].stamp <= log[p].at /\ log[p].at <= log[i].at
  BY <1>5 DEF Accounts
<1>9. log[p].stamp \in Nat /\ log[p].at \in Nat /\ log[i].at \in Nat
  BY <1>5, AdmissionTimes
<1>10. \A x, y, z \in Nat : ~(now - x >= Window) /\ x <= y /\ y <= z => z > now - Window
  BY WindowAssumption
<1> HIDE DEF p
<1> QED
  BY <1>6, <1>7, <1>8, <1>9, <1>10

(* Only a Refuse step ends a call without an admission.                    *)
LEMMA RefusedIsRefuse ==
  ASSUME IInv, Next, NEW t \in Threads, Refused(t)
  PROVE  Refuse(t)
<1> USE DEF Refused
<1>1. CASE Tick
  BY <1>1 DEF Tick
<1>2. ASSUME NEW u \in Threads, NEW c \in Clients, ReadClock(u, c) PROVE FALSE
  BY <1>2 DEF ReadClock, IInv, TypeOK
<1>3. ASSUME NEW u \in Threads, Admit(u) PROVE FALSE
  <2>1. call[u].client \in Clients /\ call[u].now \in Nat /\ clock \in Nat
    BY <1>3, PendingCall DEF IInv, TypeOK, Admit
  <2> DEFINE log == admitted[call[u].client]
             e == [stamp |-> call[u].now, at |-> clock]
  <2>2. admitted'[call[u].client] = Append(log, e)
    BY <1>3, <2>1 DEF Admit, IInv, TypeOK
  <2>3. log \in Seq(Admission) /\ e \in Admission
    BY <2>1 DEF IInv, TypeOK, Admission
  <2>4. Len(Append(log, e)) = Len(log) + 1 /\ Len(log) \in Nat
    BY <2>3, AppendProperties
  <2> HIDE DEF log, e
  <2>5. Append(log, e) = log
    BY <2>2 DEF log
  <2> QED
    BY <2>4, <2>5
<1>4. ASSUME NEW u \in Threads, Refuse(u) PROVE Refuse(t)
  BY <1>4 DEF Refuse, IInv, TypeOK
<1> QED
  BY <1>1, <1>2, <1>3, <1>4 DEF Next

(* Whoever is refused had used its quota up: a late thread never refuses a *)
(* client for admissions it has not had.                                   *)
THEOREM RefusalCorrect == Spec => RefusalDeserved
<1> DEFINE Deserved ==
      \A t \in Threads : Refused(t) =>
        LET c == call[t].client
            n == Len(admitted[c])
        IN /\ n >= Limit
           /\ \A i \in 1..n : i > n - Limit => admitted[c][i].at > call[t].now - Window
<1>1. IInv /\ [Next]_vars => [Deserved]_vars
  <2> SUFFICES ASSUME IInv, Next, NEW t \in Threads, Refused(t)
               PROVE  LET c == call[t].client
                          n == Len(admitted[c])
                      IN /\ n >= Limit
                         /\ \A i \in 1..n :
                              i > n - Limit => admitted[c][i].at > call[t].now - Window
    OBVIOUS
  <2>1. Refuse(t)
    BY RefusedIsRefuse
  <2>2. call[t].client \in Clients /\ call[t].now \in Nat /\ clock \in Nat
    BY PendingCall DEF IInv, TypeOK, Refused
  <2>3. PICK k \in 0..Len(hits[call[t].client]) :
          /\ Pops(hits[call[t].client], call[t].now, k)
          /\ Full(Pruned(hits[call[t].client], k))
    BY <2>1 DEF Refuse
  <2>4. /\ hits[call[t].client] \in Seq(Nat)
        /\ admitted[call[t].client] \in Seq(Admission)
        /\ Accounts(hits[call[t].client], admitted[call[t].client], clock)
    BY <2>2 DEF IInv, TypeOK, Ledger
  <2> QED
    BY <2>2, <2>3, <2>4, FullMeansBusy
<1> QED
  BY <1>1, Invariance, PTL DEF Spec, RefusalDeserved

(* The limiter, threads, deques and lock, implements the quota.            *)
THEOREM QuotaImplemented == Spec => ImplementsQuota
<1>1. Init => Promise!Init
  BY DEF Init, Promise!Init
<1>2. IInv /\ [Next]_vars => [Promise!Next]_(Promise!vars)
  <2> SUFFICES ASSUME IInv, [Next]_vars PROVE [Promise!Next]_(Promise!vars)
    OBVIOUS
  <2> USE DEF Promise!vars
  <2>1. CASE Tick
    BY <2>1 DEF Tick, Promise!Next, Promise!Tick
  <2>2. ASSUME NEW t \in Threads, NEW c \in Clients, ReadClock(t, c)
        PROVE  UNCHANGED Promise!vars
    BY <2>2 DEF ReadClock
  <2>3. ASSUME NEW t \in Threads, Admit(t) PROVE Promise!Next
    <3> DEFINE c == call[t].client
               now == call[t].now
    <3>1. c \in Clients /\ now \in 0..clock /\ clock \in Nat
      BY <2>3, PendingCall DEF IInv, Admit, TypeOK
    <3>2. PICK k \in 0..Len(hits[c]) :
            /\ Pops(hits[c], now, k)
            /\ ~Full(Pruned(hits[c], k))
      BY <2>3 DEF Admit
    <3>3. hits[c] \in Seq(Nat) /\ admitted[c] \in Seq(Admission)
      BY <3>1 DEF IInv, TypeOK
    <3>4. /\ Pruned(hits[c], k) \in Seq(Nat)
          /\ Accounts(Pruned(hits[c], k), admitted[c], clock)
      <4>1. Pruned(hits[c], k) \in Seq(Nat)
        BY <3>3, PrunedTail
      <4>2. Accounts(hits[c], admitted[c], clock)
        BY <3>1 DEF IInv, Ledger
      <4>3. now \in Nat /\ now <= clock
        BY <3>1
      <4> HIDE DEF c, now
      <4> QED
        BY <3>1, <3>2, <3>3, <4>1, <4>2, <4>3, AccountsPruned
    <3>5. Promise!HasRoom(admitted[c])
      BY <3>1, <3>2, <3>3, <3>4, RoomInDeque DEF Promise!HasRoom
    <3>6. Promise!Admit(c)
      BY <2>3, <3>1, <3>5 DEF Admit, Promise!Admit
    <3> QED
      BY <3>1, <3>6 DEF Promise!Next
  <2>4. ASSUME NEW t \in Threads, Refuse(t) PROVE UNCHANGED Promise!vars
    BY <2>4 DEF Refuse
  <2>5. CASE UNCHANGED vars
    BY <2>5 DEF vars
  <2> QED
    BY <2>1, <2>2, <2>3, <2>4, <2>5 DEF Next
<1> QED
  BY <1>1, <1>2, Invariance, PTL DEF Spec, ImplementsQuota, Promise!Spec
=============================================================================
