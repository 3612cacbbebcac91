-------------------------- MODULE CorrelationProofs --------------------------
(***************************************************************************)
(* Proofs about the correlation evaluator, for every rule and every event  *)
(* sequence: a match is real, and for conditions that ask a count to reach *)
(* a threshold the windows that open at an event are enough.               *)
(***************************************************************************)
EXTENDS Correlation, SequenceTheorems, FiniteSetTheorems, WellFoundedInduction, TLAPS

(* What the steps keep: the events collected so far are the matching ones, *)
(* and every window already compared stayed quiet.                         *)
Gathered == matched = {i \in 1..(next - 1) : events[i].matches}

Progress ==
  /\ pc # "done" => verdict = "none"
  /\ pc \in {"collect", "scan"} \/ verdict \in {"match", "quiet"} => ~Rejected
  /\ pc = "scan" \/ verdict \in {"match", "quiet"} => next = Len(events) + 1

Scanned ==
  /\ pc = "scan" =>
       /\ starts \subseteq {events[i].time : i \in matched}
       /\ \A i \in matched : events[i].time \in starts \/ ~Fires(matched, events[i].time)
  /\ verdict = "match" => \E i \in matched : Fires(matched, events[i].time)
  /\ verdict = "quiet" => \A i \in matched : ~Fires(matched, events[i].time)

IInv == TypeOK /\ Gathered /\ Progress /\ Scanned

-----------------------------------------------------------------------------
(* A non-empty set of natural numbers has a least element.                 *)
LEMMA LeastNat ==
  ASSUME NEW T \in SUBSET Nat, T # {}
  PROVE  \E x \in T : \A y \in T : x <= y
<1>1. IsWellFoundedOn(OpToRel(<, Nat), Nat)
  BY NatLessThanWellFounded
<1>2. PICK x \in T : \A y \in T : ~(<<y, x>> \in OpToRel(<, Nat))
  BY <1>1, WFMin
<1>3. \A y \in T : ~(y < x)
  BY <1>2 DEF OpToRel
<1> QED
  BY <1>3

(* The scan takes the earliest opening.                                    *)
LEMMA EarliestIn ==
  ASSUME NEW S \in SUBSET Nat, S # {}
  PROVE  Earliest(S) \in S
BY LeastNat DEF Earliest

(* Tallies grow with the set of events they count.                         *)
LEMMA TallyMonotone ==
  ASSUME NEW T, IsFiniteSet(T), NEW S \in SUBSET T
  PROVE  Tally(S) \in Nat /\ Tally(T) \in Nat /\ Tally(S) <= Tally(T)
<1>1. IsFiniteSet(S) /\ Cardinality(S) <= Cardinality(T)
  BY FS_Subset
<1>2. Cardinality(S) \in Nat /\ Cardinality(T) \in Nat
  BY <1>1, FS_CardinalityType
<1> DEFINE V(X) == {events[i].value : i \in X}
<1>3. IsFiniteSet(V(T))
  <2> DEFINE f == [i \in T |-> events[i].value]
  <2>1. f \in Surjection(T, V(T))
    BY DEF Surjection
  <2> QED
    BY <2>1, FS_Surjection
<1>4. V(S) \in SUBSET V(T)
  OBVIOUS
<1> HIDE DEF V
<1>5. /\ IsFiniteSet(V(S))
      /\ Cardinality(V(S)) <= Cardinality(V(T))
      /\ Cardinality(V(S)) \in Nat /\ Cardinality(V(T)) \in Nat
  BY <1>3, <1>4, FS_Subset, FS_CardinalityType
<1> QED
  BY <1>1, <1>2, <1>5 DEF Tally, V

(* ... so a condition that asks to reach the threshold stays true.         *)
LEMMA ReachMonotone ==
  ASSUME NEW op \in {"gte", "gt"}, NEW m \in Nat, NEW n \in Nat, m <= n,
         NEW t \in Int, Compare(op, m, t)
  PROVE  Compare(op, n, t)
BY DEF Compare

(* Relevant events have a place in time.                                   *)
LEMMA RelevantTime ==
  ASSUME TypeOK, NEW i \in Relevant
  PROVE  events[i].time \in Nat /\ events[i].time \in Moments /\ i \in 1..Len(events)
<1>1. i \in 1..Len(events) /\ events[i].time # NoTime
  BY DEF Relevant
<1>2. events \in Seq(Event)
  BY DEF TypeOK
<1>3. events[i] \in Event
  BY <1>1, <1>2, ElementOfSeq
<1> QED
  BY <1>1, <1>3, MomentsAssumption DEF Event

(* The evaluator's windows over the relevant events are the rule's.        *)
LEMMA FiresIsFiresAt ==
  ASSUME TypeOK, NEW s \in Int
  PROVE  Fires(Relevant, s) <=> FiresAt(s)
<1>1. ASSUME NEW g PROVE Counted(Relevant, g, s) = Members(g, s)
  <2>1. \A i \in Relevant : events[i].time \in Nat
    BY RelevantTime
  <2>2. \A i \in Relevant : InWindow(i, s) <=> events[i].time \in s..(s + Span - 1)
    BY <2>1, SpanAssumption DEF InWindow
  <2> QED
    BY <2>2 DEF Counted, Members
<1>2. ASSUME NEW g PROVE Count(Relevant, g, s) = Tally(Members(g, s))
  BY <1>1 DEF Count, Tally
<1> QED
  BY <1>1, <1>2 DEF Fires, FiresAt

(* The heart of the scan: if some window reaches the threshold, so does    *)
(* the one that opens at the earliest event inside it.                     *)
LEMMA AnchoredScan ==
  ASSUME TypeOK, rule.op \in {"gte", "gt"}, NEW s \in Int, FiresAt(s)
  PROVE  \E i \in Relevant : FiresAt(events[i].time)
<1>1. PICK g \in Groups :
        Members(g, s) # {} /\ Compare(rule.op, Tally(Members(g, s)), rule.threshold)
  BY DEF FiresAt
<1>2. \A i \in Relevant : events[i].time \in Nat
  BY RelevantTime
<1> DEFINE T == {events[i].time : i \in Members(g, s)}
<1>3. T \in SUBSET Nat /\ T # {}
  BY <1>1, <1>2 DEF Members
<1>4. PICK t \in T : \A u \in T : t <= u
  BY <1>3, LeastNat
<1>5. PICK i \in Members(g, s) : t = events[i].time
  BY <1>4
<1>6. i \in Relevant /\ t \in Nat /\ s <= t
  BY <1>2, <1>5 DEF Members
<1>7. Members(g, s) \in SUBSET Members(g, t)
  <2> SUFFICES ASSUME NEW j \in Members(g, s) PROVE j \in Members(g, t)
    OBVIOUS
  <2>1. j \in Relevant /\ events[j].group = g /\ events[j].time \in s..(s + Span - 1)
    BY DEF Members
  <2>2. t <= events[j].time
    BY <1>4
  <2>3. events[j].time \in t..(t + Span - 1)
    BY <1>2, <1>6, <2>1, <2>2, SpanAssumption
  <2> QED
    BY <2>1, <2>3 DEF Members
<1>8. IsFiniteSet(Members(g, t))
  <2>1. Members(g, t) \in SUBSET (1..Len(events))
    BY DEF Members, Relevant
  <2>2. Len(events) \in Int
    BY DEF TypeOK
  <2>3. IsFiniteSet(1..Len(events))
    BY <2>2, FS_Interval
  <2> QED
    BY <2>1, <2>3, FS_Subset
<1>9. /\ Tally(Members(g, s)) \in Nat /\ Tally(Members(g, t)) \in Nat
      /\ Tally(Members(g, s)) <= Tally(Members(g, t))
  BY <1>7, <1>8, TallyMonotone
<1>10. rule.threshold \in Int
  BY ThresholdsAssumption DEF TypeOK, Rule
<1>11. Compare(rule.op, Tally(Members(g, t)), rule.threshold)
  BY <1>1, <1>9, <1>10, ReachMonotone
<1> QED
  BY <1>1, <1>5, <1>6, <1>7, <1>11 DEF FiresAt

-----------------------------------------------------------------------------
(* The initial state: nothing collected, nothing compared.                 *)
LEMMA InitIInv == Init => IInv
<1> SUFFICES ASSUME Init PROVE IInv
  OBVIOUS
<1>1. events \in Seq(Event)
  BY SeqDef, MaxEventsAssumption DEF Init
<1>2. Len(events) \in Nat
  BY <1>1
<1>3. TypeOK
  BY <1>1, <1>2 DEF Init, TypeOK
<1>4. Gathered /\ Progress /\ Scanned
  BY DEF Init, Gathered, Progress, Scanned
<1> QED
  BY <1>3, <1>4 DEF IInv

(* What a step leaves alone when neither argument nor collection changes.  *)
LEMMA FiresStable ==
  ASSUME UNCHANGED <<rule, events>>
  PROVE  \A M, s : Fires(M, s)' <=> Fires(M, s)
BY DEF Fires, Counted, Count, InWindow

(* Every step keeps the invariant.                                         *)
LEMMA NextIInv == IInv /\ [Next]_vars => IInv'
<1> SUFFICES ASSUME IInv, [Next]_vars PROVE IInv'
  OBVIOUS
<1> USE DEF IInv
<1>0. next \in Nat \ {0} /\ Len(events) \in Nat /\ events \in Seq(Event)
  BY DEF TypeOK
<1>1. CASE Check
  <2>1. TypeOK'
    BY <1>1 DEF Check, Finish, TypeOK
  <2>2. Gathered'
    BY <1>1 DEF Check, Gathered
  <2>3. Progress'
    BY <1>1 DEF Check, Finish, Progress, Rejected
  <2>4. Scanned'
    BY <1>1 DEF Check, Finish, Scanned, Progress
  <2> QED
    BY <2>1, <2>2, <2>3, <2>4
<1>2. CASE Skip
  <2>1. TypeOK'
    BY <1>0, <1>2 DEF Skip, TypeOK
  <2>2. Gathered'
    BY <1>0, <1>2 DEF Skip, Gathered
  <2>3. Progress'
    BY <1>2 DEF Skip, Progress, Rejected
  <2>4. Scanned'
    BY <1>2 DEF Skip, Scanned, Progress
  <2> QED
    BY <2>1, <2>2, <2>3, <2>4
<1>3. CASE Collect
  <2>1. TypeOK'
    <3>0. next \in 1..Len(events)
      BY <1>0, <1>3 DEF Collect
    <3>1. events[next] \in Event
      BY <1>0, <3>0, ElementOfSeq
    <3>2. events[next].time \in Moments
      BY <1>3, <3>1 DEF Collect, Event
    <3> QED
      BY <1>0, <1>3, <3>0, <3>1, <3>2 DEF Collect, TypeOK
  <2>2. Gathered'
    <3>1. 1..(next' - 1) = (1..(next - 1)) \cup {next}
      BY <1>0, <1>3 DEF Collect
    <3> QED
      BY <1>3, <3>1 DEF Collect, Gathered
  <2>3. Progress'
    BY <1>3 DEF Collect, Progress, Rejected
  <2>4. Scanned'
    BY <1>3 DEF Collect, Scanned, Progress
  <2> QED
    BY <2>1, <2>2, <2>3, <2>4
<1>4. CASE Timeless
  <2>1. TypeOK'
    BY <1>4 DEF Timeless, Finish, TypeOK
  <2>2. Gathered'
    BY <1>4 DEF Timeless, Gathered
  <2>3. Progress'
    BY <1>4 DEF Timeless, Finish, Progress
  <2>4. Scanned'
    BY <1>4 DEF Timeless, Finish, Scanned
  <2> QED
    BY <2>1, <2>2, <2>3, <2>4
<1>5. CASE Collected
  <2>1. TypeOK'
    BY <1>5 DEF Collected, Finish, TypeOK
  <2>2. Gathered'
    BY <1>5 DEF Collected, Gathered
  <2>3. Progress'
    BY <1>0, <1>5 DEF Collected, Finish, Progress, Rejected, TypeOK
  <2>4. Scanned'
    BY <1>5 DEF Collected, Finish, Scanned, Progress
  <2> QED
    BY <2>1, <2>2, <2>3, <2>4
<1>6. CASE Scan
  <2> DEFINE s == Earliest(starts)
  <2>1. s \in starts
    BY <1>6, EarliestIn, MomentsAssumption DEF Scan, TypeOK
  <2>2. UNCHANGED <<rule, events, next, matched>>
    BY <1>6 DEF Scan
  <2>3. \A i : Fires(matched, events[i].time)' <=> Fires(matched, events[i].time)
    BY <2>2, FiresStable
  <2>4. PICK i \in matched : events[i].time = s
    BY <1>6, <2>1 DEF Scan, Scanned
  <2>5. \/ Fires(matched, s) /\ pc' = "done" /\ verdict' = "match" /\ starts' = starts
        \/ ~Fires(matched, s) /\ starts' = starts \ {s} /\ pc' = pc /\ verdict' = verdict
    BY <1>6 DEF Scan, Finish
  <2>6. pc = "scan" /\ verdict = "none"
    BY <1>6 DEF Scan, Progress
  <2> HIDE DEF s
  <2>7. TypeOK'
    BY <2>2, <2>5 DEF TypeOK
  <2>8. Gathered'
    BY <2>2 DEF Gathered
  <2>9. Progress'
    BY <2>2, <2>5, <2>6 DEF Progress, Rejected
  <2>10. Scanned'
    BY <2>2, <2>3, <2>4, <2>5, <2>6 DEF Scanned
  <2> QED
    BY <2>7, <2>8, <2>9, <2>10
<1>7. CASE Exhausted
  <2>1. TypeOK'
    BY <1>7 DEF Exhausted, Finish, TypeOK
  <2>2. Gathered'
    BY <1>7 DEF Exhausted, Gathered
  <2>3. Progress'
    BY <1>7 DEF Exhausted, Finish, Progress, Rejected
  <2>4. Scanned'
    <3>1. \A i : Fires(matched, events[i].time)' <=> Fires(matched, events[i].time)
      BY <1>7, FiresStable DEF Exhausted
    <3> QED
      BY <1>7, <3>1 DEF Exhausted, Finish, Scanned
  <2> QED
    BY <2>1, <2>2, <2>3, <2>4
<1>8. CASE UNCHANGED vars
  <2>1. \A i : Fires(matched, events[i].time)' <=> Fires(matched, events[i].time)
    BY <1>8, FiresStable DEF vars
  <2> QED
    BY <1>8, <2>1 DEF vars, TypeOK, Gathered, Progress, Scanned, Rejected
<1> QED
  BY <1>1, <1>2, <1>3, <1>4, <1>5, <1>6, <1>7, <1>8 DEF Next

(* The inductive invariant holds throughout.                               *)
THEOREM Invariance == Spec => []IInv
<1> QED
  BY InitIInv, NextIInv, PTL DEF Spec

(* Only matching events with a place in time are ever collected.           *)
THEOREM TypeCorrect == Spec => []TypeOK
<1>1. IInv => TypeOK
  BY DEF IInv
<1> QED
  BY <1>1, Invariance, PTL

(* Once every event has been read, the collected events are the relevant.  *)
LEMMA GatheredRelevant ==
  ASSUME IInv, verdict \in {"match", "quiet"}
  PROVE  matched = Relevant
<1>1. next = Len(events) + 1 /\ Len(events) \in Nat
  BY DEF IInv, Progress, TypeOK
<1>2. matched = {i \in 1..Len(events) : events[i].matches}
  BY <1>1 DEF IInv, Gathered
<1>3. \A i \in matched : events[i].time # NoTime
  BY MomentsAssumption DEF IInv, TypeOK
<1> QED
  BY <1>2, <1>3 DEF Relevant

(* A match is a window of the rule's span that satisfies its condition.    *)
THEOREM MatchCorrect == Spec => []MatchSound
<1>1. IInv => MatchSound
  <2> SUFFICES ASSUME IInv, verdict = "match" PROVE SomeWindowFires
    BY DEF MatchSound
  <2>1. matched = Relevant /\ TypeOK
    BY GatheredRelevant DEF IInv
  <2>2. PICK i \in Relevant : Fires(Relevant, events[i].time)
    BY <2>1 DEF IInv, Scanned
  <2>3. events[i].time \in Nat /\ events[i].time \in Moments
    BY <2>1, RelevantTime
  <2>4. FiresAt(events[i].time)
    BY <2>1, <2>2, <2>3, FiresIsFiresAt
  <2>5. events[i].time = events[i].time - 0 /\ 0 \in 0..Span
    BY <2>3, SpanAssumption
  <2>6. events[i].time \in Openings
    BY <2>3, <2>5 DEF Openings
  <2> QED
    BY <2>4, <2>6 DEF SomeWindowFires
<1> QED
  BY <1>1, Invariance, PTL

(* A quiet verdict on a rule that asks a count to reach the threshold      *)
(* means that no window, wherever it opens, reaches it.                    *)
THEOREM QuietCorrect == Spec => []QuietComplete
<1>1. IInv => QuietComplete
  <2> SUFFICES ASSUME IInv, verdict = "quiet", rule.op \in {"gte", "gt"},
                      NEW s \in Openings, FiresAt(s)
               PROVE  FALSE
    BY DEF QuietComplete, SomeWindowFires
  <2>1. matched = Relevant /\ TypeOK
    BY GatheredRelevant DEF IInv
  <2>2. s \in Int
    BY MomentsAssumption, SpanAssumption DEF Openings
  <2>3. PICK i \in Relevant : FiresAt(events[i].time)
    BY <2>1, <2>2, AnchoredScan
  <2>4. events[i].time \in Int
    BY <2>1, RelevantTime
  <2>5. Fires(Relevant, events[i].time)
    BY <2>1, <2>3, <2>4, FiresIsFiresAt
  <2> QED
    BY <2>1, <2>5 DEF IInv, Scanned
<1> QED
  BY <1>1, Invariance, PTL

(* No verdict is given for a rule or a sequence that cannot be evaluated.  *)
THEOREM LoudCorrect == Spec => []LoudFailure
<1>1. IInv => LoudFailure
  <2> SUFFICES ASSUME IInv, verdict \in {"match", "quiet"}
               PROVE  /\ rule.type # "temporal"
                      /\ rule.defects \subseteq
                           (IF rule.type = "event_count" THEN {"fieldref"} ELSE {})
                      /\ \A i \in 1..Len(events) : events[i].matches => events[i].time # NoTime
    BY DEF LoudFailure
  <2>1. ~Rejected
    BY DEF IInv, Progress
  <2>2. rule.type \in Types /\ rule.defects \subseteq Defects
    BY DEF IInv, TypeOK, Rule
  <2>3. rule.defects \subseteq (IF rule.type = "event_count" THEN {"fieldref"} ELSE {})
    BY <2>1, <2>2 DEF Rejected, Types, Defects
  <2>4. matched = {i \in 1..Len(events) : events[i].matches}
    BY DEF IInv, Progress, Gathered, TypeOK
  <2> QED
    BY <2>1, <2>3, <2>4, MomentsAssumption DEF Rejected, IInv, TypeOK
<1> QED
  BY <1>1, Invariance, PTL
=============================================================================
