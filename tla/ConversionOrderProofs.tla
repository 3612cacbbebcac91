------------------------ MODULE ConversionOrderProofs ------------------------
(***************************************************************************)
(* Proofs about conversion_order, for every collection and every listing:  *)
(* references come first, the result is the whole collection, and the      *)
(* error is raised exactly when no order exists.                           *)
(***************************************************************************)
EXTENDS ConversionOrder, FiniteSetTheorems, SequenceTheorems, WellFoundedInduction, TLAPS

(* What the rounds keep: the placed rules are those of the result, and a   *)
(* rule found ready stays ready.                                           *)
Listed == placed = {ordered[i] : i \in 1..Len(ordered)}

Rounds ==
  /\ \A r \in ready : refs[r] \subseteq placed
  /\ pc = "place" => ready # {}
  /\ pc = "done" => pending = {}
  /\ pc = "error" => pending # {} /\ \A r \in pending : ~(refs[r] \subseteq placed)

Once == \A i, j \in 1..Len(ordered) : ordered[i] = ordered[j] => i = j

IInv == TypeOK /\ Listed /\ Rounds /\ Once /\ ReferencesFirst

-----------------------------------------------------------------------------
(* A non-empty set of natural numbers has a least element.                 *)
LEMMA LeastPosition ==
  ASSUME NEW T \in SUBSET Nat, T # {}
  PROVE  \E x \in T : \A y \in T : x <= y
<1>1. IsWellFoundedOn(OpToRel(<, Nat), Nat)
  BY NatLessThanWellFounded
<1>2. PICK x \in T : \A y \in T : ~(<<y, x>> \in OpToRel(<, Nat))
  BY <1>1, WFMin
<1>3. \A y \in T : ~(y < x)
  BY <1>2 DEF OpToRel
<1> QED
  BY <1>3

(* Placing a rule that is not in the result, and whose references are,     *)
(* keeps the shape of the result.                                          *)
LEMMA Placing ==
  ASSUME IInv, NEW r \in Rules, Place(r)
  PROVE  IInv'
<1>1. /\ ordered \in Seq(Rules) /\ r \in ready /\ r \notin placed
      /\ refs[r] \subseteq placed /\ refs' = refs
  BY DEF IInv, TypeOK, Rounds, Place
<1> DEFINE n == Len(ordered)
<1>2. /\ ordered' \in Seq(Rules) /\ Len(ordered') = n + 1 /\ n \in Nat
      /\ ordered'[n + 1] = r
      /\ \A i \in 1..n : ordered'[i] = ordered[i]
  BY <1>1, AppendProperties DEF Place
<1> HIDE DEF n
<1>3. placed = {ordered[i] : i \in 1..n}
  BY DEF IInv, Listed, n
<1>4. 1..(n + 1) = 1..n \cup {n + 1}
  BY <1>2
<1>5. placed' = placed \cup {r}
  BY DEF Place
<1>6. TypeOK'
  BY <1>1, <1>2, <1>5 DEF IInv, TypeOK, Place
<1>7. Listed'
  BY <1>2, <1>3, <1>4, <1>5 DEF Listed
<1>8. Rounds'
  BY <1>1, <1>5 DEF IInv, Rounds, Place
<1>9. Once'
  <2> SUFFICES ASSUME NEW i \in 1..(n + 1), NEW j \in 1..(n + 1), ordered'[i] = ordered'[j]
               PROVE  i = j
    BY <1>2 DEF Once
  <2>1. \A k \in 1..n : ordered'[k] # r
    BY <1>1, <1>2, <1>3
  <2>2. \A k, l \in 1..n : ordered[k] = ordered[l] => k = l
    BY DEF IInv, Once, n
  <2> QED
    BY <1>2, <1>4, <2>1, <2>2
<1>10. ReferencesFirst'
  <2> SUFFICES ASSUME NEW i \in 1..(n + 1), NEW q \in refs[ordered'[i]]
               PROVE  \E j \in 1..(n + 1) : j < i /\ ordered'[j] = q
    BY <1>1, <1>2 DEF ReferencesFirst
  <2>1. CASE i \in 1..n
    <3>1. PICK j \in 1..n : j < i /\ ordered[j] = q
      BY <1>2, <2>1 DEF IInv, ReferencesFirst, n
    <3> QED
      BY <1>2, <1>4, <3>1
  <2>2. CASE i = n + 1
    <3>1. q \in placed
      BY <1>1, <1>2, <2>2
    <3>2. PICK j \in 1..n : ordered[j] = q
      BY <1>3, <3>1
    <3> QED
      BY <1>2, <1>4, <2>2, <3>2
  <2> QED
    BY <1>4, <2>1, <2>2
<1> QED
  BY <1>6, <1>7, <1>8, <1>9, <1>10 DEF IInv

(* The result, its order and its bookkeeping hold in every reachable state.*)
THEOREM Invariance == Spec => []IInv
<1>1. Init => IInv
  BY DEF Init, IInv, TypeOK, Listed, Rounds, Once, ReferencesFirst
<1>2. IInv /\ [Next]_vars => IInv'
  <2> SUFFICES ASSUME IInv, [Next]_vars PROVE IInv'
    OBVIOUS
  <2>1. CASE Round
    BY <2>1 DEF Round, Ready, IInv, TypeOK, Listed, Rounds, Once, ReferencesFirst
  <2>2. ASSUME NEW r \in Rules, Place(r) PROVE IInv'
    BY <2>2, Placing
  <2>3. CASE Return
    <3>1. UNCHANGED <<refs, listing, pending, ready, ordered, placed>>
      BY <2>3 DEF Return
    <3>2. TypeOK' /\ Rounds'
      BY <2>3, <3>1 DEF Return, IInv, TypeOK, Rounds
    <3>3. Listed' /\ Once'
      BY <3>1 DEF IInv, Listed, Once
    <3>4. ReferencesFirst'
      BY <3>1 DEF IInv, ReferencesFirst
    <3> QED
      BY <3>2, <3>3, <3>4 DEF IInv
  <2>4. CASE UNCHANGED vars
    <3>1. UNCHANGED <<refs, listing, pending, ready, ordered, placed>>
      BY <2>4 DEF vars
    <3>2. TypeOK' /\ Rounds'
      BY <2>4, <3>1 DEF vars, IInv, TypeOK, Rounds
    <3>3. Listed' /\ Once'
      BY <3>1 DEF IInv, Listed, Once
    <3>4. ReferencesFirst'
      BY <3>1 DEF IInv, ReferencesFirst
    <3> QED
      BY <3>2, <3>3, <3>4 DEF IInv
  <2> QED
    BY <2>1, <2>2, <2>3, <2>4 DEF Next
<1> QED
  BY <1>1, <1>2, PTL DEF Spec

(* An order with references first leaves no set of rules stuck: the        *)
(* first-placed rule of the set would wait for one placed before it.       *)
LEMMA OrderedIsNotStuck ==
  ASSUME IInv, placed = Rules, NEW S \in SUBSET Rules
  PROVE  ~Stuck(S)
<1> SUFFICES ASSUME Stuck(S) PROVE FALSE
  OBVIOUS
<1> DEFINE T == {i \in 1..Len(ordered) : ordered[i] \in S}
<1>1. ordered \in Seq(Rules) /\ Len(ordered) \in Nat
  BY DEF IInv, TypeOK
<1>2. \A r \in S : \E i \in 1..Len(ordered) : ordered[i] = r
  BY DEF IInv, Listed
<1>3. T # {} /\ T \in SUBSET Nat
  BY <1>1, <1>2 DEF Stuck
<1>4. PICK i \in T : \A j \in T : i <= j
  BY <1>3, LeastPosition
<1>5. PICK q \in refs[ordered[i]] : q \in S \cup Outside
  BY DEF Stuck
<1>6. PICK j \in 1..Len(ordered) : j < i /\ ordered[j] = q
  BY <1>5 DEF IInv, ReferencesFirst
<1>7. q \in Rules
  BY <1>1, <1>6, ElementOfSeq
<1>8. j \in T
  BY <1>5, <1>6, <1>7, RulesAssumption
<1> QED
  BY <1>1, <1>4, <1>6, <1>8

(* Whether the rounds end in an order or in the error, they are right.     *)
LEMMA Refusal ==
  ASSUME IInv
  PROVE  RefusedExactly
<1>1. ASSUME pc = "error" PROVE Stuck(pending)
  <2>1. pending # {} /\ pending = Rules \ placed /\ refs \in [Rules -> SUBSET (Rules \cup Outside)]
    BY <1>1 DEF IInv, TypeOK, Rounds
  <2>2. \A r \in pending : \E q \in refs[r] : q \notin placed
    BY <1>1 DEF IInv, Rounds
  <2>3. \A r \in pending : \A q \in refs[r] : q \notin placed => q \in pending \cup Outside
    BY <2>1
  <2> QED
    BY <2>1, <2>2, <2>3 DEF Stuck
<1>2. ASSUME pc = "done" PROVE placed = Rules
  BY <1>2 DEF IInv, TypeOK, Rounds
<1>3. pc = "error" => pending \in SUBSET Rules
  BY DEF IInv, TypeOK
<1> QED
  BY <1>1, <1>2, <1>3, OrderedIsNotStuck DEF RefusedExactly

-----------------------------------------------------------------------------
(* The bookkeeping is well typed: no rule is both pending and placed.      *)
THEOREM TypeCorrect == Spec => []TypeOK
<1>1. IInv => TypeOK
  BY DEF IInv
<1> QED
  BY <1>1, Invariance, PTL

(* Every rule is placed after the rules it references.                     *)
THEOREM OrderCorrect == Spec => []ReferencesFirst
<1>1. IInv => ReferencesFirst
  BY DEF IInv
<1> QED
  BY <1>1, Invariance, PTL

(* The order returned has every rule of the collection exactly once.       *)
THEOREM CollectionCorrect == Spec => []WholeCollection
<1>1. IInv => WholeCollection
  BY DEF IInv, TypeOK, Listed, Rounds, Once, WholeCollection
<1> QED
  BY <1>1, Invariance, PTL

(* What conversion_order returns can be converted from front to back.      *)
THEOREM OrderValid == Spec => []ValidOrder
<1>1. ReferencesFirst /\ WholeCollection => ValidOrder
  BY DEF ValidOrder
<1> QED
  BY <1>1, OrderCorrect, CollectionCorrect, PTL

(* The error is raised exactly when some rules reference each other in a   *)
(* cycle or reference a rule outside the collection.                       *)
THEOREM RefusalCorrect == Spec => []RefusedExactly
<1>1. IInv => RefusedExactly
  BY Refusal
<1> QED
  BY <1>1, Invariance, PTL

-----------------------------------------------------------------------------
(* What is left to do: twice the rules to place, and the turn of the loop. *)
Effort == 2 * Cardinality(pending) + (IF pc = "round" THEN 2 ELSE IF pc = "place" THEN 1 ELSE 0)

LEMMA EffortType ==
  ASSUME IInv
  PROVE  /\ IsFiniteSet(pending) /\ Cardinality(pending) \in 0..Cardinality(Rules)
         /\ Effort \in 0..(2 * Cardinality(Rules) + 2)
<1>1. pending \subseteq Rules
  BY DEF IInv, TypeOK
<1>2. IsFiniteSet(pending) /\ Cardinality(pending) <= Cardinality(Rules)
  BY <1>1, RulesAssumption, FS_Subset
<1>3. Cardinality(pending) \in Nat /\ Cardinality(Rules) \in Nat
  BY <1>2, RulesAssumption, FS_CardinalityType
<1> QED
  BY <1>2, <1>3 DEF Effort

LEMMA EffortLess ==
  ASSUME IInv, Next
  PROVE  Effort' < Effort
<1>1. Cardinality(pending) \in Nat
  BY EffortType
<1>2. CASE Round
  <2>1. pending' = pending /\ pc = "round" /\ pc' \in {"error", "place"}
    BY <1>2 DEF Round
  <2> QED
    BY <1>1, <2>1 DEF Effort
<1>3. ASSUME NEW r \in Rules, Place(r) PROVE Effort' < Effort
  <2>1. pending' = pending \ {r} /\ pc = "place" /\ pc' \in {"round", "place"}
    BY <1>3 DEF Place
  <2>2. r \in pending
    BY <1>3 DEF Place, IInv, TypeOK
  <2>3. Cardinality(pending') = Cardinality(pending) - 1
    BY <2>1, <2>2, EffortType, FS_RemoveElement
  <2> QED
    BY <1>1, <2>1, <2>3 DEF Effort
<1>4. CASE Return
  <2>1. pending' = pending /\ pc = "round" /\ pc' = "done"
    BY <1>4 DEF Return
  <2> QED
    BY <1>1, <2>1 DEF Effort
<1> QED
  BY <1>2, <1>3, <1>4 DEF Next

(* The loop of conversion_order does not go on for ever, whatever the      *)
(* references: no run takes more than twice as many steps as there are     *)
(* rules, and two.                                                         *)
THEOREM StepsBounded ==
  Spec => [](Effort \in 0..(2 * Cardinality(Rules) + 2)) /\ [][Effort' < Effort]_vars
<1>1. IInv => Effort \in 0..(2 * Cardinality(Rules) + 2)
  BY EffortType
<1>2. IInv /\ [Next]_vars => [Effort' < Effort]_vars
  BY EffortLess
<1> QED
  BY <1>1, <1>2, Invariance, PTL DEF Spec

(* Nor does it stop half way: before the end there is a rule to place, or  *)
(* a round to begin, or nothing left.                                      *)
CanPlace == \E r \in Rules : r \in ready /\ \A q \in ready : listing[r] <= listing[q]

THEOREM NeverWaits == Spec => [](pc \in {"round", "done", "error"} \/ CanPlace)
<1>1. ASSUME IInv, pc = "place" PROVE CanPlace
  <2> DEFINE T == {listing[r] : r \in ready}
  <2>1. ready # {} /\ ready \subseteq Rules /\ listing \in [Rules -> Nat]
    BY <1>1 DEF IInv, TypeOK, Rounds
  <2>2. T # {} /\ T \in SUBSET Nat
    BY <2>1
  <2>3. PICK x \in T : \A y \in T : x <= y
    BY <2>2, LeastPosition
  <2> QED
    BY <2>1, <2>3 DEF CanPlace
<1>2. IInv => pc \in {"round", "done", "error"} \/ CanPlace
  BY <1>1 DEF IInv, TypeOK
<1> QED
  BY <1>2, Invariance, PTL
=============================================================================
