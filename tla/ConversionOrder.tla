--------------------------- MODULE ConversionOrder ---------------------------
(***************************************************************************)
(* pipelines/convert.py, conversion_order: the rules of a collection, in   *)
(* whatever order their files were listed, are placed round by round, each *)
(* after the rules it references; a round with nothing to place is an      *)
(* error.                                                                  *)
(***************************************************************************)
EXTENDS Integers, Sequences, FiniteSets

CONSTANTS Rules,     \* the rules of the collection
          Outside    \* rule objects referenced from it that are not in it

ASSUME RulesAssumption == IsFiniteSet(Rules) /\ Rules \cap Outside = {}

VARIABLES refs,      \* per rule, the rules its resolved references denote
          listing,   \* the order of the collection: Rules -> position
          pending, ready, ordered, placed,
          pc         \* "round", "place", "done" or "error"

vars == <<refs, listing, pending, ready, ordered, placed, pc>>

Init ==
  /\ refs \in [Rules -> SUBSET (Rules \cup Outside)]
  /\ listing \in [Rules -> 1..Cardinality(Rules)]
  /\ \A r, q \in Rules : listing[r] = listing[q] => r = q
  /\ pending = Rules
  /\ ready = {}
  /\ ordered = <<>>
  /\ placed = {}
  /\ pc = "round"

-----------------------------------------------------------------------------
\* A slip: a reference that is still to be placed in this round will do.
ReadySlack(r) == refs[r] \subseteq placed \cup pending

Ready(r) == refs[r] \subseteq placed

\* A slip: a round that finds nothing tries again.
RoundAgain ==
  /\ pc = "round" /\ pending # {}
  /\ ready' = {r \in pending : Ready(r)}
  /\ pc' = IF ready' = {} THEN "round" ELSE "place"
  /\ UNCHANGED <<refs, listing, pending, ordered, placed>>

Round ==
  /\ pc = "round" /\ pending # {}
  /\ ready' = {r \in pending : Ready(r)}
  /\ pc' = IF ready' = {} THEN "error" ELSE "place"
  /\ UNCHANGED <<refs, listing, pending, ordered, placed>>

\* A slip: the placed rule stays pending.
PlaceTwice(r) ==
  /\ pc = "place" /\ r \in ready
  /\ \A q \in ready : listing[r] <= listing[q]
  /\ ordered' = Append(ordered, r)
  /\ placed' = placed \cup {r}
  /\ ready' = ready \ {r}
  /\ pc' = IF ready' = {} THEN "round" ELSE "place"
  /\ UNCHANGED <<refs, listing, pending>>

\* "for rule in ready: ordered.append(rule); placed.add(id(rule));
\* pending.remove(rule)", in the order of the listing.
Place(r) ==
  /\ pc = "place" /\ r \in ready
  /\ \A q \in ready : listing[r] <= listing[q]
  /\ ordered' = Append(ordered, r)
  /\ placed' = placed \cup {r}
  /\ pending' = pending \ {r}
  /\ ready' = ready \ {r}
  /\ pc' = IF ready' = {} THEN "round" ELSE "place"
  /\ UNCHANGED <<refs, listing>>

Return ==
  /\ pc = "round" /\ pending = {}
  /\ pc' = "done"
  /\ UNCHANGED <<refs, listing, pending, ready, ordered, placed>>

Next == Round \/ (\E r \in Rules : Place(r)) \/ Return

Spec == Init /\ [][Next]_vars

\* The function runs to its end.
FairSpec == Spec /\ WF_vars(Next)

-----------------------------------------------------------------------------
(* Type correctness; every rule is either pending or placed.               *)
TypeOK ==
  /\ refs \in [Rules -> SUBSET (Rules \cup Outside)]
  /\ listing \in [Rules -> Nat]
  /\ ordered \in Seq(Rules)
  /\ placed \subseteq Rules
  /\ pending = Rules \ placed
  /\ ready \subseteq pending
  /\ pc \in {"round", "place", "done", "error"}

(* A rule is converted after every rule it references.                     *)
ReferencesFirst ==
  \A i \in 1..Len(ordered) : \A q \in refs[ordered[i]] :
    \E j \in 1..Len(ordered) : j < i /\ ordered[j] = q

(* The result is the whole collection, each rule once.                     *)
WholeCollection ==
  /\ \A i, j \in 1..Len(ordered) : ordered[i] = ordered[j] => i = j
  /\ pc = "done" => Rules = {ordered[i] : i \in 1..Len(ordered)}

(* What is returned can be converted front to back.                        *)
ValidOrder == ReferencesFirst /\ WholeCollection

(* A set of rules each of which waits for another of the set, or for a     *)
(* rule that is not in the collection: references form a cycle or lead out.*)
Stuck(S) ==
  S # {} /\ S \subseteq Rules /\ \A r \in S : refs[r] \cap (S \cup Outside) # {}

(* Ordering is refused exactly when some set of rules is stuck.            *)
RefusedExactly ==
  /\ pc = "error" => \E S \in SUBSET Rules : Stuck(S)
  /\ pc = "done" => \A S \in SUBSET Rules : ~Stuck(S)

(* The loop ends, with an order or with the error.                         *)
Terminates == <>(pc \in {"done", "error"})
=============================================================================
