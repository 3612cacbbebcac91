----------------------------- MODULE Correlation -----------------------------
(***************************************************************************)
(* tools/otde/correlation.py, match_correlation: a Sigma correlation rule  *)
(* evaluated over a sequence of events.  The rule is checked, the events   *)
(* the referenced rules match are collected, then every window that opens  *)
(* at the moment of a matched event is compared, earliest first, until one *)
(* fires.                                                                  *)
(***************************************************************************)
EXTENDS Integers, Sequences, FiniteSets

CONSTANTS Groups,      \* values of the group-by fields
          Values,      \* values of the counted field, a missing field among them
          Moments,     \* the timestamps events may carry
          NoTime,      \* an event without a timestamp, or with one that cannot be parsed
          Thresholds,  \* condition.count
          Span,        \* rule.timespan
          MaxEvents    \* bound on the length of the sequence

ASSUME MomentsAssumption == Moments \subseteq Nat /\ NoTime \notin Moments
ASSUME SpanAssumption == Span \in Nat
ASSUME ThresholdsAssumption == Thresholds \subseteq Int
ASSUME MaxEventsAssumption == MaxEvents \in Nat

Types == {"value_count", "event_count", "temporal"}
Ops == {"lt", "lte", "gt", "gte", "eq", "neq"}
\* What else the preconditions reject: an unresolved reference, a missing
\* condition, an unknown operator, a missing field reference or timespan.
Defects == {"unresolved", "condition", "op", "fieldref", "timespan"}

Event == [matches : BOOLEAN, time : Moments \cup {NoTime}, group : Groups, value : Values]
Rule == [type : Types, op : Ops, threshold : Thresholds, defects : SUBSET Defects]

VARIABLES rule, events,   \* the arguments
          pc,             \* "check", "collect", "scan" or "done"
          next,           \* the event "for event in events" is at
          matched,        \* indices of the matched events
          starts,         \* moments whose window is still to be compared
          verdict         \* "none", "match", "quiet" or "error"

vars == <<rule, events, pc, next, matched, starts, verdict>>

-----------------------------------------------------------------------------
Compare(op, count, threshold) ==
  \/ op = "lt"  /\ count < threshold
  \/ op = "lte" /\ count <= threshold
  \/ op = "gt"  /\ count > threshold
  \/ op = "gte" /\ count >= threshold
  \/ op = "eq"  /\ count = threshold
  \/ op = "neq" /\ count # threshold

\* "start <= moment < start + span".
InWindow(i, s) == s <= events[i].time /\ events[i].time < s + Span

\* The matched events of group g inside the window that opens at s.
Counted(M, g, s) == {i \in M : InWindow(i, s) /\ events[i].group = g}

Count(M, g, s) ==
  IF rule.type = "value_count"
  THEN Cardinality({events[i].value : i \in Counted(M, g, s)})
  ELSE Cardinality(Counted(M, g, s))

\* Some group of the window satisfies the condition; a group with no event in
\* the window has no entry to compare.
FiresUngrouped(M, s) ==
  LET W == {i \in M : InWindow(i, s)}
  IN W # {} /\ Compare(rule.op, Cardinality(W), rule.threshold)

Fires(M, s) ==
  \E g \in Groups :
    Counted(M, g, s) # {} /\ Compare(rule.op, Count(M, g, s), rule.threshold)

Earliest(S) == CHOOSE s \in S : \A u \in S : s <= u

-----------------------------------------------------------------------------
Init ==
  /\ rule \in Rule
  /\ events \in UNION {[1..n -> Event] : n \in 0..MaxEvents}
  /\ pc = "check"
  /\ next = 1
  /\ matched = {}
  /\ starts = {}
  /\ verdict = "none"

Finish(v) == pc' = "done" /\ verdict' = v

RejectedByType == rule.type = "temporal"

Rejected ==
  \/ rule.type = "temporal"
  \/ rule.defects \cap (Defects \ {"fieldref"}) # {}
  \/ rule.type = "value_count" /\ "fieldref" \in rule.defects

\* The preconditions raise UnsupportedCorrelationError.
Check ==
  /\ pc = "check"
  /\ IF Rejected THEN Finish("error") ELSE pc' = "collect" /\ UNCHANGED verdict
  /\ UNCHANGED <<rule, events, next, matched, starts>>

SkipCollects ==
  /\ pc = "collect" /\ next <= Len(events)
  /\ ~events[next].matches
  /\ next' = next + 1
  /\ matched' = matched \cup {next}
  /\ UNCHANGED <<rule, events, pc, starts, verdict>>

\* An event no referenced rule matches is passed over before its timestamp is
\* looked at.
Skip ==
  /\ pc = "collect" /\ next <= Len(events)
  /\ ~events[next].matches
  /\ next' = next + 1
  /\ UNCHANGED <<rule, events, pc, matched, starts, verdict>>

Collect ==
  /\ pc = "collect" /\ next <= Len(events)
  /\ events[next].matches
  /\ events[next].time # NoTime
  /\ matched' = matched \cup {next}
  /\ next' = next + 1
  /\ UNCHANGED <<rule, events, pc, starts, verdict>>

\* _event_time raises.
Timeless ==
  /\ pc = "collect" /\ next <= Len(events)
  /\ events[next].matches
  /\ events[next].time = NoTime
  /\ Finish("error")
  /\ UNCHANGED <<rule, events, next, matched, starts>>

Collected ==
  /\ pc = "collect" /\ next > Len(events)
  /\ IF matched = {}
     THEN Finish("quiet") /\ UNCHANGED starts
     ELSE /\ pc' = "scan"
          /\ starts' = {events[i].time : i \in matched}
          /\ UNCHANGED verdict
  /\ UNCHANGED <<rule, events, next, matched>>

ScanFirstOnly ==
  /\ pc = "scan" /\ starts # {}
  /\ IF Fires(matched, Earliest(starts)) THEN Finish("match") ELSE Finish("quiet")
  /\ starts' = {}
  /\ UNCHANGED <<rule, events, next, matched>>

Scan ==
  /\ pc = "scan" /\ starts # {}
  /\ LET s == Earliest(starts)
     IN IF Fires(matched, s)
        THEN Finish("match") /\ UNCHANGED starts
        ELSE starts' = starts \ {s} /\ UNCHANGED <<pc, verdict>>
  /\ UNCHANGED <<rule, events, next, matched>>

Exhausted ==
  /\ pc = "scan" /\ starts = {}
  /\ Finish("quiet")
  /\ UNCHANGED <<rule, events, next, matched, starts>>

Next == Check \/ Skip \/ Collect \/ Timeless \/ Collected \/ Scan \/ Exhausted

Spec == Init /\ [][Next]_vars

-----------------------------------------------------------------------------
(* Type correctness; only events a referenced rule matches are collected.  *)
TypeOK ==
  /\ rule \in Rule
  /\ events \in Seq(Event)
  /\ pc \in {"check", "collect", "scan", "done"}
  /\ next \in 1..(Len(events) + 1)
  /\ matched \subseteq 1..(next - 1)
  /\ \A i \in matched : events[i].matches /\ events[i].time \in Moments
  /\ starts \subseteq Moments
  /\ verdict \in {"none", "match", "quiet", "error"}

(* What the rule says, without an algorithm: in some window of its span,   *)
(* wherever it opens, the matching events of some group meet the condition.*)
Relevant == {i \in 1..Len(events) : events[i].matches /\ events[i].time # NoTime}
Members(g, s) ==
  {i \in Relevant : events[i].group = g /\ events[i].time \in s..(s + Span - 1)}
Tally(S) ==
  IF rule.type = "value_count" THEN Cardinality({events[i].value : i \in S}) ELSE Cardinality(S)
FiresAt(s) ==
  \E g \in Groups : Members(g, s) # {} /\ Compare(rule.op, Tally(Members(g, s)), rule.threshold)
\* Every opening whose window can hold an event.
Openings == {t - d : t \in Moments, d \in 0..Span}
SomeWindowFires == \E s \in Openings : FiresAt(s)

(* A rule that matches does so inside a real window of its span.           *)
MatchSound == verdict = "match" => SomeWindowFires

(* For a condition that asks a count to reach or exceed the threshold, the *)
(* windows that open at an event are enough: a quiet verdict means no      *)
(* window anywhere reaches it.                                             *)
QuietComplete ==
  verdict = "quiet" /\ rule.op \in {"gte", "gt"} => ~SomeWindowFires

(* A verdict is never given for a rule the evaluator cannot evaluate, nor  *)
(* when a matching event has no place in the window.                       *)
LoudFailure ==
  verdict \in {"match", "quiet"} =>
    /\ rule.type # "temporal"
    /\ rule.defects \subseteq (IF rule.type = "event_count" THEN {"fieldref"} ELSE {})
    /\ \A i \in 1..Len(events) : events[i].matches => events[i].time # NoTime

(* Module docstring and the comment on the scan: "Either count is compared *)
(* with the condition operator ... inside a sliding timespan window": a    *)
(* quiet verdict means no window of the span satisfies the condition.      *)
QuietExact == verdict = "quiet" => ~SomeWindowFires
=============================================================================
