------------------------------ MODULE Behaviour ------------------------------
(***************************************************************************)
(* The behaviour baseline: baseline/build.py learns addresses, pairs and   *)
(* function codes from benign events and writes them to a file; later,     *)
(* tools/otde/baseline.py judges events by that file.  An address that is  *)
(* "" was unset in the sensor's log; None stands for an absent field, and  *)
(* for a function code that is not a number.                               *)
(***************************************************************************)
EXTENDS Naturals, FiniteSets

CONSTANTS
    Events,     \* [product, service, src, dst, code, valid]
    Rules,      \* [type, service, field]; a service of None matches every one
    MaxRuns,    \* bound: runs of build.py
    None

VARIABLES
    pc, runs,
    input,      \* the events of the run
    baseline,   \* ot-behaviour.json, None when there is none that can be read
    learned,    \* history: the events that file was made of
    result
vars == <<pc, runs, input, baseline, learned, result>>

-----------------------------------------------------------------------------
Truthy(address) == address \notin {"", None}
Ot(es) == {e \in es: e.product = "ot_ndr"}

(* A slip: every code is known for every service.                          *)
BuildUnkeyed(es) ==
    [assets |-> {a \in UNION {{e.src, e.dst}: e \in Ot(es)}: Truthy(a)},
     pairs |-> {<<e.src, e.dst>>: e \in {x \in Ot(es): Truthy(x.src) /\ Truthy(x.dst)}},
     functions |-> {e.service: e \in Ot(es)} \X {e.code: e \in {x \in Ot(es): x.code # None}}]

(* build: what the events of the OT sensor show, and nothing of the flows. *)
Build(es) ==
    [assets |-> {a \in UNION {{e.src, e.dst}: e \in Ot(es)}: Truthy(a)},
     pairs |-> {<<e.src, e.dst>>: e \in {x \in Ot(es): Truthy(x.src) /\ Truthy(x.dst)}},
     functions |-> {<<e.service, e.code>>: e \in {x \in Ot(es): x.service # None /\ x.code # None}}]

(* match_baseline, "raises" for a type that is not implemented: the        *)
(* service is compared before the type is looked at.                       *)
Match(rule, e, b) ==
    IF rule.service # None /\ e.service # rule.service THEN "quiet"
    ELSE IF rule.type \notin {"new_asset", "new_pair", "new_function_code"} THEN "raises"
    ELSE IF \/ /\ rule.type = "new_asset"
               /\ e[rule.field] # None /\ e[rule.field] \notin b.assets
            \/ /\ rule.type = "new_pair"
               /\ Truthy(e.src) /\ Truthy(e.dst) /\ <<e.src, e.dst>> \notin b.pairs
            \/ /\ rule.type = "new_function_code"
               /\ e.service # None /\ e.code # None /\ <<e.service, e.code>> \notin b.functions
         THEN "alert" ELSE "quiet"

Alerts(b) == {x \in Rules \X Events: Match(x[1], x[2], b) = "alert"}

(* An instance has to satisfy this: no file is neither a file nor events,  *)
(* and a rule about assets names one of the two addresses.                 *)
BehaviourAssumption ==
    /\ MaxRuns \in Nat
    /\ \A es \in SUBSET Events: None # es /\ None # Build(es)
    /\ \A rule \in Rules: rule.field \in {"src", "dst"}

-----------------------------------------------------------------------------
Init ==
    /\ pc = "idle" /\ runs = 0 /\ input = {} /\ baseline = None /\ learned = None /\ result = "none"

(* build.main: an event the schema refuses, or an input that cannot be     *)
(* read, ends the run with the old file in place.                          *)
Start(es) ==
    /\ pc = "idle" /\ runs < MaxRuns /\ runs' = runs + 1
    /\ \/ result' = "raised" /\ UNCHANGED <<pc, input>>
       \/ (\E e \in es: ~e.valid) /\ result' = "errors" /\ UNCHANGED <<pc, input>>
       \/ (\A e \in es: e.valid) /\ pc' = "write" /\ input' = es /\ result' = "none"
    /\ UNCHANGED <<baseline, learned>>

Write ==
    /\ pc = "write" /\ pc' = "idle" /\ result' = "ok" /\ input' = {}
    /\ baseline' = Build(input) /\ learned' = input
    /\ UNCHANGED runs

Kill ==   \* the file that was about to be written is as it was, or lost
    /\ pc = "write" /\ pc' = "idle" /\ result' = "killed" /\ input' = {}
    /\ UNCHANGED <<baseline, learned>> \/ (baseline' = None /\ learned' = None)
    /\ UNCHANGED runs

Next == (\E es \in SUBSET Events: Start(es)) \/ Write \/ Kill

Spec == Init /\ [][Next]_vars
-----------------------------------------------------------------------------
TypeOK ==
    /\ pc \in {"idle", "write"} /\ runs \in 0..MaxRuns /\ input \subseteq Events
    /\ (baseline = None) = (learned = None)
    /\ result \in {"none", "ok", "errors", "raised", "killed"}

(* The rules as a reader of the events would define them: the event shows  *)
(* an address, a pair or a function that no event it was learned from did. *)
Novel(rule, e, known) ==
    CASE rule.type = "new_asset" -> \A t \in Ot(known): e[rule.field] \notin {t.src, t.dst}
      [] rule.type = "new_pair" -> \A t \in Ot(known): <<e.src, e.dst>> # <<t.src, t.dst>>
      [] OTHER -> \A t \in Ot(known): <<e.service, e.code>> # <<t.service, t.code>>

Complete(e) == Truthy(e.src) /\ Truthy(e.dst) /\ e.service # None /\ e.code # None

(* A complete event alerts exactly when it is novel: what was learned      *)
(* stays quiet, also next to flows of the same hosts, and nothing new is   *)
(* taken for known because of a different service or pair.  Of an event    *)
(* without an address, a service or a function code nothing is said here.  *)
AlertsExactlyNovel ==
    baseline # None =>
        \A rule \in Rules, e \in Events:
            /\ Complete(e) /\ rule.service \in {None, e.service}
            /\ rule.type \in {"new_asset", "new_pair", "new_function_code"}
            => (Match(rule, e, baseline) = "alert") = Novel(rule, e, learned)

(* Learning more never raises a new alert, for incomplete events neither;  *)
(* and whatever a file was learned from was valid telemetry.               *)
MoreTrainingQuieter ==
    [][baseline' \notin {None, baseline} =>
        /\ \A e \in learned': e.valid
        /\ baseline # None /\ learned \subseteq learned' => Alerts(baseline') \subseteq Alerts(baseline)]_vars
=============================================================================
