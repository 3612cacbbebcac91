------------------------------- MODULE Conduit -------------------------------
(***************************************************************************)
(* tools/otde/conduit.py: events judged by a segmentation policy, beside   *)
(* an engineer who edits it, and conduit_check's drift report over the     *)
(* events of all samples.  Zones are sets of addresses in the order of the *)
(* file, and may overlap.                                                  *)
(***************************************************************************)
EXTENDS Naturals, FiniteSets, SequencesExt

CONSTANTS
    Addresses,  \* that can be parsed; any other value is in no zone
    Zones,      \* the zones the file may list: [name, addresses]
    Conduits,   \* the conduits it may list: [from, to, ports]
    Events,     \* [src, dst, port]; a port of None is absent or not numeric
    MaxEdits, None

\* An instance has to satisfy this.
ConduitAssumption == IsFiniteSet(Zones) /\ MaxEdits \in Nat

VARIABLES
    policy,     \* [zones: Seq(Zones), conduits: Seq(Conduits)]
    edits,
    report      \* of a check of this policy, or None: zone pairs observed, positions of unused conduits
vars == <<policy, edits, report>>

-----------------------------------------------------------------------------
First(positions) == CHOOSE i \in positions: \A j \in positions: i <= j

(* zone_for: the first zone of the file that holds the address.            *)
Holding(address, p) == {i \in DOMAIN p.zones: address \in p.zones[i].addresses}
ZoneFor(address, p) ==
    IF address \notin Addresses \/ Holding(address, p) = {} THEN None
    ELSE p.zones[First(Holding(address, p))].name

(* The two zones a policy can speak about: both known, and different.      *)
Crosses(e, p) ==
    LET src == ZoneFor(e.src, p)  dst == ZoneFor(e.dst, p)
    IN  None \notin {src, dst} /\ src # dst
Pair(e, p) == <<ZoneFor(e.src, p), ZoneFor(e.dst, p)>>

Declarations(pair, p) == {i \in DOMAIN p.conduits: <<p.conduits[i].from, p.conduits[i].to>> = pair}
Declared(p) == {<<p.conduits[i].from, p.conduits[i].to>>: i \in DOMAIN p.conduits}

(* A slip: the last declaration of the pair.                               *)
ConduitOfLast(pair, p) ==
    p.conduits[CHOOSE i \in Declarations(pair, p): \A j \in Declarations(pair, p): j <= i]

(* _conduit: the first declaration of the pair.                            *)
ConduitOf(pair, p) == p.conduits[First(Declarations(pair, p))]

(* match_conduit, "raises" for a type that is not implemented.             *)
Match(kind, e, p) ==
    IF ~Crosses(e, p) THEN "quiet"
    ELSE IF kind \notin {"undeclared_path", "undeclared_service"} THEN "raises"
    ELSE IF \/ kind = "undeclared_path" /\ Pair(e, p) \notin Declared(p)
            \/ /\ kind = "undeclared_service" /\ Pair(e, p) \in Declared(p)
               /\ LET ports == ConduitOf(Pair(e, p), p).ports
                  IN  e.port # None /\ ports # {} /\ e.port \notin ports
         THEN "alert" ELSE "quiet"

ObservedConduits(p, es) == {Pair(e, p): e \in {x \in es: Crosses(x, p)}}
UnusedConduits(p, es) ==
    {i \in DOMAIN p.conduits: <<p.conduits[i].from, p.conduits[i].to>> \notin ObservedConduits(p, es)}

-----------------------------------------------------------------------------
Init ==
    /\ \E zs \in UNION {SetToSeqs(S): S \in (SUBSET Zones) \ {{}}}: policy = [zones |-> zs, conduits |-> <<>>]
    /\ edits = 0 /\ report = None

(* An edit makes the report one of another policy, which is forgotten.     *)
Edit(p) == edits < MaxEdits /\ edits' = edits + 1 /\ policy' = p /\ report' = None

Declare(c) == Edit([policy EXCEPT !.conduits = Append(@, c)])
Withdraw == policy.conduits # <<>> /\ Edit([policy EXCEPT !.conduits = Tail(@)])
SwapZones ==
    \E i \in 1..(Len(policy.zones) - 1):
        Edit([policy EXCEPT !.zones[i] = policy.zones[i + 1], !.zones[i + 1] = policy.zones[i]])

(* conduit_check over some samples.  It fails when no pair was observed;   *)
(* its other reason, an alert that is not the expected one, is Evidence's. *)
Check(es) ==
    /\ report = None
    /\ report' = [events |-> es, observed |-> ObservedConduits(policy, es),
                  unused |-> UnusedConduits(policy, es), nothing |-> ObservedConduits(policy, es) = {}]
    /\ UNCHANGED <<policy, edits>>

Next == (\E c \in Conduits: Declare(c)) \/ Withdraw \/ SwapZones \/ \E es \in SUBSET Events: Check(es)

Spec == Init /\ [][Next]_vars
-----------------------------------------------------------------------------
TypeOK ==
    /\ policy \in [zones: Seq(Zones), conduits: Seq(Conduits)] /\ edits \in 0..MaxEdits
    /\ report # None => report.unused \subseteq DOMAIN policy.conduits

Pairs(kind, es, p) == {Pair(e, p): e \in {x \in es: Match(kind, x, p) = "alert"}}

(* The drift report and the alerts of the same events tell one story: a    *)
(* pair that was observed is declared or alerts as an undeclared path, an  *)
(* undeclared service is on a declared and observed path, a declared pair  *)
(* is either observed or listed as unused, and a check that fails because  *)
(* nothing was observed has no alert to show.                              *)
DriftAccounts ==
    report # None =>
        LET p == policy
            unused == {<<p.conduits[i].from, p.conduits[i].to>>: i \in report.unused}
        IN  /\ Pairs("undeclared_path", report.events, p) = report.observed \ Declared(p)
            /\ Pairs("undeclared_service", report.events, p) \subseteq report.observed \cap Declared(p)
            /\ unused = Declared(p) \ report.observed
            /\ report.nothing => Pairs("undeclared_path", report.events, p) = {}

(* A conduit is the first of an event's pair of zones.                     *)
Opens(c, e, p) == Pair(e, p) = <<c.from, c.to>> /\ <<c.from, c.to>> \notin Declared(p)

(* The service alert that a conduit brings to the path that it opens.      *)
Refused(c, e, p) == Crosses(e, p) /\ e.port # None /\ c.ports # {} /\ e.port \notin c.ports

Kinds == {"undeclared_path", "undeclared_service"}

(* Declaring a conduit of a pair that has none ends the pair's path alerts *)
(* and starts a service alert for exactly the ports that the conduit       *)
(* refuses; every other verdict stays as it was, also those on ports that  *)
(* an earlier declaration of the pair allows or refuses.  No event alerts  *)
(* under some type that alerted under none before.                         *)
DeclaringSilences ==
    [][\A c \in Conduits: policy'.conduits = Append(policy.conduits, c) =>
        \A e \in Events:
            /\ Opens(c, e, policy) =>
                 /\ Match("undeclared_path", e, policy') = "quiet"
                 /\ (Match("undeclared_service", e, policy') = "alert") = Refused(c, e, policy)
            /\ ~Opens(c, e, policy) => \A kind \in Kinds: Match(kind, e, policy') = Match(kind, e, policy)
            /\ (\E kind \in Kinds: Match(kind, e, policy') = "alert")
                 => (\E kind \in Kinds: Match(kind, e, policy) = "alert")]_vars

(* While no two zones overlap, their order in the file decides nothing.    *)
ZoneOrderIrrelevant ==
    [][/\ policy'.conduits = policy.conduits
       /\ \A y, z \in ToSet(policy.zones): y # z => y.addresses \cap z.addresses = {}
       => \A e \in Events, kind \in Kinds:
            Match(kind, e, policy') = Match(kind, e, policy)]_vars
=============================================================================
