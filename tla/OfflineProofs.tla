---------------------------- MODULE OfflineProofs ----------------------------
(***************************************************************************)
(* Proofs about the programs that work on files, for any events, rules,    *)
(* policies, samples, labels and inputs, and any number of runs and edits. *)
(***************************************************************************)
EXTENDS Offline, Integers, Sequences, FiniteSets, FiniteSetTheorems, NaturalsInduction,
        WellFoundedInduction, TLAPS

(* baseline/: the file is what build makes of the events it was learned    *)
(* from, and a run that writes has valid events only.                      *)
BaseLearned ==
    /\ \A e \in input: e.valid
    /\ baseline # None =>
        /\ learned \in SUBSET BaseEvents
        /\ baseline = Base!Build(learned)

BaseInv == Base!TypeOK /\ BaseLearned

(* conduit_check.py: a report is one of the policy as it stands.           *)
ConReport ==
    report # None =>
        report = [events |-> report.events,
                  observed |-> Con!ObservedConduits(policy, report.events),
                  unused |-> Con!UnusedConduits(policy, report.events),
                  nothing |-> Con!ObservedConduits(policy, report.events) = {}]

ConInv == Con!TypeOK /\ ConReport

-----------------------------------------------------------------------------
(* The evidence checks.  Where a run of each check can be.                 *)
EvPlaces ==
    /\ pc # "idle" => result = "none" /\ at # 0
    /\ pc \in {"clean", "container", "filter", "rewrite"} => check = "suricata" /\ docker
    /\ pc = "copy" => check = "malcolm" /\ DOMAIN ran = {} /\ kept = {}
    /\ check = "proof" => kept = {}
    /\ pc = "alerts" => check = "malcolm"
    /\ check # "suricata" => docker

(* The captures that suricata_check is through with, and those that it has *)
(* analysed.                                                               *)
Before(n) == {Samples[j]: j \in 1..(n - 1)}
Ran(S) == ran = [s \in S |-> fires[s]]

(* What an analysis adds to a log: the alerts of this run, and no others   *)
(* unless an old log could not be removed.                                 *)
Grown(log, s) == log \in SUBSET EvRules /\ fires[s] \subseteq log /\ (s \notin kept => log = fires[s])

(* suricata_check.py: the logs of the captures it is through with, and of  *)
(* the one it is at.                                                       *)
EvAnalyses ==
    pc \in {"clean", "container", "filter", "rewrite"} =>
        /\ \A s \in Before(at): Grown(logs[s], s)
        /\ IF pc \in {"filter", "rewrite"} THEN Ran(Before(at + 1))
           ELSE DOMAIN ran = Before(at) /\ \A s \in Before(at): ran[s] = fires[s]
        /\ pc = "container" => Samples[at] \in kept \/ logs[Samples[at]] = None
        /\ pc = "filter" =>
            /\ logs[Samples[at]] \in SUBSET (EvRules \cup {Raw})
            /\ Grown(logs[Samples[at]] \cap EvRules, Samples[at])
        /\ pc = "rewrite" => Grown(observed, Samples[at])

(* What is analysed when a run reads its logs.                             *)
EvAnalysed ==
    pc \in {"evaluate", "summary", "alerts", "verdict"} /\ docker =>
        /\ check = "suricata" => Ran(Evi!Names) /\ \A s \in Evi!Names: Grown(logs[s], s)
        /\ check = "malcolm" =>
            /\ DOMAIN ran \subseteq Evi!Names \ kept /\ \A s \in DOMAIN ran: ran[s] = fires[s]
            /\ \A s \in Evi!Names \ kept:
                logs[s] = IF s \in DOMAIN ran THEN fires[s] \cup {Raw} ELSE None

(* What a run has read, and what of it is in the files.                    *)
Seen(s) == IF check = "proof" THEN fires[s] ELSE Evi!Read(logs[s])
EvRead ==
    pc \in {"summary", "alerts", "verdict"} =>
        /\ observed = [s \in Evi!Names |-> Seen(s)]
        /\ check = "proof" => ran = fires
        /\ pc # "summary" =>
            summary = [observed |-> observed, expected |-> expected,
                       healthy |-> check # "proof" \/ healthy]
        /\ pc = "verdict" /\ check = "malcolm" => alerts = observed

(* A verdict is of the tree it was given in, until an edit.                *)
EvVerdict ==
    /\ result = "ok" /\ check = "proof" =>
        /\ summary = [observed |-> fires, expected |-> expected, healthy |-> TRUE]
        /\ fires = expected /\ healthy
    /\ Evi!GreenMeansCurrent /\ Evi!PassIsOfThisRun /\ Evi!EvidenceAgrees

EvInv == Evi!TypeOK /\ EvPlaces /\ EvAnalyses /\ EvAnalysed /\ EvRead /\ EvVerdict

-----------------------------------------------------------------------------
(* metrics/: what a run computed is of the tree it ends in.                *)
MetricsOfTree ==
    /\ mePc # "idle" => meResult = "none" /\ metrics = Met!Metrics
    /\ mePc = "report" => json = Met!Metrics
    /\ Met!ReportsCurrent /\ Met!RatesDefined

MetInv == Met!TypeOK /\ MetricsOfTree

-----------------------------------------------------------------------------
(* collector/: the first n records of an input, converted.                 *)
Parts(in, n) == [i \in 1..n |-> Tel!Converted(in.sensor, in.records[i])]

(* What a run has read is what its records stand for, and a run that       *)
(* reports has handed all of it to standard output or to the store.        *)
TelRead ==
    /\ telPc = "idle" => telAt = 0 /\ events = <<>> /\ errors = {}
    /\ telPc # "idle" => telResult = "none" /\ telInput \in TelInputs
    /\ telInput \in TelInputs \/ telInput.records = <<>>
    /\ telPc = "read" => events = Tel!FlattenSeq(Parts(telInput, telAt))
    /\ telPc \in {"sink", "report"} =>
        /\ events = Tel!Meant(telInput)
        /\ errors = {i \in DOMAIN events: ~events[i].valid}
    /\ telPc = "report" =>
        \/ printed = Tel!Meant(telInput)
        \/ \A k \in Tel!Keys: Tel!IsSuffix(Tel!Streams(Tel!Meant(telInput))[k], loki[k])
    /\ Tel!ExitTells

TelInv == Tel!TypeOK /\ TelRead

(* tools/otde/matcher.py: a verdict is that of the rule and the event.     *)
Judged == verdict \in {"none", Mat!Verdict(matRule, matEvent)}

MatInv == program = "matcher" => Mat!TypeOK /\ Judged

IInv == BaseInv /\ ConInv /\ EvInv /\ MetInv /\ TelInv /\ MatInv

-----------------------------------------------------------------------------
(* The behaviour baseline.                                                 *)

LEMMA BaseNext == BaseInv /\ [Base!Next]_baseVars => BaseInv'
<1> SUFFICES ASSUME BaseInv, [Base!Next]_baseVars PROVE BaseInv'
  OBVIOUS
<1> USE BehaviourHolds DEF Base!BehaviourAssumption, BaseInv, BaseLearned, Base!TypeOK
<1>1. ASSUME NEW es \in SUBSET BaseEvents, Base!Start(es) PROVE BaseInv'
  BY <1>1 DEF Base!Start
<1>2. CASE Base!Write
  BY <1>2 DEF Base!Write
<1>3. CASE Base!Kill
  BY <1>3 DEF Base!Kill
<1>4. CASE UNCHANGED baseVars
  BY <1>4 DEF baseVars
<1> QED
  BY <1>1, <1>2, <1>3, <1>4 DEF Base!Next

(* What build keeps of some events, read as a rule reads it.               *)
LEMMA BuildFacts ==
    ASSUME NEW known
    PROVE  /\ \A a: a \in Base!Build(known).assets
                <=> Base!Truthy(a) /\ \E t \in Base!Ot(known): a = t.src \/ a = t.dst
           /\ \A a, b: <<a, b>> \in Base!Build(known).pairs
                <=> \E t \in Base!Ot(known):
                        Base!Truthy(t.src) /\ Base!Truthy(t.dst) /\ <<a, b>> = <<t.src, t.dst>>
           /\ \A s, c: <<s, c>> \in Base!Build(known).functions
                <=> \E t \in Base!Ot(known):
                        t.service # None /\ t.code # None /\ <<s, c>> = <<t.service, t.code>>
<1>1. \A a: a \in UNION {{t.src, t.dst}: t \in Base!Ot(known)}
               <=> \E t \in Base!Ot(known): a = t.src \/ a = t.dst
  OBVIOUS
<1> QED
  BY <1>1 DEF Base!Build

LEMMA AlertsNovel == BaseInv => Base!AlertsExactlyNovel
<1> SUFFICES ASSUME BaseInv, baseline # None,
                    NEW rule \in BaseRules, NEW e \in BaseEvents,
                    Base!Complete(e), rule.service \in {None, e.service},
                    rule.type \in {"new_asset", "new_pair", "new_function_code"}
             PROVE  (Base!Match(rule, e, baseline) = "alert") = Base!Novel(rule, e, learned)
  BY DEF Base!AlertsExactlyNovel
<1>1. baseline = Base!Build(learned) /\ rule.field \in {"src", "dst"}
  BY BehaviourHolds DEF BaseInv, BaseLearned, Base!BehaviourAssumption
<1>2. /\ Base!Truthy(e.src) /\ Base!Truthy(e.dst) /\ e.service # None /\ e.code # None
      /\ Base!Truthy(e[rule.field]) /\ e[rule.field] # None
  BY <1>1 DEF Base!Complete, Base!Truthy
<1> DEFINE alert == Base!Match(rule, e, baseline) = "alert"
<1>3. CASE rule.type = "new_asset"
  <2>1. alert <=> e[rule.field] \notin baseline.assets
    BY <1>2, <1>3 DEF Base!Match
  <2>2. e[rule.field] \in baseline.assets
          <=> \E t \in Base!Ot(learned): e[rule.field] = t.src \/ e[rule.field] = t.dst
    BY <1>1, <1>2, BuildFacts
  <2>3. Base!Novel(rule, e, learned) <=> \A t \in Base!Ot(learned): e[rule.field] \notin {t.src, t.dst}
    BY <1>3 DEF Base!Novel
  <2>4. alert <=> Base!Novel(rule, e, learned)
    BY <2>1, <2>2, <2>3
  <2>5. Base!Novel(rule, e, learned) \in BOOLEAN
    BY <1>3 DEF Base!Novel
  <2> QED
    BY <2>4, <2>5
<1>4. CASE rule.type = "new_pair"
  <2>1. alert <=> <<e.src, e.dst>> \notin baseline.pairs
    BY <1>2, <1>4 DEF Base!Match
  <2>2. <<e.src, e.dst>> \in baseline.pairs <=> \E t \in Base!Ot(learned): <<e.src, e.dst>> = <<t.src, t.dst>>
    BY <1>1, <1>2, BuildFacts
  <2>3. Base!Novel(rule, e, learned) <=> \A t \in Base!Ot(learned): <<e.src, e.dst>> # <<t.src, t.dst>>
    BY <1>4 DEF Base!Novel
  <2>4. alert <=> Base!Novel(rule, e, learned)
    BY <2>1, <2>2, <2>3
  <2>5. Base!Novel(rule, e, learned) \in BOOLEAN
    BY <1>4 DEF Base!Novel
  <2> QED
    BY <2>4, <2>5
<1>5. CASE rule.type = "new_function_code"
  <2>1. alert <=> <<e.service, e.code>> \notin baseline.functions
    BY <1>2, <1>5 DEF Base!Match
  <2>2. <<e.service, e.code>> \in baseline.functions
          <=> \E t \in Base!Ot(learned): <<e.service, e.code>> = <<t.service, t.code>>
    BY <1>1, <1>2, BuildFacts
  <2>3. Base!Novel(rule, e, learned)
          <=> \A t \in Base!Ot(learned): <<e.service, e.code>> # <<t.service, t.code>>
    BY <1>5 DEF Base!Novel
  <2>4. alert <=> Base!Novel(rule, e, learned)
    BY <2>1, <2>2, <2>3
  <2>5. Base!Novel(rule, e, learned) \in BOOLEAN
    BY <1>5 DEF Base!Novel
  <2> QED
    BY <2>4, <2>5
<1> QED
  BY <1>3, <1>4, <1>5

(* What was learned stays learned when there is more of it, so that no     *)
(* comparison with the file turns against an event.                        *)
LEMMA AlertsMonotone ==
    ASSUME NEW small, NEW large, small \subseteq large
    PROVE  Base!Alerts(Base!Build(large)) \subseteq Base!Alerts(Base!Build(small))
<1>1. Base!Ot(small) \subseteq Base!Ot(large)
  BY DEF Base!Ot
<1> DEFINE s == Base!Build(small)  l == Base!Build(large)
<1>2. /\ \A a: a \in s.assets => a \in l.assets
      /\ \A a, b: <<a, b>> \in s.pairs => <<a, b>> \in l.pairs
      /\ \A a, b: <<a, b>> \in s.functions => <<a, b>> \in l.functions
  BY <1>1, BuildFacts
<1> HIDE DEF s, l
<1>3. ASSUME NEW rule \in BaseRules, NEW e \in BaseEvents, Base!Match(rule, e, l) = "alert"
      PROVE  Base!Match(rule, e, s) = "alert"
  BY <1>2, <1>3 DEF Base!Match
<1>4. Base!Alerts(l) \subseteq Base!Alerts(s)
  BY <1>3 DEF Base!Alerts
<1> QED
  BY <1>4 DEF s, l

LEMMA QuieterNext ==
    ASSUME BaseInv, [Base!Next]_baseVars, baseline' \notin {None, baseline}
    PROVE  /\ \A e \in learned': e.valid
           /\ baseline # None /\ learned \subseteq learned' =>
                Base!Alerts(baseline') \subseteq Base!Alerts(baseline)
<1>1. Base!Write
  BY DEF Base!Next, Base!Start, Base!Kill, baseVars
<1>2. /\ learned' = input /\ baseline' = Base!Build(learned')
      /\ \A e \in input: e.valid
      /\ baseline # None => baseline = Base!Build(learned)
  BY <1>1 DEF Base!Write, BaseInv, BaseLearned
<1> QED
  BY <1>2, AlertsMonotone

-----------------------------------------------------------------------------
(* The conduit policy.  The first of some positions.                       *)

LEMMA FirstFacts ==
    ASSUME NEW S \in SUBSET Nat, S # {}
    PROVE  Con!First(S) \in S /\ \A j \in S: Con!First(S) <= j
<1> DEFINE Below == {x \in Nat \X Nat: x[1] < x[2]}
<1>1. IsWellFoundedOn(Below, Nat)
  BY NatLessThanWellFounded DEF OpToRel
<1>2. \E n \in S: \A l \in S: ~(<<l, n>> \in Below)
  <2> HIDE DEF Below
  <2> QED
    BY <1>1, WFMin
<1>3. PICK n \in S: \A l \in S: ~(<<l, n>> \in Below)
  BY <1>2
<1>4. \A l \in S: n <= l
  <2> SUFFICES ASSUME NEW l \in S PROVE n <= l
    OBVIOUS
  <2>1. ~(l < n)
    BY <1>3
  <2> QED
    BY <2>1
<1> QED
  BY <1>4 DEF Con!First

LEMMA FirstIs ==
    ASSUME NEW S \in SUBSET Nat, NEW n \in S, \A j \in S: n <= j
    PROVE  Con!First(S) = n
<1>1. Con!First(S) \in S /\ Con!First(S) <= n
  BY FirstFacts
<1>2. n <= Con!First(S) /\ n \in Nat /\ Con!First(S) \in Nat
  BY <1>1
<1> QED
  BY <1>1, <1>2

-----------------------------------------------------------------------------
(* What an edit does to the policy.                                        *)
LEMMA DeclareFacts ==
    ASSUME Con!TypeOK, NEW c \in Conduits, Con!Declare(c)
    PROVE  /\ policy' \in [zones: Seq(Zones), conduits: Seq(Conduits)]
           /\ policy'.zones = policy.zones /\ policy'.conduits = Append(policy.conduits, c)
<1>1. policy \in [zones: Seq(Zones), conduits: Seq(Conduits)]
  BY DEF Con!TypeOK
<1>2. policy' = [policy EXCEPT !.conduits = Append(policy.conduits, c)]
  BY DEF Con!Declare, Con!Edit
<1>3. policy' = [zones |-> policy.zones, conduits |-> Append(policy.conduits, c)]
  BY <1>1, <1>2
<1>4. Append(policy.conduits, c) \in Seq(Conduits)
  BY <1>1
<1> QED
  BY <1>1, <1>3, <1>4

LEMMA WithdrawFacts ==
    ASSUME Con!TypeOK, Con!Withdraw
    PROVE  /\ policy' \in [zones: Seq(Zones), conduits: Seq(Conduits)]
           /\ policy'.zones = policy.zones
           /\ policy.conduits # <<>> /\ policy'.conduits = Tail(policy.conduits)
<1>1. policy \in [zones: Seq(Zones), conduits: Seq(Conduits)]
  BY DEF Con!TypeOK
<1>2. policy.conduits # <<>> /\ policy' = [policy EXCEPT !.conduits = Tail(policy.conduits)]
  BY DEF Con!Withdraw, Con!Edit
<1>3. policy' = [zones |-> policy.zones, conduits |-> Tail(policy.conduits)]
  BY <1>1, <1>2
<1>4. Tail(policy.conduits) \in Seq(Conduits)
  BY <1>1, <1>2
<1> QED
  BY <1>1, <1>2, <1>3, <1>4

LEMMA SwapFacts ==
    ASSUME Con!TypeOK, Con!SwapZones
    PROVE  /\ policy' \in [zones: Seq(Zones), conduits: Seq(Conduits)]
           /\ policy'.conduits = policy.conduits
           /\ DOMAIN policy'.zones = DOMAIN policy.zones
           /\ \A k \in DOMAIN policy.zones:
                /\ \E l \in DOMAIN policy.zones: policy'.zones[k] = policy.zones[l]
                /\ \E l \in DOMAIN policy.zones: policy.zones[k] = policy'.zones[l]
<1>1. PICK i \in 1..(Len(policy.zones) - 1):
        Con!Edit([policy EXCEPT !.zones[i] = policy.zones[i + 1], !.zones[i + 1] = policy.zones[i]])
  BY DEF Con!SwapZones
<1> DEFINE zs == policy.zones
           ws == [zs EXCEPT ![i] = zs[i + 1], ![i + 1] = zs[i]]
<1>2. policy \in [zones: Seq(Zones), conduits: Seq(Conduits)]
  BY DEF Con!TypeOK
<1>3. /\ zs \in Seq(Zones) /\ Len(zs) \in Nat /\ DOMAIN zs = 1..Len(zs)
      /\ i \in DOMAIN zs /\ i + 1 \in DOMAIN zs /\ i # i + 1
  BY <1>2
<1>4. policy'.zones = ws /\ policy'.conduits = policy.conduits
      /\ policy' = [zones |-> ws, conduits |-> policy.conduits]
  BY <1>1, <1>2 DEF Con!Edit
<1>5. /\ DOMAIN ws = DOMAIN zs
      /\ ws[i] = zs[i + 1] /\ ws[i + 1] = zs[i]
      /\ \A k \in DOMAIN zs: k # i /\ k # i + 1 => ws[k] = zs[k]
  BY <1>3
<1>6. ws \in Seq(Zones)
  <2>1. \A k \in 1..Len(zs): ws[k] \in Zones
    BY <1>3, <1>5
  <2>2. ws \in [1..Len(zs) -> Zones]
    BY <1>3, <2>1
  <2> QED
    BY <1>3, <2>2
<1> HIDE DEF ws
<1>7. ASSUME NEW k \in DOMAIN zs
      PROVE  (\E l \in DOMAIN zs: ws[k] = zs[l]) /\ (\E l \in DOMAIN zs: zs[k] = ws[l])
  BY <1>3, <1>5
<1> QED
  BY <1>2, <1>4, <1>5, <1>6, <1>7

LEMMA ConNext == ConInv /\ [Con!Next]_conVars => ConInv'
<1> SUFFICES ASSUME ConInv, [Con!Next]_conVars PROVE ConInv'
  OBVIOUS
<1>1. ASSUME NEW p, Con!Edit(p), p \in [zones: Seq(Zones), conduits: Seq(Conduits)] PROVE ConInv'
  BY <1>1, ConduitHolds DEF Con!Edit, ConInv, ConReport, Con!TypeOK, Con!ConduitAssumption
<1>2. ASSUME NEW c \in Conduits, Con!Declare(c) PROVE ConInv'
  <2>1. PICK p: Con!Edit(p) /\ policy' = p
    BY <1>2 DEF Con!Declare, Con!Edit
  <2> QED
    BY <1>1, <1>2, <2>1, DeclareFacts DEF ConInv
<1>3. CASE Con!Withdraw
  <2>1. PICK p: Con!Edit(p) /\ policy' = p
    BY <1>3 DEF Con!Withdraw, Con!Edit
  <2> QED
    BY <1>1, <1>3, <2>1, WithdrawFacts DEF ConInv
<1>4. CASE Con!SwapZones
  <2>1. PICK p: Con!Edit(p) /\ policy' = p
    BY <1>4 DEF Con!SwapZones, Con!Edit
  <2> QED
    BY <1>1, <1>4, <2>1, SwapFacts DEF ConInv
<1>5. ASSUME NEW es \in SUBSET ConEvents, Con!Check(es) PROVE ConInv'
  <2>1. /\ policy' = policy /\ edits' = edits
        /\ report' = [events |-> es, observed |-> Con!ObservedConduits(policy, es),
                      unused |-> Con!UnusedConduits(policy, es),
                      nothing |-> Con!ObservedConduits(policy, es) = {}]
    BY <1>5 DEF Con!Check
  <2>2. ConReport'
    BY <2>1 DEF ConReport
  <2>3. Con!UnusedConduits(policy, es) \subseteq DOMAIN policy.conduits
    BY DEF Con!UnusedConduits
  <2>4. Con!TypeOK'
    BY <2>1, <2>3 DEF ConInv, Con!TypeOK
  <2> QED
    BY <2>2, <2>4 DEF ConInv
<1>6. CASE UNCHANGED conVars
  <2>1. policy' = policy /\ edits' = edits /\ report' = report
    BY <1>6 DEF conVars
  <2> QED
    BY <2>1 DEF ConInv, ConReport, Con!TypeOK
<1> QED
  BY <1>2, <1>3, <1>4, <1>5, <1>6 DEF Con!Next

-----------------------------------------------------------------------------
(* The two kinds of alert of a policy, as an event has them.               *)
LEMMA MatchFacts ==
    ASSUME NEW e, NEW p
    PROVE  /\ Con!Match("undeclared_path", e, p) = "alert"
                <=> Con!Crosses(e, p) /\ Con!Pair(e, p) \notin Con!Declared(p)
           /\ Con!Match("undeclared_service", e, p) = "alert"
                => Con!Crosses(e, p) /\ Con!Pair(e, p) \in Con!Declared(p)
BY DEF Con!Match

LEMMA Drift == ConInv => Con!DriftAccounts
<1> SUFFICES ASSUME ConInv, report # None PROVE Con!DriftAccounts
  BY DEF Con!DriftAccounts
<1> DEFINE es == report.events
           unused == {<<policy.conduits[i].from, policy.conduits[i].to>>: i \in report.unused}
<1>1. /\ report.observed = Con!ObservedConduits(policy, es)
      /\ report.unused = Con!UnusedConduits(policy, es)
      /\ report.nothing <=> report.observed = {}
  <2>1. report = [events |-> es, observed |-> Con!ObservedConduits(policy, es),
                  unused |-> Con!UnusedConduits(policy, es),
                  nothing |-> Con!ObservedConduits(policy, es) = {}]
    BY DEF ConInv, ConReport
  <2> HIDE DEF es
  <2>2. /\ report.observed = Con!ObservedConduits(policy, es)
        /\ report.unused = Con!UnusedConduits(policy, es)
        /\ report.nothing = (Con!ObservedConduits(policy, es) = {})
    BY <2>1, Zenon
  <2> QED
    BY <2>2
<1>2. Con!Pairs("undeclared_path", es, policy) = report.observed \ Con!Declared(policy)
  BY <1>1, MatchFacts DEF Con!Pairs, Con!ObservedConduits
<1>3. Con!Pairs("undeclared_service", es, policy) \subseteq report.observed \cap Con!Declared(policy)
  BY <1>1, MatchFacts DEF Con!Pairs, Con!ObservedConduits
<1>4. unused = Con!Declared(policy) \ report.observed
  BY <1>1 DEF Con!UnusedConduits, Con!Declared
<1>5. report.nothing => Con!Pairs("undeclared_path", es, policy) = {}
  BY <1>1, <1>2
<1> QED
  BY <1>2, <1>3, <1>4, <1>5 DEF Con!DriftAccounts

-----------------------------------------------------------------------------
(* A policy with one more conduit at its end.                              *)
LEMMA LongerPolicy ==
    ASSUME NEW p \in [zones: Seq(Zones), conduits: Seq(Conduits)],
           NEW q \in [zones: Seq(Zones), conduits: Seq(Conduits)], NEW c \in Conduits,
           q.zones = p.zones, q.conduits = Append(p.conduits, c)
    PROVE  /\ \A e: Con!Pair(e, q) = Con!Pair(e, p) /\ (Con!Crosses(e, q) <=> Con!Crosses(e, p))
           /\ Con!Declared(q) = Con!Declared(p) \cup {<<c.from, c.to>>}
           /\ \A pair \in Con!Declared(p): Con!ConduitOf(pair, q) = Con!ConduitOf(pair, p)
           /\ <<c.from, c.to>> \notin Con!Declared(p) => Con!ConduitOf(<<c.from, c.to>>, q) = c
<1>1. \A a: Con!ZoneFor(a, q) = Con!ZoneFor(a, p)
  BY DEF Con!ZoneFor, Con!Holding
<1>2. /\ Len(p.conduits) \in Nat /\ DOMAIN p.conduits = 1..Len(p.conduits)
      /\ DOMAIN q.conduits = 1..(Len(p.conduits) + 1)
      /\ \A i \in DOMAIN p.conduits: q.conduits[i] = p.conduits[i]
      /\ q.conduits[Len(p.conduits) + 1] = c
  OBVIOUS
<1>3. Con!Declared(q) = Con!Declared(p) \cup {<<c.from, c.to>>}
  <2>1. ASSUME NEW x \in Con!Declared(q) PROVE x \in Con!Declared(p) \cup {<<c.from, c.to>>}
    BY <1>2 DEF Con!Declared
  <2>2. ASSUME NEW x \in Con!Declared(p) PROVE x \in Con!Declared(q)
    BY <1>2 DEF Con!Declared
  <2>3. <<c.from, c.to>> \in Con!Declared(q)
    BY <1>2 DEF Con!Declared
  <2> QED
    BY <2>1, <2>2, <2>3
<1>4. ASSUME NEW pair \in Con!Declared(p)
      PROVE  Con!ConduitOf(pair, q) = Con!ConduitOf(pair, p)
  <2> DEFINE S == Con!Declarations(pair, p)  T == Con!Declarations(pair, q)
  <2>1. S \in SUBSET Nat /\ S \subseteq DOMAIN p.conduits /\ S # {}
    BY <1>2 DEF Con!Declarations, Con!Declared
  <2>2. /\ T \in SUBSET Nat /\ S \subseteq T
        /\ \A j \in T: j \in S \/ j = Len(p.conduits) + 1
    BY <1>2 DEF Con!Declarations
  <2> HIDE DEF S, T
  <2>3. Con!First(S) \in S /\ \A j \in S: Con!First(S) <= j
    BY <2>1, FirstFacts
  <2>4. \A j \in T: Con!First(S) <= j
    <3>1. Con!First(S) \in DOMAIN p.conduits
      BY <2>1, <2>3
    <3>2. Con!First(S) <= Len(p.conduits) + 1
      BY <1>2, <3>1
    <3> QED
      BY <2>2, <2>3, <3>2
  <2>5. Con!First(T) = Con!First(S)
    BY <2>2, <2>3, <2>4, FirstIs
  <2> QED
    BY <1>2, <2>1, <2>3, <2>5 DEF Con!ConduitOf, S, T
<1>5. ASSUME <<c.from, c.to>> \notin Con!Declared(p)
      PROVE  Con!ConduitOf(<<c.from, c.to>>, q) = c
  <2> DEFINE T == Con!Declarations(<<c.from, c.to>>, q)  last == Len(p.conduits) + 1
  <2>1. \A i \in DOMAIN p.conduits: <<p.conduits[i].from, p.conduits[i].to>> # <<c.from, c.to>>
    BY <1>5 DEF Con!Declared
  <2>2. last \in T /\ T \in SUBSET Nat /\ \A j \in T: last <= j
    BY <1>2, <2>1 DEF Con!Declarations
  <2> HIDE DEF T
  <2>3. Con!First(T) = last
    BY <2>2, FirstIs
  <2> QED
    BY <1>2, <2>3 DEF Con!ConduitOf, T
<1> QED
  BY <1>1, <1>3, <1>4, <1>5 DEF Con!Pair, Con!Crosses

LEMMA SilencesNext ==
    ASSUME Con!TypeOK, [Con!Next]_conVars,
           NEW c \in Conduits, policy'.conduits = Append(policy.conduits, c), NEW e \in ConEvents
    PROVE  /\ Con!Opens(c, e, policy) =>
                /\ Con!Match("undeclared_path", e, policy') = "quiet"
                /\ (Con!Match("undeclared_service", e, policy') = "alert") = Con!Refused(c, e, policy)
           /\ ~Con!Opens(c, e, policy) =>
                \A kind \in Con!Kinds: Con!Match(kind, e, policy') = Con!Match(kind, e, policy)
           /\ (\E kind \in Con!Kinds: Con!Match(kind, e, policy') = "alert")
                => (\E kind \in Con!Kinds: Con!Match(kind, e, policy) = "alert")
<1>1. policy \in [zones: Seq(Zones), conduits: Seq(Conduits)] /\ Len(policy.conduits) \in Nat
  BY DEF Con!TypeOK
<1>2. Len(policy'.conduits) = Len(policy.conduits) + 1
  BY <1>1
<1>3. PICK d \in Conduits: Con!Declare(d)
  <2>1. ~Con!Withdraw
    <3> SUFFICES ASSUME Con!Withdraw PROVE FALSE
      OBVIOUS
    <3>1. policy.conduits # <<>> /\ policy'.conduits = Tail(policy.conduits)
      BY WithdrawFacts
    <3>2. Len(Tail(policy.conduits)) = Len(policy.conduits) - 1
      BY <1>1, <3>1
    <3> QED
      BY <1>1, <1>2, <3>1, <3>2
  <2>2. ~Con!SwapZones
    BY <1>1, <1>2, SwapFacts
  <2>3. ~\E es \in SUBSET ConEvents: Con!Check(es)
    BY <1>1, <1>2 DEF Con!Check
  <2>4. ~UNCHANGED conVars
    BY <1>1, <1>2 DEF conVars
  <2> QED
    BY <2>1, <2>2, <2>3, <2>4 DEF Con!Next
<1>4. policy' \in [zones: Seq(Zones), conduits: Seq(Conduits)] /\ policy'.zones = policy.zones
  BY <1>3, DeclareFacts
<1>5. /\ Con!Pair(e, policy') = Con!Pair(e, policy)
      /\ Con!Crosses(e, policy') <=> Con!Crosses(e, policy)
      /\ Con!Declared(policy') = Con!Declared(policy) \cup {<<c.from, c.to>>}
      /\ \A pair \in Con!Declared(policy): Con!ConduitOf(pair, policy') = Con!ConduitOf(pair, policy)
      /\ <<c.from, c.to>> \notin Con!Declared(policy) => Con!ConduitOf(<<c.from, c.to>>, policy') = c
  BY <1>1, <1>4, LongerPolicy
<1>6. ASSUME Con!Opens(c, e, policy)
      PROVE  /\ Con!Match("undeclared_path", e, policy') = "quiet"
             /\ (Con!Match("undeclared_service", e, policy') = "alert") = Con!Refused(c, e, policy)
             /\ Con!Refused(c, e, policy) => Con!Match("undeclared_path", e, policy) = "alert"
  <2>1. /\ Con!Pair(e, policy) = <<c.from, c.to>> /\ Con!Pair(e, policy) \notin Con!Declared(policy)
        /\ Con!Pair(e, policy') = <<c.from, c.to>> /\ <<c.from, c.to>> \in Con!Declared(policy')
        /\ Con!ConduitOf(<<c.from, c.to>>, policy') = c
    BY <1>5, <1>6 DEF Con!Opens
  <2>2. Con!Match("undeclared_path", e, policy') = "quiet"
    BY <2>1 DEF Con!Match
  <2>3. Con!Match("undeclared_service", e, policy') = "alert" <=> Con!Refused(c, e, policy)
    BY <1>5, <2>1 DEF Con!Match, Con!Refused
  <2>4. Con!Refused(c, e, policy) => Con!Match("undeclared_path", e, policy) = "alert"
    BY <2>1 DEF Con!Match, Con!Refused
  <2>5. Con!Refused(c, e, policy) \in BOOLEAN
    BY DEF Con!Refused
  <2> QED
    BY <2>2, <2>3, <2>4, <2>5
<1>7. ASSUME \/ Con!Pair(e, policy) # <<c.from, c.to>>
             \/ <<c.from, c.to>> \in Con!Declared(policy),
             NEW kind \in Con!Kinds
      PROVE  Con!Match(kind, e, policy') = Con!Match(kind, e, policy)
  <2>1. Con!Pair(e, policy) \in Con!Declared(policy') <=> Con!Pair(e, policy) \in Con!Declared(policy)
    BY <1>5, <1>7
  <2>2. CASE Con!Pair(e, policy) \in Con!Declared(policy)
    BY <1>5, <2>1, <2>2 DEF Con!Match
  <2>3. CASE Con!Pair(e, policy) \notin Con!Declared(policy)
    BY <1>5, <2>1, <2>3 DEF Con!Match
  <2> QED
    BY <2>2, <2>3
<1>8. CASE Con!Opens(c, e, policy)
  BY <1>6, <1>8 DEF Con!Kinds
<1>9. CASE ~Con!Opens(c, e, policy)
  BY <1>7, <1>9 DEF Con!Opens
<1> QED
  BY <1>8, <1>9

-----------------------------------------------------------------------------
(* Zones that do not overlap.                                              *)
Apart(p) ==
    \A i, j \in DOMAIN p.zones:
        p.zones[i] # p.zones[j] => p.zones[i].addresses \cap p.zones[j].addresses = {}

LEMMA ZoneIs ==
    ASSUME NEW p \in [zones: Seq(Zones), conduits: Seq(Conduits)], Apart(p),
           NEW a \in Addresses, NEW i \in DOMAIN p.zones, a \in p.zones[i].addresses
    PROVE  Con!ZoneFor(a, p) = p.zones[i].name
<1>1. Con!Holding(a, p) \in SUBSET Nat /\ i \in Con!Holding(a, p)
  BY DEF Con!Holding
<1>2. Con!First(Con!Holding(a, p)) \in Con!Holding(a, p)
  BY <1>1, FirstFacts
<1>3. p.zones[Con!First(Con!Holding(a, p))] = p.zones[i]
  BY <1>2 DEF Con!Holding, Apart
<1> QED
  BY <1>1, <1>3 DEF Con!ZoneFor

LEMMA SameZone ==
    ASSUME NEW p \in [zones: Seq(Zones), conduits: Seq(Conduits)], Apart(p),
           NEW q \in [zones: Seq(Zones), conduits: Seq(Conduits)],
           DOMAIN q.zones = DOMAIN p.zones,
           \A k \in DOMAIN p.zones:
                /\ \E l \in DOMAIN p.zones: q.zones[k] = p.zones[l]
                /\ \E l \in DOMAIN p.zones: p.zones[k] = q.zones[l],
           NEW a
    PROVE  Con!ZoneFor(a, q) = Con!ZoneFor(a, p)
<1>1. Apart(q)
  <2> SUFFICES ASSUME NEW i \in DOMAIN q.zones, NEW j \in DOMAIN q.zones, q.zones[i] # q.zones[j]
               PROVE  q.zones[i].addresses \cap q.zones[j].addresses = {}
    BY DEF Apart
  <2>1. PICK k \in DOMAIN p.zones, l \in DOMAIN p.zones: q.zones[i] = p.zones[k] /\ q.zones[j] = p.zones[l]
    OBVIOUS
  <2> QED
    BY <2>1 DEF Apart
<1>2. CASE a \notin Addresses
  BY <1>2 DEF Con!ZoneFor
<1>3. CASE a \in Addresses /\ \E i \in DOMAIN p.zones: a \in p.zones[i].addresses
  <2>1. PICK i \in DOMAIN p.zones: a \in p.zones[i].addresses
    BY <1>3
  <2>2. PICK l \in DOMAIN q.zones: p.zones[i] = q.zones[l]
    OBVIOUS
  <2>3. Con!ZoneFor(a, p) = p.zones[i].name
    BY <1>3, <2>1, ZoneIs
  <2>4. Con!ZoneFor(a, q) = q.zones[l].name
    BY <1>1, <1>3, <2>1, <2>2, ZoneIs
  <2> QED
    BY <2>2, <2>3, <2>4
<1>4. CASE \A i \in DOMAIN p.zones: a \notin p.zones[i].addresses
  <2>1. Con!Holding(a, p) = {} /\ Con!Holding(a, q) = {}
    BY <1>4 DEF Con!Holding
  <2> QED
    BY <2>1 DEF Con!ZoneFor
<1> QED
  BY <1>2, <1>3, <1>4

LEMMA OrderNext ==
    ASSUME Con!TypeOK, [Con!Next]_conVars, policy'.conduits = policy.conduits,
           \A y, z \in Con!ToSet(policy.zones): y # z => y.addresses \cap z.addresses = {},
           NEW e \in ConEvents, NEW kind \in Con!Kinds
    PROVE  Con!Match(kind, e, policy') = Con!Match(kind, e, policy)
<1>1. policy \in [zones: Seq(Zones), conduits: Seq(Conduits)] /\ Len(policy.conduits) \in Nat
  BY DEF Con!TypeOK
<1>2. Apart(policy)
  BY DEF Apart, Con!ToSet
<1>3. CASE Con!SwapZones
  <2>1. \A a: Con!ZoneFor(a, policy') = Con!ZoneFor(a, policy)
    BY <1>1, <1>2, <1>3, SwapFacts, SameZone
  <2>2. /\ Con!Pair(e, policy') = Con!Pair(e, policy)
        /\ Con!Crosses(e, policy') <=> Con!Crosses(e, policy)
        /\ Con!Declared(policy') = Con!Declared(policy)
        /\ \A pair: Con!ConduitOf(pair, policy') = Con!ConduitOf(pair, policy)
    BY <2>1 DEF Con!Pair, Con!Crosses, Con!Declared, Con!ConduitOf, Con!Declarations
  <2> QED
    BY <2>2 DEF Con!Match
<1>4. CASE \E c \in Conduits: Con!Declare(c)
  <2>1. PICK c \in Conduits: policy'.conduits = Append(policy.conduits, c)
    BY <1>4, DeclareFacts
  <2> QED
    BY <1>1, <2>1
<1>5. CASE Con!Withdraw
  <2>1. policy.conduits # <<>> /\ policy'.conduits = Tail(policy.conduits)
    BY <1>5, WithdrawFacts
  <2>2. Len(Tail(policy.conduits)) = Len(policy.conduits) - 1
    BY <1>1, <2>1
  <2> QED
    BY <1>1, <2>1, <2>2
<1>6. CASE policy' = policy
  BY <1>6
<1> QED
  BY <1>3, <1>4, <1>5, <1>6 DEF Con!Next, Con!Check, conVars

-----------------------------------------------------------------------------
(* What is said of 0, and of each number's successor, holds up to a bound. *)
LEMMA UpTo ==
    ASSUME NEW N \in Nat, NEW S, 0 \in S, \A n \in 0..(N - 1): n \in S => n + 1 \in S
    PROVE  \A n \in 0..N: n \in S
<1> DEFINE Left == {n \in 0..N: n \notin S}
<1> SUFFICES ASSUME Left # {} PROVE FALSE
  OBVIOUS
<1>1. Con!First(Left) \in Left /\ \A j \in Left: Con!First(Left) <= j
  <2>1. Left \in SUBSET Nat
    OBVIOUS
  <2> HIDE DEF Left
  <2> QED
    BY <2>1, FirstFacts
<1>2. PICK m \in Left: \A j \in Left: m <= j
  BY <1>1
<1>3. m \in 1..N /\ m - 1 \in 0..(N - 1)
  BY <1>2
<1>4. m - 1 \notin Left
  BY <1>2, <1>3
<1> QED
  BY <1>2, <1>3, <1>4

(* FlattenSeq is what its definition says of each number of parts: there   *)
(* is one such function, and only one.                                     *)
Flattens(f, n, s) == \A i \in 1..n: f[i] = IF i = 1 THEN s[i] ELSE f[i - 1] \o s[i]

LEMMA FlattenExists ==
    ASSUME NEW E, NEW s \in Seq(Seq(E))
    PROVE  \E f \in [1..Len(s) -> Seq(E)]: Flattens(f, Len(s), s)
<1> DEFINE Done == {n \in Nat: \E f \in [1..n -> Seq(E)]: Flattens(f, n, s)}
<1>1. 0 \in Done
  <2>1. [i \in 1..0 |-> <<>>] \in [1..0 -> Seq(E)]
    OBVIOUS
  <2>2. Flattens([i \in 1..0 |-> <<>>], 0, s)
    BY DEF Flattens
  <2> QED
    BY <2>1, <2>2
<1>2. ASSUME NEW n \in 0..(Len(s) - 1), n \in Done PROVE n + 1 \in Done
  <2>1. PICK f \in [1..n -> Seq(E)]: Flattens(f, n, s)
    BY <1>2
  <2> DEFINE last == IF n = 0 THEN s[1] ELSE f[n] \o s[n + 1]
             g == [i \in 1..(n + 1) |-> IF i <= n THEN f[i] ELSE last]
  <2>2. s[n + 1] \in Seq(E)
    OBVIOUS
  <2>3. last \in Seq(E)
    BY <2>2
  <2>4. g \in [1..(n + 1) -> Seq(E)]
    BY <2>3
  <2>5. ASSUME NEW i \in 1..(n + 1) PROVE g[i] = IF i = 1 THEN s[i] ELSE g[i - 1] \o s[i]
    <3> HIDE DEF last
    <3>1. CASE i <= n
      <4>1. i \in 1..n /\ g[i] = f[i]
        BY <3>1
      <4>2. f[i] = IF i = 1 THEN s[i] ELSE f[i - 1] \o s[i]
        BY <4>1, <2>1 DEF Flattens
      <4>3. i # 1 => g[i - 1] = f[i - 1]
        BY <4>1
      <4> HIDE DEF g
      <4> QED
        BY <4>1, <4>2, <4>3
    <3>2. CASE i = n + 1
      BY <3>2 DEF last
    <3> QED
      BY <3>1, <3>2
  <2> HIDE DEF g
  <2>6. Flattens(g, n + 1, s)
    BY <2>5 DEF Flattens
  <2> QED
    BY <2>4, <2>6
<1>3. Len(s) \in Done
  <2>1. Len(s) \in Nat /\ Len(s) \in 0..Len(s)
    OBVIOUS
  <2> HIDE DEF Done
  <2>2. \A n \in 0..Len(s): n \in Done
    BY <1>1, <1>2, <2>1, UpTo
  <2> QED
    BY <2>1, <2>2
<1> QED
  BY <1>3

Agree(f, g, n) == \A i \in 1..n: f[i] = g[i]

LEMMA FlattenUnique ==
    ASSUME NEW n \in Nat, NEW f, NEW g, NEW s, Flattens(f, n, s), Flattens(g, n, s)
    PROVE  Agree(f, g, n)
<1> DEFINE Same == {i \in 0..n: i = 0 \/ f[i] = g[i]}
<1>1. ASSUME NEW i \in 0..(n - 1), i \in Same PROVE i + 1 \in Same
  BY <1>1 DEF Flattens
<1>2. \A i \in 0..n: i \in Same
  <2>1. 0 \in Same
    OBVIOUS
  <2> HIDE DEF Same
  <2> QED
    BY <1>1, <2>1, UpTo
<1> QED
  BY <1>2 DEF Agree

LEMMA FlattenFacts ==
    ASSUME NEW E, NEW s \in Seq(Seq(E))
    PROVE  /\ s = <<>> => Tel!FlattenSeq(s) = <<>>
           /\ s # <<>> => \E f \in [1..Len(s) -> Seq(E)]: Flattens(f, Len(s), s) /\ Tel!FlattenSeq(s) = f[Len(s)]
<1>1. CASE s = <<>>
  BY <1>1 DEF Tel!FlattenSeq
<1>2. CASE s # <<>>
  <2> DEFINE f == CHOOSE f: f = [i \in 1..Len(s) |-> IF i = 1 THEN s[i] ELSE f[i - 1] \o s[i]]
  <2>1. PICK g \in [1..Len(s) -> Seq(E)]: Flattens(g, Len(s), s)
    BY FlattenExists
  <2>2. g = [i \in 1..Len(s) |-> IF i = 1 THEN s[i] ELSE g[i - 1] \o s[i]]
    BY <2>1 DEF Flattens
  <2>3. f = [i \in 1..Len(s) |-> IF i = 1 THEN s[i] ELSE f[i - 1] \o s[i]]
    BY Zenon, <2>2
  <2>4. Tel!FlattenSeq(s) = f[Len(s)]
    <3>1. Len(s) # 0
      BY <1>2
    <3> QED
      BY Zenon, <3>1 DEF Tel!FlattenSeq
  <2> HIDE DEF f
  <2>5. Flattens(f, Len(s), s)
    BY <2>3 DEF Flattens
  <2>6. Agree(f, g, Len(s))
    <3>1. Len(s) \in Nat
      OBVIOUS
    <3> QED
      BY Zenon, <2>1, <2>5, <3>1, FlattenUnique
  <2>7. f[Len(s)] = g[Len(s)]
    BY <1>2, <2>6 DEF Agree
  <2> QED
    BY <1>2, <2>1, <2>4, <2>7
<1> QED
  BY <1>1, <1>2

(* The type of FlattenSeq, and one more part.                              *)
LEMMA FlattenType ==
    ASSUME NEW E, NEW s \in Seq(Seq(E))
    PROVE  Tel!FlattenSeq(s) \in Seq(E)
<1>1. CASE s = <<>>
  <2>1. Tel!FlattenSeq(s) = <<>>
    BY <1>1, FlattenFacts
  <2> QED
    BY <2>1
<1>2. CASE s # <<>>
  <2>1. PICK f \in [1..Len(s) -> Seq(E)]: Tel!FlattenSeq(s) = f[Len(s)]
    BY <1>2, FlattenFacts
  <2>2. Len(s) \in 1..Len(s)
    BY <1>2
  <2> QED
    BY <2>1, <2>2
<1> QED
  BY <1>1, <1>2

LEMMA FlattenMore ==
    ASSUME NEW E, NEW s \in Seq(Seq(E)), NEW t \in Seq(Seq(E)),
           Len(s) = Len(t) + 1, \A i \in 1..Len(t): s[i] = t[i]
    PROVE  Tel!FlattenSeq(s) = Tel!FlattenSeq(t) \o s[Len(s)]
<1>1. PICK f \in [1..Len(s) -> Seq(E)]: Flattens(f, Len(s), s) /\ Tel!FlattenSeq(s) = f[Len(s)]
  <2>1. s # <<>>
    OBVIOUS
  <2> QED
    BY <2>1, FlattenFacts
<1>2. Len(t) \in Nat /\ Len(s) \in 1..Len(s) /\ s[Len(s)] \in Seq(E)
  OBVIOUS
<1>3. CASE t = <<>>
  <2>1. Len(s) = 1 /\ f[1] = s[1]
    BY <1>1, <1>3 DEF Flattens
  <2>2. Tel!FlattenSeq(t) = <<>>
    BY <1>3, FlattenFacts
  <2> QED
    BY <1>1, <1>2, <2>1, <2>2
<1>4. CASE t # <<>>
  <2>1. PICK g \in [1..Len(t) -> Seq(E)]: Flattens(g, Len(t), t) /\ Tel!FlattenSeq(t) = g[Len(t)]
    BY <1>4, FlattenFacts
  <2>2. Flattens(f, Len(t), t)
    <3>1. \A i \in 1..Len(t): i \in 1..Len(s)
      OBVIOUS
    <3> QED
      BY <1>1, <3>1 DEF Flattens
  <2>3. f[Len(t)] = g[Len(t)]
    <3>1. Len(t) \in Nat
      BY <1>2
    <3>2. Agree(f, g, Len(t))
      BY Zenon, <2>1, <2>2, <3>1, FlattenUnique
    <3>3. Len(t) \in 1..Len(t)
      BY <1>4
    <3> QED
      BY <3>2, <3>3 DEF Agree
  <2>4. f[Len(s)] = f[Len(t)] \o s[Len(s)]
    <3>1. Len(s) # 1 /\ Len(s) - 1 = Len(t)
      BY <1>4
    <3> QED
      BY <1>1, <1>2, <3>1 DEF Flattens
  <2> QED
    BY <1>1, <2>1, <2>3, <2>4
<1> QED
  BY <1>3, <1>4

-----------------------------------------------------------------------------
(* The evidence checks.                                                    *)

LEMMA SampleFacts ==
    /\ Len(Samples) \in Nat \ {0} /\ DOMAIN Samples = 1..Len(Samples)
    /\ \A i, j \in 1..Len(Samples): Samples[i] = Samples[j] => i = j
    /\ \A i \in 1..Len(Samples): Samples[i] \in Evi!Names
    /\ Raw \notin EvRules /\ None \notin SUBSET (EvRules \cup {Raw})
BY EvidenceHolds DEF Evi!EvidenceAssumption, Evi!Names, Evi!IsInjective

(* The captures before one are the others that come earlier.               *)
LEMMA BeforeFacts ==
    /\ Before(1) = {}
    /\ Before(Len(Samples) + 1) = Evi!Names
    /\ \A n \in 1..Len(Samples):
        /\ Before(n) \subseteq Evi!Names /\ Samples[n] \notin Before(n)
        /\ Before(n + 1) = Before(n) \cup {Samples[n]}
<1>1. Before(1) = {}
  BY DEF Before
<1>2. Before(Len(Samples) + 1) = Evi!Names
  BY SampleFacts DEF Before, Evi!Names
<1>3. ASSUME NEW n \in 1..Len(Samples)
      PROVE  /\ Before(n) \subseteq Evi!Names /\ Samples[n] \notin Before(n)
             /\ Before(n + 1) = Before(n) \cup {Samples[n]}
  <2>1. n \in Nat /\ 1..(n - 1) \subseteq 1..Len(Samples) /\ n \notin 1..(n - 1)
    BY SampleFacts
  <2>2. 1..((n + 1) - 1) = 1..(n - 1) \cup {n}
    BY <2>1
  <2>3. Samples[n] \notin Before(n)
    BY <2>1, SampleFacts DEF Before
  <2>4. Before(n) \subseteq Evi!Names
    BY <2>1, SampleFacts DEF Before, Evi!Names
  <2>5. Before(n + 1) = Before(n) \cup {Samples[n]}
    BY <2>2 DEF Before
  <2> QED
    BY <2>3, <2>4, <2>5
<1> QED
  BY <1>1, <1>2, <1>3

(* A log that a run made has the alerts of its capture and no others.      *)
LEMMA ReadFacts ==
    /\ Evi!Read(None) = {}
    /\ \A rs \in SUBSET EvRules:
        /\ Evi!Read(rs) = rs /\ Evi!Read(rs \cup {Raw}) = rs
        /\ rs # None /\ rs \cup {Raw} # None
BY SampleFacts DEF Evi!Read

Logs == [Evi!Names -> {None} \cup SUBSET (EvRules \cup {Raw})]

LEMMA LogTyped ==
    ASSUME logs \in Logs, NEW s, NEW log \in {None} \cup SUBSET (EvRules \cup {Raw})
    PROVE  [logs EXCEPT ![s] = log] \in Logs
BY DEF Logs

(* A container that stops before its end leaves logs.                      *)
LEMMA InterruptedTyped ==
    ASSUME Evi!TypeOK, EvPlaces, pc # "idle", Evi!Interrupted
    PROVE  logs' \in Logs
<1>1. /\ logs \in Logs /\ \A s \in Evi!Names: fires[s] \in SUBSET EvRules
      /\ \A s \in Evi!Names: logs[s] \in {None} \cup SUBSET (EvRules \cup {Raw})
      /\ Samples[at] \in Evi!Names
  BY SampleFacts DEF Evi!TypeOK, EvPlaces, Logs
<1>2. ASSUME NEW part \in SUBSET fires[Samples[at]],
             logs' = [logs EXCEPT ![Samples[at]] = Evi!Records(Samples[at]) \cup part]
      PROVE  logs' \in Logs
  <2>1. Evi!Records(Samples[at]) \cup part \in SUBSET (EvRules \cup {Raw})
    BY <1>1 DEF Evi!Records
  <2> QED
    BY <1>1, <1>2, <2>1, LogTyped
<1>3. ASSUME NEW gone \in SUBSET Evi!Names, NEW done \in SUBSET Evi!Names,
             logs' = [s \in Evi!Names |-> IF s \in done THEN fires[s] \cup {Raw}
                                         ELSE IF s \in gone THEN None ELSE logs[s]]
      PROVE  logs' \in Logs
  <2>1. \A s \in Evi!Names: (IF s \in done THEN fires[s] \cup {Raw} ELSE IF s \in gone THEN None ELSE logs[s])
                                 \in {None} \cup SUBSET (EvRules \cup {Raw})
    BY <1>1
  <2> QED
    BY <1>3, <2>1 DEF Logs
<1> QED
  BY <1>1, <1>2, <1>3 DEF Evi!Interrupted

LEMMA EvTyped == ASSUME Evi!TypeOK, EvPlaces, EvAnalyses, [Evi!Next]_evVars PROVE Evi!TypeOK'
<1> USE EvidenceHolds DEF Evi!EvidenceAssumption, Evi!TypeOK
<1>0. logs \in Logs /\ \A s: [logs EXCEPT ![s] = None] \in Logs
  <2>1. logs \in Logs /\ None \in {None} \cup SUBSET (EvRules \cup {Raw})
    BY DEF Logs
  <2> QED
    BY <2>1, LogTyped
<1>1. CASE Evi!Develop
  <2>1. ASSUME NEW s \in Evi!Names, NEW rs \in SUBSET EvRules
        PROVE  {[fires EXCEPT ![s] = rs], [expected EXCEPT ![s] = rs]} \subseteq [Evi!Names -> SUBSET EvRules]
    OBVIOUS
  <2>2. fires' \in [Evi!Names -> SUBSET EvRules] /\ expected' \in [Evi!Names -> SUBSET EvRules]
    <3>1. CASE fires' = fires /\ expected' = expected
      BY <3>1
    <3>2. ASSUME NEW s \in Evi!Names, NEW rs \in SUBSET EvRules,
                 \/ fires' = [fires EXCEPT ![s] = rs] /\ expected' = expected
                 \/ expected' = [expected EXCEPT ![s] = rs] /\ fires' = fires
          PROVE  fires' \in [Evi!Names -> SUBSET EvRules] /\ expected' \in [Evi!Names -> SUBSET EvRules]
      BY <2>1, <3>2
    <3> QED
      BY <1>1, <3>1, <3>2 DEF Evi!Develop
  <2>4. healthy' \in BOOLEAN
    BY <1>1 DEF Evi!Develop
  <2>3. evEdits' \in 0..EvEdits
    BY <1>1 DEF Evi!Develop
  <2> QED
    BY <1>1, <2>2, <2>3, <2>4 DEF Evi!Develop
<1>2. ASSUME NEW d \in BOOLEAN, Evi!Start(d) PROVE Evi!TypeOK'
  BY <1>2, SampleFacts DEF Evi!Start, Evi!world
<1>3. CASE Evi!Clean
  <2>1. logs' \in Logs
    BY <1>0, <1>3 DEF Evi!Clean
  <2>2. kept' \subseteq Evi!Names
    <3>1. Samples[at] \in Evi!Names
      BY <1>3, SampleFacts DEF Evi!Clean, EvPlaces
    <3> QED
      BY <1>3, <3>1 DEF Evi!Clean
  <2> QED
    BY <1>3, <2>1, <2>2 DEF Evi!Clean, Evi!world, Logs
<1>4. CASE Evi!Container
  <2>1. at \in 1..Len(Samples) /\ Samples[at] \in Evi!Names
    BY <1>4, SampleFacts DEF Evi!Container, EvPlaces
  <2>2. /\ fires[Samples[at]] \in SUBSET EvRules
        /\ logs[Samples[at]] = None \/ logs[Samples[at]] \in SUBSET (EvRules \cup {Raw})
    BY <2>1
  <2> DEFINE log == Evi!Records(Samples[at]) \cup fires[Samples[at]] \cup {Raw}
  <2>3. log \in SUBSET (EvRules \cup {Raw})
    BY <2>2 DEF Evi!Records
  <2>4. logs' = [logs EXCEPT ![Samples[at]] = log]
    BY <1>4 DEF Evi!Container
  <2> HIDE DEF log
  <2>5. logs' \in Logs
    BY <1>0, <2>3, <2>4, LogTyped
  <2> QED
    BY <1>4, <2>5 DEF Evi!Container, Evi!world, Logs
<1>5. CASE Evi!ContainerFails
  <2>1. logs' \in Logs
    BY <1>5, InterruptedTyped DEF Evi!ContainerFails
  <2> QED
    BY <1>5, <2>1, SampleFacts DEF Evi!ContainerFails, Evi!Exit, Evi!world, Logs
<1>6. CASE Evi!Filter
  <2>1. logs' \in Logs
    BY <1>0, <1>6 DEF Evi!Filter
  <2> QED
    BY <1>6, <2>1 DEF Evi!Filter, Evi!world, Logs
<1>7. CASE Evi!Rewrite
  <2>1. at \in 1..Len(Samples) /\ Samples[at] \in Evi!Names
    BY <1>7, SampleFacts DEF Evi!Rewrite, EvPlaces
  <2>2. observed \in SUBSET EvRules
    BY <1>7, <2>1 DEF Evi!Rewrite, EvAnalyses, Grown
  <2>3. logs' \in Logs
    BY <1>0, <1>7, <2>2, LogTyped DEF Evi!Rewrite
  <2>4. at' \in 0..Len(Samples) /\ pc' \in {"clean", "evaluate"}
    BY <1>7, <2>1, SampleFacts DEF Evi!Rewrite
  <2> QED
    BY <1>7, <2>3, <2>4 DEF Evi!Rewrite, Evi!world, Logs
<1>8. CASE Evi!Malcolm
  <2>1. /\ pc' = "evaluate" /\ check' = check /\ at' = at /\ runs' = runs /\ docker' = docker
        /\ fires' = fires /\ expected' = expected /\ healthy' = healthy /\ evEdits' = evEdits
        /\ result' = result
    BY <1>8 DEF Evi!Malcolm, Evi!world
  <2>2. ASSUME NEW done \in SUBSET Evi!Names, kept' = kept,
               logs' = [s \in Evi!Names |-> IF s \in done THEN fires[s] \cup {Raw} ELSE None]
        PROVE  logs' \in Logs /\ kept' \subseteq Evi!Names
    <3>1. \A s \in Evi!Names: fires[s] \in SUBSET EvRules
      OBVIOUS
    <3>2. \A s \in Evi!Names: (IF s \in done THEN fires[s] \cup {Raw} ELSE None)
                                   \in {None} \cup SUBSET (EvRules \cup {Raw})
      BY <3>1
    <3> QED
      BY <2>2, <3>2 DEF Logs
  <2>3. ASSUME NEW left \in SUBSET Evi!Names, kept' = {s \in left: logs[s] # None},
               logs' = [s \in Evi!Names |-> IF s \in left THEN logs[s] ELSE None]
        PROVE  logs' \in Logs /\ kept' \subseteq Evi!Names
    <3>1. \A s \in Evi!Names: (IF s \in left THEN logs[s] ELSE None)
                                   \in {None} \cup SUBSET (EvRules \cup {Raw})
      OBVIOUS
    <3> QED
      BY <2>3, <3>1 DEF Logs
  <2>4. logs' \in Logs /\ kept' \subseteq Evi!Names
    BY <1>8, <2>2, <2>3 DEF Evi!Malcolm
  <2> QED
    BY <2>1, <2>4 DEF Logs
<1>9. CASE Evi!Evaluate
  BY <1>9 DEF Evi!Evaluate, Evi!world
<1>10. CASE Evi!EvaluateRaises
  BY <1>10, SampleFacts DEF Evi!EvaluateRaises, Evi!Exit, Evi!world
<1>11. CASE Evi!WriteSummary
  BY <1>11 DEF Evi!WriteSummary, Evi!world
<1>12. CASE Evi!WriteAlerts
  BY <1>12 DEF Evi!WriteAlerts, Evi!world
<1>13. CASE Evi!Verdict
  BY <1>13, SampleFacts DEF Evi!Verdict, Evi!Exit, Evi!world
<1>14. CASE Evi!Kill
  <2>1. CASE pc = "rewrite"
    <3>1. observed \in SUBSET EvRules
      BY <2>1 DEF EvAnalyses, Grown
    <3>2. \A part \in SUBSET observed: [logs EXCEPT ![Samples[at]] = part] \in Logs
      BY <1>0, <3>1, LogTyped
    <3> QED
      BY <1>0, <1>14, <2>1, <3>2, SampleFacts DEF Evi!Kill, Evi!Exit, Evi!world, Logs
  <2>2. CASE pc = "filter"
    BY <1>0, <1>14, <2>2, SampleFacts DEF Evi!Kill, Evi!Exit, Evi!world, Logs
  <2>3. CASE pc \notin {"filter", "rewrite"}
    <3>1. logs' \in Logs
      BY <1>14, <2>3, InterruptedTyped DEF Evi!Kill
    <3> QED
      BY <1>14, <3>1, SampleFacts DEF Evi!Kill, Evi!Exit, Evi!world, Logs
  <2> QED
    BY <2>1, <2>2, <2>3
<1>15. CASE Evi!Diff
  BY <1>15 DEF Evi!Diff, Evi!world
<1>16. CASE UNCHANGED evVars
  BY <1>16 DEF evVars
<1>17. CASE Evi!FilterRaises
  BY <1>0, <1>17, SampleFacts DEF Evi!FilterRaises, Evi!Exit, Evi!world, Logs
<1> QED
  BY <1>1, <1>2, <1>3, <1>4, <1>5, <1>6, <1>7, <1>8, <1>9, <1>10, <1>11, <1>12, <1>13, <1>14,
     <1>15, <1>16, <1>17 DEF Evi!Next

(* A run that ends, as a failure or otherwise, leaves no claim but that of *)
(* its result.                                                             *)
Ended ==
    /\ pc' = "idle" /\ result' \notin {"ok", "green"}
    /\ docker' = docker /\ check' = check /\ kept' = kept

LEMMA EvEnded ==
    ASSUME EvInv, Evi!TypeOK', Ended
    PROVE  EvInv'
<1>1. EvPlaces'
  BY DEF Ended, EvInv, EvPlaces
<1>2. EvAnalyses' /\ EvAnalysed' /\ EvRead'
  BY DEF Ended, EvAnalyses, EvAnalysed, EvRead
<1>3. EvVerdict'
  BY DEF Ended, EvVerdict, Evi!GreenMeansCurrent, Evi!PassIsOfThisRun, Evi!EvidenceAgrees
<1> QED
  BY <1>1, <1>2, <1>3 DEF EvInv

(* While a run is at work there is no verdict.                             *)
LEMMA EvUndecided == ASSUME result' \notin {"ok", "green"} PROVE EvVerdict'
BY DEF EvVerdict, Evi!GreenMeansCurrent, Evi!PassIsOfThisRun, Evi!EvidenceAgrees

LEMMA EvStart == ASSUME EvInv, Evi!TypeOK', NEW d \in BOOLEAN, Evi!Start(d) PROVE EvInv'
<1>1. EvPlaces'
  BY DEF Evi!Start, EvPlaces, EvInv, Evi!TypeOK
<1>2. EvAnalyses'
  BY BeforeFacts DEF Evi!Start, EvAnalyses
<1>3. EvAnalysed' /\ EvRead'
  <2>1. pc' = "evaluate" /\ docker' => check' = "proof"
    BY DEF Evi!Start, EvInv, Evi!TypeOK
  <2> QED
    BY <2>1 DEF Evi!Start, EvAnalysed, EvRead
<1>4. EvVerdict'
  BY EvUndecided DEF Evi!Start
<1> QED
  BY <1>1, <1>2, <1>3, <1>4 DEF EvInv

(* suricata_check's three steps over a capture, and its last.              *)
LEMMA EvClean == ASSUME EvInv, Evi!TypeOK', Evi!Clean PROVE EvInv'
<1> USE DEF Evi!Clean, EvInv, Evi!world
<1>1. at \in 1..Len(Samples)
  BY DEF EvPlaces, Evi!TypeOK
<1>2. EvPlaces'
  BY DEF EvPlaces
<1>3. EvAnalyses'
  <2>1. Samples[at] \in Evi!Names /\ Samples[at] \notin Before(at)
    BY <1>1, SampleFacts, BeforeFacts
  <2>2. Samples[at] \in kept' \/ logs'[Samples[at]] = None
    BY <2>1 DEF Evi!TypeOK
  <2>3. ASSUME NEW s \in Before(at) PROVE Grown(logs[s], s) /\ logs'[s] = logs[s] /\ kept \subseteq kept'
    BY <1>1, <2>1, BeforeFacts DEF EvAnalyses, Evi!TypeOK
  <2>4. \A s \in Before(at): Grown(logs[s], s)'
    BY <2>3 DEF Grown
  <2>5. DOMAIN ran = Before(at) /\ \A s \in Before(at): ran[s] = fires[s]
    BY DEF EvAnalyses
  <2> QED
    BY <2>2, <2>4, <2>5 DEF EvAnalyses, Before
<1>4. EvAnalysed' /\ EvRead'
  BY DEF EvAnalysed, EvRead
<1>5. EvVerdict'
  BY EvUndecided DEF EvPlaces
<1> QED
  BY <1>2, <1>3, <1>4, <1>5

LEMMA EvContainer == ASSUME EvInv, Evi!TypeOK', Evi!Container PROVE EvInv'
<1> USE DEF EvInv
<1>1. /\ at \in 1..Len(Samples) /\ pc = "container" /\ pc' = "filter"
      /\ at' = at /\ fires' = fires /\ check' = check /\ docker' = docker /\ result' = result
      /\ Samples[at] \in Evi!Names /\ Samples[at] \notin Before(at)
      /\ Before(at) \subseteq Evi!Names
      /\ Before(at + 1) = Before(at) \cup {Samples[at]}
  BY SampleFacts, BeforeFacts DEF EvPlaces, Evi!TypeOK, Evi!Container, Evi!world
<1>2. EvPlaces'
  BY <1>1 DEF EvPlaces
<1>3. /\ logs' = [logs EXCEPT ![Samples[at]] = Evi!Records(Samples[at]) \cup fires[Samples[at]] \cup {Raw}]
      /\ Samples[at] \notin kept => Evi!Records(Samples[at]) = {}
      /\ Evi!Records(Samples[at]) \in SUBSET (EvRules \cup {Raw})
      /\ fires[Samples[at]] \in SUBSET EvRules
      /\ kept' = kept
  BY <1>1 DEF Evi!Container, EvAnalyses, Evi!Records, Evi!TypeOK
<1>4. Ran(Before(at + 1))'
  <2>1. ran' = [n \in Before(at) \cup {Samples[at]} |->
                  IF n = Samples[at] THEN fires[Samples[at]] ELSE ran[n]]
    BY <1>1 DEF Evi!Container, EvAnalyses
  <2>2. \A n \in Before(at): ran[n] = fires[n]
    BY <1>1 DEF EvAnalyses
  <2>3. \A n \in Before(at + 1):
          (IF n = Samples[at] THEN fires[Samples[at]] ELSE ran[n]) = fires[n]
    BY <1>1, <2>2
  <2>4. ran' = [n \in Before(at + 1) |-> fires[n]]
    BY <1>1, <2>1, <2>3
  <2> QED
    BY <1>1, <2>4 DEF Ran, Before
<1>5. EvAnalyses'
  <2>1. logs'[Samples[at]] = Evi!Records(Samples[at]) \cup fires[Samples[at]] \cup {Raw}
    BY <1>1, <1>3 DEF Evi!TypeOK
  <2>2. /\ logs'[Samples[at]] \in SUBSET (EvRules \cup {Raw})
        /\ Grown(logs[Samples[at]] \cap EvRules, Samples[at])'
    BY <1>1, <1>3, <2>1, SampleFacts DEF Grown
  <2>3. \A s \in Before(at): Grown(logs[s], s) /\ logs'[s] = logs[s]
    BY <1>1, <1>3 DEF EvAnalyses, Evi!TypeOK
  <2>4. \A s \in Before(at): Grown(logs[s], s)'
    BY <1>1, <1>3, <2>3 DEF Grown
  <2> QED
    BY <1>1, <1>4, <2>2, <2>4 DEF EvAnalyses, Before
<1>6. EvAnalysed' /\ EvRead'
  BY <1>1 DEF EvAnalysed, EvRead
<1>7. EvVerdict'
  BY <1>1, EvUndecided DEF EvPlaces
<1> QED
  BY <1>2, <1>5, <1>6, <1>7

LEMMA EvFilter == ASSUME EvInv, Evi!TypeOK', Evi!Filter PROVE EvInv'
<1> USE DEF EvInv
<1>1. /\ at \in 1..Len(Samples) /\ pc = "filter" /\ pc' = "rewrite"
      /\ at' = at /\ fires' = fires /\ check' = check /\ docker' = docker /\ result' = result
      /\ ran' = ran /\ kept' = kept
      /\ Samples[at] \in Evi!Names /\ Samples[at] \notin Before(at)
      /\ Before(at) \subseteq Evi!Names
  BY SampleFacts, BeforeFacts DEF EvPlaces, Evi!TypeOK, Evi!Filter, Evi!world
<1>2. EvPlaces'
  BY <1>1 DEF EvPlaces
<1>3. observed' = logs[Samples[at]] \cap EvRules /\ Grown(logs[Samples[at]] \cap EvRules, Samples[at])
  BY <1>1 DEF Evi!Filter, EvAnalyses
<1>4. Grown(observed, Samples[at])'
  BY <1>1, <1>3 DEF Grown
<1>5. \A s \in Before(at): Grown(logs[s], s)'
  <2>1. \A s \in Before(at): Grown(logs[s], s) /\ logs'[s] = logs[s]
    BY <1>1 DEF Evi!Filter, EvAnalyses, Evi!TypeOK
  <2> QED
    BY <1>1, <2>1 DEF Grown
<1>6. EvAnalyses'
  BY <1>1, <1>4, <1>5 DEF EvAnalyses, Before, Ran
<1>7. EvAnalysed' /\ EvRead'
  BY <1>1 DEF EvAnalysed, EvRead
<1>8. EvVerdict'
  BY <1>1, EvUndecided DEF EvPlaces
<1> QED
  BY <1>2, <1>6, <1>7, <1>8

LEMMA EvRewrite == ASSUME EvInv, Evi!TypeOK', Evi!Rewrite PROVE EvInv'
<1> USE DEF EvInv
<1>1. /\ at \in 1..Len(Samples) /\ pc = "rewrite"
      /\ fires' = fires /\ check' = check /\ docker' = docker /\ result' = result /\ ran' = ran /\ kept' = kept
      /\ Samples[at] \in Evi!Names /\ Samples[at] \notin Before(at)
      /\ Before(at) \subseteq Evi!Names
      /\ Before(at + 1) = Before(at) \cup {Samples[at]}
      /\ check = "suricata" /\ docker
  BY SampleFacts, BeforeFacts DEF EvPlaces, Evi!TypeOK, Evi!Rewrite, Evi!world
<1>2. /\ logs' = [logs EXCEPT ![Samples[at]] = observed] /\ Grown(observed, Samples[at])
      /\ ran = [s \in Before(at + 1) |-> fires[s]]
      /\ \A s \in Before(at): Grown(logs[s], s)
  BY <1>1 DEF Evi!Rewrite, EvAnalyses, Ran
<1>3. \A s \in Before(at + 1): Grown(logs[s], s)'
  <2>1. \A s \in Before(at + 1): Grown(logs'[s], s)
    BY <1>1, <1>2 DEF Evi!TypeOK
  <2> QED
    BY <1>1, <2>1 DEF Grown
<1>4. EvVerdict'
  BY <1>1, EvUndecided DEF EvPlaces
<1>5. CASE at < Len(Samples)
  <2>1. pc' = "clean" /\ at' = at + 1
    BY <1>5 DEF Evi!Rewrite
  <2>2. EvPlaces'
    BY <1>1, <2>1 DEF EvPlaces
  <2>3. EvAnalyses'
    BY <1>1, <1>2, <1>3, <2>1 DEF EvAnalyses, Before
  <2> QED
    BY <1>4, <2>1, <2>2, <2>3 DEF EvAnalysed, EvRead
<1>6. CASE ~(at < Len(Samples))
  <2>1. pc' = "evaluate" /\ at' = 1
    BY <1>6 DEF Evi!Rewrite
  <2>2. EvPlaces'
    BY <1>1, <2>1 DEF EvPlaces
  <2>3. Before(at + 1) = Evi!Names
    <3>1. at \in Nat /\ Len(Samples) \in Nat /\ at <= Len(Samples)
      BY <1>1, SampleFacts
    <3>2. at = Len(Samples)
      BY <1>6, <3>1
    <3> QED
      BY <3>2, BeforeFacts
  <2>4. ran' = [s \in Evi!Names |-> fires[s]]
    BY <1>1, <1>2, <2>3
  <2>5. \A s \in Evi!Names: Grown(logs[s], s)'
    BY <1>3, <2>3
  <2>6. EvAnalysed'
    BY <1>1, <2>1, <2>4, <2>5 DEF EvAnalysed, Ran, Evi!Names
  <2> QED
    BY <1>4, <2>1, <2>2, <2>6 DEF EvAnalyses, EvRead
<1> QED
  BY <1>5, <1>6

(* malcolm_check's one container.                                          *)
LEMMA EvMalcolm == ASSUME EvInv, Evi!TypeOK', Evi!Malcolm PROVE EvInv'
<1> USE DEF EvInv
<1>1. /\ pc = "copy" /\ pc' = "evaluate" /\ check = "malcolm" /\ at' = at
      /\ fires' = fires /\ check' = check /\ docker' = docker /\ result' = result
  BY DEF EvPlaces, Evi!Malcolm, Evi!world
<1>2. EvPlaces'
  BY <1>1 DEF EvPlaces
<1>3. ASSUME NEW done \in SUBSET Evi!Names, kept' = kept,
             logs' = [s \in Evi!Names |-> IF s \in done THEN fires[s] \cup {Raw} ELSE None],
             ran' = [s \in done |-> fires[s]]
      PROVE  EvAnalysed'
  <2>1. DOMAIN ran' = done /\ kept' = {}
    BY <1>1, <1>3 DEF EvPlaces
  <2> QED
    BY <1>1, <1>3, <2>1 DEF EvAnalysed, Evi!Names
<1>4. ASSUME NEW left \in SUBSET Evi!Names, kept' = {s \in left: logs[s] # None}, ran' = ran,
             logs' = [s \in Evi!Names |-> IF s \in left THEN logs[s] ELSE None]
      PROVE  EvAnalysed'
  <2>1. DOMAIN ran' = {}
    BY <1>1, <1>4 DEF EvPlaces
  <2>2. \A s \in Evi!Names \ kept': logs'[s] = None
    BY <1>4
  <2> QED
    BY <1>1, <2>1, <2>2 DEF EvAnalysed, Evi!Names
<1>5. EvAnalysed'
  BY <1>3, <1>4 DEF Evi!Malcolm
<1>6. EvVerdict'
  BY <1>1, EvUndecided DEF EvPlaces
<1> QED
  BY <1>1, <1>2, <1>5, <1>6 DEF EvAnalyses, EvRead

-----------------------------------------------------------------------------
(* Reading, writing and the verdict.                                       *)
LEMMA EvEvaluate == ASSUME EvInv, Evi!TypeOK', Evi!Evaluate PROVE EvInv'
<1> USE DEF EvInv
<1>1. /\ pc = "evaluate" /\ pc' = "summary" /\ at' = at /\ logs' = logs /\ kept' = kept
      /\ fires' = fires /\ check' = check /\ docker' = docker /\ result' = result
      /\ observed' = [s \in Evi!Names |-> IF check = "proof" THEN fires[s] ELSE Evi!Read(logs[s])]
      /\ ran' = IF check = "proof" THEN fires ELSE ran
  BY DEF Evi!Evaluate, Evi!world
<1>2. EvPlaces'
  BY <1>1 DEF EvPlaces
<1>3. EvAnalysed'
  BY <1>1 DEF EvAnalysed, Ran, Grown, Evi!Names
<1>4. EvRead'
  BY <1>1 DEF EvRead, Seen
<1>5. EvVerdict'
  BY <1>1, EvUndecided DEF EvPlaces
<1> QED
  BY <1>1, <1>2, <1>3, <1>4, <1>5 DEF EvAnalyses

LEMMA EvWriteSummary == ASSUME EvInv, Evi!TypeOK', Evi!WriteSummary PROVE EvInv'
<1> USE DEF EvInv
<1>1. /\ pc = "summary" /\ pc' = IF check = "malcolm" THEN "alerts" ELSE "verdict"
      /\ at' = at /\ logs' = logs /\ observed' = observed /\ ran' = ran /\ kept' = kept
      /\ fires' = fires /\ expected' = expected /\ healthy' = healthy
      /\ check' = check /\ docker' = docker /\ result' = result
      /\ summary' = [observed |-> observed, expected |-> expected, healthy |-> check # "proof" \/ healthy]
  BY DEF Evi!WriteSummary, Evi!world
<1>2. EvPlaces'
  BY <1>1 DEF EvPlaces
<1>3. EvAnalysed'
  BY <1>1 DEF EvAnalysed, Ran, Grown, Evi!Names
<1>4. EvRead'
  BY <1>1 DEF EvRead, Seen
<1>5. EvVerdict'
  BY <1>1, EvUndecided DEF EvPlaces
<1> QED
  BY <1>1, <1>2, <1>3, <1>4, <1>5 DEF EvAnalyses

LEMMA EvWriteAlerts == ASSUME EvInv, Evi!TypeOK', Evi!WriteAlerts PROVE EvInv'
<1> USE DEF EvInv
<1>1. /\ pc = "alerts" /\ pc' = "verdict"
      /\ at' = at /\ logs' = logs /\ observed' = observed /\ ran' = ran /\ kept' = kept
      /\ fires' = fires /\ expected' = expected /\ healthy' = healthy
      /\ check' = check /\ docker' = docker /\ result' = result
      /\ summary' = summary /\ alerts' = observed
  BY DEF Evi!WriteAlerts, Evi!world
<1>2. EvPlaces'
  BY <1>1 DEF EvPlaces
<1>3. EvAnalysed'
  BY <1>1 DEF EvAnalysed, Ran, Grown, Evi!Names
<1>4. EvRead'
  BY <1>1 DEF EvRead, Seen
<1>5. EvVerdict'
  BY <1>1, EvUndecided DEF EvPlaces
<1> QED
  BY <1>1, <1>2, <1>3, <1>4, <1>5 DEF EvAnalyses

(* What a run that passes has seen: the analyses it made, and for captures *)
(* without one that nothing was expected.                                  *)
LEMMA EvPasses ==
    ASSUME EvInv, pc = "verdict", observed = expected, check = "proof" => healthy
    PROVE  /\ summary.observed = observed /\ expected = [s \in Evi!Names |-> Seen(s)]
           /\ check = "malcolm" => alerts = observed
           /\ check = "proof" =>
                /\ summary = [observed |-> fires, expected |-> expected, healthy |-> TRUE]
                /\ ran = fires /\ fires = expected
           /\ check = "suricata" /\ docker =>
                ran = fires /\ logs = expected /\ \A s \in Evi!Names: Grown(expected[s], s)
           /\ check = "malcolm" =>
                /\ \A s \in DOMAIN ran: s \in Evi!Names /\ ran[s] = fires[s] /\ expected[s] = fires[s]
                /\ \A s \in Evi!Names \ DOMAIN ran: s \notin kept => expected[s] = {}
<1> USE DEF EvInv
<1>1. /\ summary = [observed |-> observed, expected |-> expected, healthy |-> check # "proof" \/ healthy]
      /\ observed = [s \in Evi!Names |-> Seen(s)]
      /\ check = "proof" => ran = fires
      /\ check = "malcolm" => alerts = observed /\ docker
  BY DEF EvRead, EvPlaces
<1>2. fires = [s \in Evi!Names |-> fires[s]] /\ \A s \in Evi!Names: fires[s] \in SUBSET EvRules
  BY DEF Evi!TypeOK
<1>3. summary.observed = observed
  BY <1>1
<1>4. check = "proof" => observed = fires
  BY <1>1, <1>2 DEF Seen
<1>5. ASSUME check = "suricata", docker
      PROVE  ran = fires /\ logs = observed /\ \A s \in Evi!Names: Grown(observed[s], s)
  <2>1. ran = fires /\ \A s \in Evi!Names: Grown(logs[s], s)
    BY <1>2, <1>5 DEF EvAnalysed, Ran
  <2>2. \A s \in Evi!Names: Seen(s) = logs[s]
    BY <1>5, <2>1, ReadFacts DEF Seen, Grown
  <2>3. logs = [s \in Evi!Names |-> logs[s]]
    BY DEF Evi!TypeOK
  <2> QED
    BY <1>1, <2>1, <2>2, <2>3
<1>6. ASSUME check = "malcolm"
      PROVE  /\ \A s \in DOMAIN ran: s \in Evi!Names /\ ran[s] = fires[s] /\ expected[s] = fires[s]
             /\ \A s \in Evi!Names \ DOMAIN ran: s \notin kept => expected[s] = {}
  <2>1. /\ DOMAIN ran \subseteq Evi!Names \ kept /\ \A s \in DOMAIN ran: ran[s] = fires[s]
        /\ \A s \in Evi!Names \ kept: logs[s] = IF s \in DOMAIN ran THEN fires[s] \cup {Raw} ELSE None
    BY <1>1, <1>6 DEF EvAnalysed
  <2>2. ASSUME NEW s \in DOMAIN ran PROVE s \in Evi!Names /\ ran[s] = fires[s] /\ expected[s] = fires[s]
    <3>1. s \in Evi!Names /\ ran[s] = fires[s] /\ logs[s] = fires[s] \cup {Raw}
      BY <2>1
    <3>2. Seen(s) = fires[s]
      BY <1>2, <1>6, <3>1, ReadFacts DEF Seen
    <3> QED
      BY <1>1, <3>1, <3>2
  <2>3. ASSUME NEW s \in Evi!Names \ DOMAIN ran, s \notin kept PROVE expected[s] = {}
    <3>1. logs[s] = None
      BY <2>1, <2>3
    <3>2. Seen(s) = {}
      BY <1>6, <3>1, ReadFacts DEF Seen
    <3> QED
      BY <1>1, <3>2
  <2> QED
    BY <2>2, <2>3
<1> QED
  BY <1>1, <1>3, <1>4, <1>5, <1>6

LEMMA EvVerdictStep == ASSUME EvInv, Evi!TypeOK', Evi!Verdict PROVE EvInv'
<1>1. /\ pc = "verdict" /\ pc' = "idle" /\ logs' = logs /\ ran' = ran /\ kept' = kept
      /\ fires' = fires /\ expected' = expected /\ healthy' = healthy /\ committed' = committed
      /\ check' = check /\ docker' = docker /\ summary' = summary /\ alerts' = alerts
      /\ result' = IF observed = expected /\ (check = "proof" => healthy) THEN "ok" ELSE "failed"
  BY DEF Evi!Verdict, Evi!Exit, Evi!world
<1>2. CASE ~(observed = expected /\ (check = "proof" => healthy))
  BY <1>1, <1>2, EvEnded DEF Ended
<1>3. CASE observed = expected /\ (check = "proof" => healthy)
  <2>1. result' = "ok"
    BY <1>1, <1>3
  <2>2. EvPlaces'
    BY <1>1 DEF EvInv, EvPlaces
  <2>3. /\ summary.observed = expected /\ expected = [s \in Evi!Names |-> Seen(s)]
        /\ check = "malcolm" => alerts = observed
        /\ check = "proof" =>
             /\ summary = [observed |-> fires, expected |-> expected, healthy |-> TRUE]
             /\ ran = fires /\ fires = expected
        /\ check = "suricata" /\ docker =>
             ran = fires /\ logs = expected /\ \A s \in Evi!Names: Grown(expected[s], s)
        /\ check = "malcolm" =>
             /\ \A s \in DOMAIN ran: s \in Evi!Names /\ ran[s] = fires[s] /\ expected[s] = fires[s]
             /\ \A s \in Evi!Names \ DOMAIN ran: s \notin kept => expected[s] = {}
    BY <1>1, <1>3, EvPasses
  <2>4. /\ check \in {"proof", "suricata", "malcolm"} /\ DOMAIN fires = Evi!Names
        /\ fires = [s \in Evi!Names |-> fires[s]] /\ expected = [s \in Evi!Names |-> expected[s]]
        /\ check = "proof" => kept = {}
    BY DEF EvInv, Evi!TypeOK, EvPlaces
  <2>5. Evi!PassIsOfThisRun'
    <3>1. ASSUME docker, NEW s \in DOMAIN ran
          PROVE  ran[s] \subseteq expected[s] /\ (s \notin kept => ran[s] = expected[s])
      BY <2>3, <2>4, <3>1 DEF Grown
    <3>2. ASSUME docker, NEW s \in Evi!Names \ DOMAIN ran
          PROVE  check = "malcolm" /\ (s \notin kept => expected[s] = {})
      BY <2>3, <2>4, <3>2
    <3>3. ASSUME docker, check = "suricata", kept = {} PROVE logs = ran
      <4>1. \A s \in Evi!Names: expected[s] = fires[s]
        BY <2>3, <3>3 DEF Grown
      <4> QED
        BY <2>3, <2>4, <3>3, <4>1
    <3> QED
      BY <1>1, <2>4, <3>1, <3>2, <3>3 DEF Evi!PassIsOfThisRun, Evi!Names
  <2>6. Evi!EvidenceAgrees'
    <3>1. check = "malcolm" => alerts = summary.observed
      BY <1>3, <2>3
    <3>2. check = "suricata" => \A s \in Evi!Names: Evi!Read(logs[s]) = summary.observed[s]
      BY <2>3 DEF Seen
    <3> QED
      BY <1>1, <2>3, <3>1, <3>2 DEF Evi!EvidenceAgrees, Evi!Names, Evi!Read
  <2>7. EvVerdict'
    BY <1>1, <1>3, <2>1, <2>3, <2>5, <2>6 DEF EvVerdict, Evi!GreenMeansCurrent
  <2> QED
    BY <1>1, <2>2, <2>7 DEF EvInv, EvAnalyses, EvAnalysed, EvRead
<1> QED
  BY <1>2, <1>3

LEMMA EvDiff == ASSUME EvInv, Evi!TypeOK', Evi!Diff PROVE EvInv'
<1>1. /\ pc = "idle" /\ pc' = "idle" /\ check = "proof" /\ result = "ok"
      /\ fires' = fires /\ expected' = expected /\ healthy' = healthy /\ committed' = committed
      /\ check' = check /\ docker' = docker /\ kept' = kept
      /\ result' = IF summary = committed THEN "green" ELSE "red"
  BY DEF Evi!Diff, Evi!world
<1>2. EvPlaces'
  BY <1>1 DEF EvInv, EvPlaces
<1>3. EvVerdict'
  BY <1>1 DEF EvInv, EvVerdict, Evi!GreenMeansCurrent, Evi!PassIsOfThisRun, Evi!EvidenceAgrees
<1> QED
  BY <1>1, <1>2, <1>3 DEF EvInv, EvAnalyses, EvAnalysed, EvRead

LEMMA EvNext == EvInv /\ [Evi!Next]_evVars => EvInv'
<1> SUFFICES ASSUME EvInv, [Evi!Next]_evVars PROVE EvInv'
  OBVIOUS
<1>1. Evi!TypeOK'
  BY EvTyped DEF EvInv
<1>2. CASE Evi!Develop
  BY <1>1, <1>2, EvEnded DEF Evi!Develop, Ended
<1>3. CASE Evi!ContainerFails \/ Evi!FilterRaises \/ Evi!EvaluateRaises \/ Evi!Kill
  BY <1>1, <1>3, EvEnded DEF Evi!ContainerFails, Evi!FilterRaises, Evi!EvaluateRaises, Evi!Kill, Evi!Exit, Ended
<1>4. CASE UNCHANGED evVars
  <2>1. EvPlaces' /\ EvAnalyses'
    BY <1>4 DEF evVars, EvInv, EvPlaces, EvAnalyses, Ran, Before, Grown
  <2>2. EvAnalysed' /\ EvRead'
    BY <1>4 DEF evVars, EvInv, EvAnalysed, EvRead, Ran, Seen, Evi!Read, Evi!Names, Grown
  <2>3. EvVerdict'
    BY <1>4 DEF evVars, EvInv, EvVerdict, Evi!GreenMeansCurrent, Evi!PassIsOfThisRun,
                Evi!EvidenceAgrees, Evi!Read, Evi!Names
  <2> QED
    BY <1>1, <2>1, <2>2, <2>3 DEF EvInv
<1> QED
  BY <1>1, <1>2, <1>3, <1>4, EvStart, EvClean, EvContainer, EvFilter, EvRewrite, EvMalcolm,
     EvEvaluate, EvWriteSummary, EvWriteAlerts, EvVerdictStep, EvDiff DEF Evi!Next

-----------------------------------------------------------------------------
(* The metrics.  Metrics counts as the lemmas about finite sets do.        *)
LEMMA SameCount == ASSUME NEW S PROVE Met!Cardinality(S) = Cardinality(S)
  BY Zenon DEF Met!Cardinality, Cardinality

LEMMA SameFinite == ASSUME NEW S PROVE Met!IsFiniteSet(S) <=> IsFiniteSet(S)
  BY Zenon DEF Met!IsFiniteSet, IsFiniteSet

(* Labels and rules can be counted.                                        *)

LEMMA MetFinite ==
    ASSUME Met!TypeOK
    PROVE  /\ IsFiniteSet(labels) /\ \A S \in SUBSET labels: IsFiniteSet(S) /\ Cardinality(S) \in Nat
           /\ IsFiniteSet(rules) /\ \A S \in SUBSET rules: IsFiniteSet(S) /\ Cardinality(S) \in Nat
<1>1. IsFiniteSet(labels) /\ IsFiniteSet(rules)
  <2>1. IsFiniteSet(MeLabels) /\ IsFiniteSet(MeRules)
    BY MetricsHolds, SameFinite DEF Met!MetricsAssumption
  <2>2. labels \in SUBSET MeLabels /\ rules \in SUBSET MeRules
    BY DEF Met!TypeOK
  <2> QED
    BY <2>1, <2>2, FS_Subset
<1>2. ASSUME NEW S \in SUBSET labels PROVE IsFiniteSet(S) /\ Cardinality(S) \in Nat
  BY <1>1, FS_Subset, FS_CardinalityType
<1>3. ASSUME NEW S \in SUBSET rules PROVE IsFiniteSet(S) /\ Cardinality(S) \in Nat
  BY <1>1, FS_Subset, FS_CardinalityType
<1> QED
  BY <1>1, <1>2, <1>3

LEMMA HitFacts ==
    ASSUME Met!TypeOK, NEW r, NEW ls \in SUBSET labels
    PROVE  Met!Hit(r, ls) \in Nat /\ Cardinality(ls) \in Nat /\ Met!Hit(r, ls) <= Cardinality(ls)
<1> DEFINE hit == {l \in ls: <<r.path, l.id>> \in hits}
<1>1. IsFiniteSet(ls) /\ Cardinality(ls) \in Nat /\ Cardinality(hit) \in Nat
  BY MetFinite
<1>2. Cardinality(hit) <= Cardinality(ls)
  BY <1>1, FS_Subset
<1> QED
  BY <1>1, <1>2, SameCount DEF Met!Hit

(* A row counts each of its positives and negatives once.                  *)
LEMMA CountsFacts ==
    ASSUME Met!TypeOK, NEW r, NEW ps \in SUBSET labels, NEW ns \in SUBSET labels
    PROVE  LET c == Met!Counts(r, ps, ns)
           IN  /\ {c.tp, c.fn, c.fp, c.tn} \subseteq Nat
               /\ c.tp + c.fn = Cardinality(ps) /\ c.fp + c.tn = Cardinality(ns)
<1>1. /\ Met!Hit(r, ps) \in Nat /\ Cardinality(ps) \in Nat /\ Met!Hit(r, ps) <= Cardinality(ps)
      /\ Met!Hit(r, ns) \in Nat /\ Cardinality(ns) \in Nat /\ Met!Hit(r, ns) <= Cardinality(ns)
  BY HitFacts
<1>2. /\ Met!Counts(r, ps, ns).tp = Met!Hit(r, ps)
      /\ Met!Counts(r, ps, ns).fn = Cardinality(ps) - Met!Hit(r, ps)
      /\ Met!Counts(r, ps, ns).fp = Met!Hit(r, ns)
      /\ Met!Counts(r, ps, ns).tn = Cardinality(ns) - Met!Hit(r, ns)
  BY SameCount DEF Met!Counts
<1> QED
  BY <1>1, <1>2

LEMMA RowFacts ==
    ASSUME Met!TypeOK, NEW r
    PROVE  /\ {Met!Row(r).tp, Met!Row(r).fn, Met!Row(r).fp, Met!Row(r).tn} \subseteq Nat
           /\ r.kind = "single" =>
                /\ Met!Row(r).tp + Met!Row(r).fn = Cardinality(Met!Own(r, Met!Of("positive")))
                /\ Met!Row(r).fp + Met!Row(r).tn = Cardinality(Met!Of("negative"))
<1>1. \A kind: Met!Of(kind) \in SUBSET labels /\ Met!Own(r, Met!Of(kind)) \in SUBSET labels
  BY DEF Met!Of, Met!Own
<1>2. CASE r.kind = "correlation"
  <2>1. Met!Row(r) = Met!Counts(r, Met!Own(r, Met!Of("window")), Met!Own(r, Met!Of("quiet")))
    BY <1>2 DEF Met!Row
  <2> QED
    BY <1>1, <1>2, <2>1, CountsFacts
<1>3. CASE r.kind # "correlation"
  <2>1. Met!Row(r) = Met!Counts(r, Met!Own(r, Met!Of("positive")), Met!Of("negative"))
    BY <1>3 DEF Met!Row
  <2> QED
    BY <1>1, <2>1, CountsFacts
<1> QED
  BY <1>2, <1>3

Trials(c) == {<<c.tp, c.tp + c.fp>>, <<c.tp, c.tp + c.fn>>, <<c.fp, c.fp + c.tn>>}

(* With a benign event in the corpus, every interval that is asked for has *)
(* trials, and no more successes than trials.                              *)
LEMMA IntervalsDefined ==
    ASSUME Met!TypeOK, Met!Of("benign") # {}, NEW i \in Met!Intervals
    PROVE  Met!Defined(i)
<1>1. CASE i = <<Met!FalseAlarms, Cardinality(Met!Of("benign"))>>
  <2> DEFINE alarms == {l \in Met!Of("benign"): \E r \in Met!OfKind("single"): <<r.path, l.id>> \in hits}
  <2>1. Met!Of("benign") \in SUBSET labels
    BY DEF Met!Of
  <2>2. IsFiniteSet(Met!Of("benign")) /\ Cardinality(Met!Of("benign")) \in Nat /\ Cardinality(alarms) \in Nat
    BY <2>1, MetFinite
  <2>3. Cardinality(alarms) <= Cardinality(Met!Of("benign")) /\ Cardinality(Met!Of("benign")) # 0
    BY <2>2, FS_Subset, FS_EmptySet
  <2>4. Met!FalseAlarms = Cardinality(alarms)
    BY SameCount DEF Met!FalseAlarms
  <2> HIDE DEF alarms
  <2> QED
    BY <1>1, <2>2, <2>3, <2>4 DEF Met!Defined
<1>2. ASSUME NEW r \in Met!Measured, i[2] # 0,
             \/ i = <<Met!Row(r).tp, Met!Row(r).tp + Met!Row(r).fp>>
             \/ i = <<Met!Row(r).tp, Met!Row(r).tp + Met!Row(r).fn>>
             \/ i = <<Met!Row(r).fp, Met!Row(r).fp + Met!Row(r).tn>>
      PROVE  Met!Defined(i)
  <2>1. {Met!Row(r).tp, Met!Row(r).fn, Met!Row(r).fp, Met!Row(r).tn} \subseteq Nat
    BY RowFacts
  <2> QED
    BY <1>2, <2>1 DEF Met!Defined
<1>3. ASSUME NEW r \in Met!Measured, i[2] # 0, i \in Trials(Met!Row(r)) PROVE Met!Defined(i)
  BY <1>2, <1>3 DEF Trials
<1>4. \/ i = <<Met!FalseAlarms, Cardinality(Met!Of("benign"))>>
      \/ i[2] # 0 /\ \E r \in Met!Measured: i \in Trials(Met!Row(r))
  BY SameCount DEF Met!Intervals, Trials
<1> QED
  BY <1>1, <1>3, <1>4

-----------------------------------------------------------------------------
(* The sum of the sizes of parts that do not overlap is the size of the    *)
(* whole: number the members of each part.                                 *)
LEMMA SumOfParts ==
    ASSUME NEW S, NEW U, IsFiniteSet(U), NEW part,
           \A r \in S: part[r] \in SUBSET U,
           \A q, r \in S: q # r => part[q] \cap part[r] = {},
           U = UNION {part[r]: r \in S}
    PROVE  Met!Total([r \in S |-> Cardinality(part[r])]) = Cardinality(U)
<1> DEFINE n == [r \in S |-> Cardinality(part[r])]
           T == UNION {{r} \X (1..n[r]): r \in S}
           number == [r \in S |-> CHOOSE b: b \in Bijection(1..n[r], part[r])]
           member == [x \in T |-> number[x[1]][x[2]]]
<1>1. \A r \in S: number[r] \in Bijection(1..n[r], part[r])
  <2> SUFFICES ASSUME NEW r \in S PROVE number[r] \in Bijection(1..n[r], part[r])
    OBVIOUS
  <2>1. IsFiniteSet(part[r])
    BY FS_Subset
  <2>2. \E b: b \in Bijection(1..n[r], part[r])
    BY <2>1, FS_CardinalityType DEF ExistsBijection
  <2> QED
    BY <2>2
<1> HIDE DEF number
<1>2. \A r \in S: /\ number[r] \in [1..n[r] -> part[r]]
                  /\ \A i, j \in 1..n[r]: number[r][i] = number[r][j] => i = j
                  /\ \A l \in part[r]: \E i \in 1..n[r]: number[r][i] = l
  <2> SUFFICES ASSUME NEW r \in S
               PROVE  /\ number[r] \in [1..n[r] -> part[r]]
                      /\ \A i, j \in 1..n[r]: number[r][i] = number[r][j] => i = j
                      /\ \A l \in part[r]: \E i \in 1..n[r]: number[r][i] = l
    OBVIOUS
  <2>1. number[r] \in Bijection(1..n[r], part[r])
    BY <1>1
  <2> HIDE DEF n
  <2> QED
    BY <2>1 DEF Bijection, Injection, Surjection, IsInjective
<1>3. /\ \A x \in T: x = <<x[1], x[2]>> /\ x[1] \in S /\ x[2] \in 1..n[x[1]]
      /\ \A r \in S: \A i \in 1..n[r]: <<r, i>> \in T
  <2> HIDE DEF n
  <2> QED
    OBVIOUS
<1> HIDE DEF T, n
<1>4. member \in Injection(T, U)
  <2>1. \A x \in T: member[x] \in part[x[1]] /\ member[x] \in U
    <3> SUFFICES ASSUME NEW x \in T PROVE member[x] \in part[x[1]] /\ member[x] \in U
      OBVIOUS
    <3>1. x[1] \in S /\ x[2] \in 1..n[x[1]] /\ number[x[1]] \in [1..n[x[1]] -> part[x[1]]]
      BY <1>2, <1>3
    <3>2. number[x[1]][x[2]] \in part[x[1]] /\ part[x[1]] \in SUBSET U
      BY <3>1
    <3> QED
      BY <3>2
  <2>2. ASSUME NEW x \in T, NEW y \in T, member[x] = member[y] PROVE x = y
    <3>1. x[1] = y[1]
      BY <1>3, <2>1, <2>2
    <3>2. x[2] = y[2]
      BY <1>2, <1>3, <2>2, <3>1
    <3> QED
      BY <1>3, <3>1, <3>2
  <2> QED
    BY <2>1, <2>2 DEF Injection, IsInjective
<1>5. member \in Surjection(T, U)
  <2>1. ASSUME NEW l \in U PROVE \E x \in T: member[x] = l
    <3>1. PICK r \in S: l \in part[r]
      OBVIOUS
    <3>2. PICK i \in 1..n[r]: number[r][i] = l
      BY <1>2, <3>1
    <3>3. <<r, i>> \in T /\ member[<<r, i>>] = l
      BY <1>3, <3>2
    <3> QED
      BY <3>3
  <2> QED
    BY <1>4, <2>1 DEF Injection, Surjection
<1>6. Cardinality(T) = Cardinality(U)
  BY <1>4, <1>5, FS_Injection
<1>7. Met!Total(n) = Cardinality(T)
  BY SameCount DEF Met!Total, n, T
<1> QED
  BY <1>6, <1>7 DEF n

LEMMA SumOfSame ==
    ASSUME NEW S, IsFiniteSet(S), NEW n \in Nat
    PROVE  Met!Total([r \in S |-> n]) = n * Cardinality(S)
<1>1. Met!Total([r \in S |-> n]) = Cardinality(S \X (1..n))
  <2>1. UNION {{r} \X (1..n): r \in S} = S \X (1..n)
    OBVIOUS
  <2>2. Met!Total([r \in S |-> n]) = Cardinality(UNION {{r} \X (1..n): r \in S})
    BY SameCount DEF Met!Total
  <2> QED
    BY <2>1, <2>2
<1>2. IsFiniteSet(1..n) /\ Cardinality(1..n) = n
  BY FS_Interval
<1>3. Cardinality(S \X (1..n)) = Cardinality(S) * n /\ Cardinality(S) \in Nat
  BY <1>2, FS_Product, FS_CardinalityType
<1>4. Cardinality(S) * n = n * Cardinality(S)
  BY <1>3
<1> QED
  BY <1>1, <1>3, <1>4

(* The rows and the totals of a tree account for its labels.               *)
LEMMA Accounted == MetInv => Met!LabelsAccounted
<1> SUFFICES ASSUME MetInv, meResult = "ok" PROVE Met!LabelsAccounted
  BY DEF Met!LabelsAccounted
<1> DEFINE single == Met!OfKind("single")
           own(r) == Met!Own(r, Met!Of("positive"))
           part == [r \in single |-> own(r)]
           U == UNION {part[r]: r \in single}
           orphans == {l \in Met!Of("positive"): \A r \in single: r.path # l.rule}
<1>1. Met!TypeOK /\ json = Met!Metrics
  BY DEF MetInv, MetricsOfTree, Met!ReportsCurrent
<1>2. /\ json.positives = Cardinality(Met!Of("positive"))
      /\ json.negatives = Cardinality(Met!Of("negative"))
      /\ \A r \in single: json.rows[r] = Met!Row(r) /\ r.kind = "single"
  <2>1. json = [rows |-> [r \in Met!Measured |-> Met!Row(r)], falseAlarms |-> Met!FalseAlarms,
               coverage |-> Met!Coverage,
               positives |-> Cardinality(Met!Of("positive")),
               negatives |-> Cardinality(Met!Of("negative"))]
    BY <1>1, SameCount DEF Met!Metrics
  <2>2. \A r \in single: r \in Met!Measured /\ r.kind = "single"
    BY DEF Met!Measured, Met!OfKind
  <2> HIDE DEF single
  <2> QED
    BY <2>1, <2>2
<1>3. /\ IsFiniteSet(Met!Of("positive")) /\ IsFiniteSet(Met!Of("negative"))
      /\ Cardinality(Met!Of("negative")) \in Nat /\ IsFiniteSet(single)
  <2>1. /\ Met!Of("positive") \in SUBSET labels /\ Met!Of("negative") \in SUBSET labels
        /\ single \in SUBSET rules
    BY DEF Met!Of, Met!OfKind
  <2> QED
    BY <1>1, <2>1, MetFinite
<1>4. /\ U \subseteq Met!Of("positive") /\ orphans \subseteq Met!Of("positive")
      /\ U \cup orphans = Met!Of("positive") /\ U \cap orphans = {}
  BY DEF Met!Own
<1>5. \A q, r \in single: q # r => part[q] \cap part[r] = {}
  <2>1. \A q, r \in single: q.path = r.path => q = r
    BY <1>1, MetricsHolds DEF Met!MetricsAssumption, Met!TypeOK, Met!OfKind
  <2> QED
    BY <2>1 DEF Met!Own
<1>6. IsFiniteSet(U) /\ IsFiniteSet(orphans)
  BY <1>3, <1>4, FS_Subset
<1>7. Met!Total([r \in single |-> Cardinality(part[r])]) = Cardinality(U)
  <2>1. \A r \in single: part[r] \in SUBSET U
    OBVIOUS
  <2>2. U = UNION {part[r]: r \in single}
    OBVIOUS
  <2> HIDE DEF U, part
  <2> QED
    BY <1>5, <1>6, <2>1, <2>2, SumOfParts
<1>8. Cardinality(Met!Of("positive")) = Cardinality(U) + Cardinality(orphans)
  <2> HIDE DEF U, orphans
  <2>1. /\ Cardinality(U \cup orphans) = Cardinality(U) + Cardinality(orphans) - Cardinality(U \cap orphans)
        /\ Cardinality(U) \in Nat /\ Cardinality(orphans) \in Nat /\ Cardinality({}) = 0
    BY <1>6, FS_Union, FS_CardinalityType, FS_EmptySet
  <2>2. U \cup orphans = Met!Of("positive") /\ U \cap orphans = {}
    BY <1>4 DEF U, orphans
  <2>3. /\ Cardinality(U \cup orphans) = Cardinality(Met!Of("positive"))
        /\ Cardinality(U \cap orphans) = 0
    BY <2>1, <2>2, Zenon
  <2> QED
    BY <2>1, <2>3
<1>9. [r \in single |-> json.rows[r].tp + json.rows[r].fn] = [r \in single |-> Cardinality(part[r])]
  <2>1. \A r \in single: json.rows[r].tp + json.rows[r].fn = Cardinality(part[r])
    BY <1>1, <1>2, RowFacts
  <2> HIDE DEF part, single
  <2> QED
    BY <2>1
<1>10. Met!Total([r \in single |-> json.rows[r].fp + json.rows[r].tn]) = json.negatives * Cardinality(single)
  <2>1. \A r \in single: json.rows[r].fp + json.rows[r].tn = Cardinality(Met!Of("negative"))
    BY <1>1, <1>2, RowFacts
  <2> HIDE DEF single
  <2>2. [r \in single |-> json.rows[r].fp + json.rows[r].tn]
          = [r \in single |-> Cardinality(Met!Of("negative"))]
    BY <2>1
  <2>3. Met!Total([r \in single |-> Cardinality(Met!Of("negative"))])
          = Cardinality(Met!Of("negative")) * Cardinality(single)
    BY <1>3, SumOfSame
  <2> QED
    BY <1>2, <2>2, <2>3
<1>11. json.positives = Met!Total([r \in single |-> json.rows[r].tp + json.rows[r].fn])
                          + Cardinality(orphans)
  <2> HIDE DEF U, part, orphans
  <2> QED
    BY <1>2, <1>7, <1>8, <1>9
<1> QED
  BY <1>10, <1>11, SameCount DEF Met!LabelsAccounted

-----------------------------------------------------------------------------
(* A run computes on a tree that stays as it is until the run is over.     *)
LEMMA SameTree ==
    ASSUME UNCHANGED <<rules, labels, catalogue, hits>>
    PROVE  Met!Metrics' = Met!Metrics /\ Met!Of("benign")' = Met!Of("benign")
<1>1. \A kind: Met!Of(kind)' = Met!Of(kind) /\ Met!OfKind(kind)' = Met!OfKind(kind)
  BY DEF Met!Of, Met!OfKind
<1>2. Met!Measured' = Met!Measured /\ Met!FalseAlarms' = Met!FalseAlarms /\ Met!Coverage' = Met!Coverage
  BY <1>1 DEF Met!Measured, Met!FalseAlarms, Met!Coverage, Met!Detected
<1>3. \A r: Met!Row(r)' = Met!Row(r)
  BY <1>1 DEF Met!Row, Met!Counts, Met!Own, Met!Hit
<1> QED
  BY <1>1, <1>2, <1>3 DEF Met!Metrics

LEMMA MetNext == MetInv /\ [Met!Next]_meVars => MetInv'
<1> SUFFICES ASSUME MetInv, [Met!Next]_meVars PROVE MetInv'
  OBVIOUS
<1> USE MetricsHolds DEF MetInv, MetricsOfTree, Met!MetricsAssumption, Met!ReportsCurrent, Met!RatesDefined
<1>1. CASE Met!Develop
  <2>1. Met!TypeOK'
    BY <1>1 DEF Met!Develop, Met!TypeOK
  <2> QED
    BY <1>1, <2>1 DEF Met!Develop
<1>2. CASE Met!Compute
  <2>1. Met!Metrics' = Met!Metrics /\ Met!Of("benign")' = Met!Of("benign")
    BY <1>2, SameTree DEF Met!Compute, Met!tree
  <2>2. Met!TypeOK'
    BY <1>2 DEF Met!Compute, Met!TypeOK, Met!tree, Met!Exit
  <2>3. meResult' = "undefined" => Met!Of("benign") = {} \/ catalogue' = {}
    <3>1. Met!Coverage.total = 0 => catalogue = {}
      <4>1. IsFiniteSet(Techniques) /\ catalogue \in SUBSET Techniques
        BY SameFinite DEF Met!TypeOK
      <4>2. IsFiniteSet(catalogue) /\ Met!Cardinality(catalogue) = Cardinality(catalogue)
        BY <4>1, FS_Subset, SameCount
      <4> QED
        BY <4>2, FS_EmptySet DEF Met!Coverage
    <3> QED
      BY <1>2, <3>1, IntervalsDefined DEF Met!Compute, Met!Exit, Met!tree
  <2>4. /\ mePc' # "idle" => mePc' = "json" /\ meResult' = "none" /\ metrics' = Met!Metrics
        /\ meResult' # "ok"
    BY <1>2 DEF Met!Compute, Met!Exit, Met!TypeOK
  <2> QED
    BY <2>1, <2>2, <2>3, <2>4
<1>3. CASE Met!WriteJson
  <2>1. Met!Metrics' = Met!Metrics
    BY <1>3, SameTree DEF Met!WriteJson, Met!tree
  <2>2. Met!TypeOK'
    BY <1>3 DEF Met!WriteJson, Met!TypeOK, Met!tree
  <2> QED
    BY <1>3, <2>1, <2>2 DEF Met!WriteJson
<1>4. CASE Met!WriteReport
  <2>1. Met!Metrics' = Met!Metrics
    BY <1>4, SameTree DEF Met!WriteReport, Met!tree
  <2>2. Met!TypeOK'
    BY <1>4 DEF Met!WriteReport, Met!TypeOK, Met!tree, Met!Exit
  <2> QED
    BY <1>4, <2>1, <2>2 DEF Met!WriteReport, Met!Exit
<1>5. CASE Met!Kill
  <2>1. Met!TypeOK'
    BY <1>5 DEF Met!Kill, Met!TypeOK, Met!tree, Met!Exit
  <2> QED
    BY <1>5, <2>1 DEF Met!Kill, Met!Exit
<1>6. CASE UNCHANGED meVars
  <2>1. Met!Metrics' = Met!Metrics /\ Met!Of("benign")' = Met!Of("benign")
    BY <1>6, SameTree DEF meVars
  <2>2. Met!TypeOK'
    BY <1>6 DEF meVars, Met!TypeOK
  <2> QED
    BY <1>6, <2>1, <2>2 DEF meVars
<1> QED
  BY <1>1, <1>2, <1>3, <1>4, <1>5, <1>6 DEF Met!Next

-----------------------------------------------------------------------------
(* The collector.                                                          *)

LEMMA InputFacts ==
    ASSUME NEW in \in TelInputs
    PROVE  /\ in.sensor \in Tel!Sensors /\ in.matched \in BOOLEAN /\ in.records \in Seq(Tel!Records)
           /\ \A r \in Tel!Records: r.sides \subseteq Tel!Sides /\ r.valid \in BOOLEAN
<1>1. in.records \in Seq(Tel!ToSet(in.records))
  BY TelemetryHolds DEF Tel!TelemetryAssumption
<1>2. Tel!ToSet(in.records) \subseteq Tel!Records
  BY DEF Tel!Records
<1>3. in.records \in Seq(Tel!Records)
  BY <1>1, <1>2
<1> QED
  BY <1>3, TelemetryHolds DEF Tel!TelemetryAssumption

LEMMA EventType ==
    ASSUME NEW in \in TelInputs, NEW r \in Tel!Records, NEW d \in SUBSET Tel!Sides,
           NEW p, NEW s, <<p, s>> \in Tel!Keys
    PROVE  Tel!Event(p, s, r, d) \in Tel!Lines
BY InputFacts DEF Tel!Event, Tel!Lines

(* A record becomes lines of the store.                                    *)
LEMMA ConvertedType ==
    ASSUME NEW in \in TelInputs, NEW r \in Tel!Records
    PROVE  Tel!Converted(in.sensor, r) \in Seq(Tel!Lines)
<1>1. /\ <<"ot_ndr", "modbus">> \in Tel!Keys /\ <<"ot_ndr", "dnp3">> \in Tel!Keys
      /\ <<"ot_flow", "flow">> \in Tel!Keys /\ <<"ot_snmp", "snmp">> \in Tel!Keys
  BY DEF Tel!Keys
<1>2. \A d \in SUBSET Tel!Sides:
        /\ Tel!Event("ot_ndr", "modbus", r, d) \in Tel!Lines /\ Tel!Event("ot_ndr", "dnp3", r, d) \in Tel!Lines
        /\ Tel!Event("ot_flow", "flow", r, d) \in Tel!Lines /\ Tel!Event("ot_snmp", "snmp", r, d) \in Tel!Lines
  BY <1>1, EventType
<1>3. /\ {"request"} \in SUBSET Tel!Sides /\ {"response"} \in SUBSET Tel!Sides /\ {} \in SUBSET Tel!Sides
      /\ r.sides \in SUBSET Tel!Sides
  BY InputFacts DEF Tel!Sides
<1> HIDE DEF Tel!Event
<1>4. Tel!SuricataModbus(r) \in Seq(Tel!Lines)
  BY <1>2, <1>3 DEF Tel!SuricataModbus
<1>5. Tel!Suricata(r) \in Seq(Tel!Lines)
  BY <1>2, <1>3, <1>4 DEF Tel!Suricata
<1>6. Tel!ZeekModbus(r) \in Seq(Tel!Lines)
  BY <1>2, <1>3 DEF Tel!ZeekModbus
<1>7. Tel!ZeekDnp3(r) \in Seq(Tel!Lines)
  BY <1>2, <1>3 DEF Tel!ZeekDnp3
<1>8. Tel!Zeek(r) \in Seq(Tel!Lines)
  BY <1>2, <1>3, <1>6, <1>7 DEF Tel!Zeek
<1>9. in.sensor \in Tel!Sensors
  BY InputFacts
<1> QED
  BY <1>2, <1>3, <1>5, <1>8, <1>9 DEF Tel!Converted, Tel!Sensors

LEMMA PartsType ==
    ASSUME NEW in \in TelInputs, NEW n \in 0..Len(in.records)
    PROVE  Parts(in, n) \in Seq(Seq(Tel!Lines)) /\ Len(Parts(in, n)) = n
<1>1. in.records \in Seq(Tel!Records)
  BY InputFacts
<1>2. \A i \in 1..n: in.records[i] \in Tel!Records
  BY <1>1
<1>3. \A i \in 1..n: Tel!Converted(in.sensor, in.records[i]) \in Seq(Tel!Lines)
  BY <1>2, ConvertedType
<1> QED
  BY <1>1, <1>3 DEF Parts

LEMMA MeantFacts ==
    ASSUME NEW in \in TelInputs
    PROVE  Tel!Meant(in) = Tel!FlattenSeq(Parts(in, Len(in.records))) /\ Tel!Meant(in) \in Seq(Tel!Lines)
<1>1. in.records \in Seq(Tel!Records)
  BY InputFacts
<1>2. DOMAIN in.records = 1..Len(in.records) /\ Len(in.records) \in Nat
  BY <1>1
<1>3. [i \in DOMAIN in.records |-> Tel!Converted(in.sensor, in.records[i])] = Parts(in, Len(in.records))
  BY Zenon, <1>2 DEF Parts
<1>4. Tel!Meant(in) = Tel!FlattenSeq(Parts(in, Len(in.records)))
  BY Zenon, <1>3 DEF Tel!Meant
<1>5. Parts(in, Len(in.records)) \in Seq(Seq(Tel!Lines))
  BY <1>2, PartsType
<1> QED
  BY <1>4, <1>5, FlattenType

(* One more record.                                                        *)
LEMMA PartsMore ==
    ASSUME NEW in \in TelInputs, NEW n \in 0..(Len(in.records) - 1)
    PROVE  Tel!FlattenSeq(Parts(in, n + 1))
             = Tel!FlattenSeq(Parts(in, n)) \o Tel!Converted(in.sensor, in.records[n + 1])
<1>1. in.records \in Seq(Tel!Records)
  BY InputFacts
<1>2. n \in 0..Len(in.records) /\ n + 1 \in 0..Len(in.records) /\ n \in Nat
  BY <1>1
<1>3. /\ Parts(in, n) \in Seq(Seq(Tel!Lines)) /\ Len(Parts(in, n)) = n
      /\ Parts(in, n + 1) \in Seq(Seq(Tel!Lines)) /\ Len(Parts(in, n + 1)) = n + 1
  BY <1>2, PartsType
<1>4. \A i \in 1..n: Parts(in, n + 1)[i] = Parts(in, n)[i]
  BY <1>2 DEF Parts
<1>5. Parts(in, n + 1)[n + 1] = Tel!Converted(in.sensor, in.records[n + 1])
  BY <1>2 DEF Parts
<1>6. Tel!FlattenSeq(Parts(in, n + 1))
        = Tel!FlattenSeq(Parts(in, n)) \o Parts(in, n + 1)[Len(Parts(in, n + 1))]
  BY <1>3, <1>4, FlattenMore
<1> QED
  BY <1>3, <1>5, <1>6

(* Each stream takes the lines of its own product and service.             *)
LEMMA StreamsType ==
    ASSUME NEW es \in Seq(Tel!Lines), NEW k \in Tel!Keys
    PROVE  Tel!Streams(es)[k] \in Seq({e \in Tel!Lines: e.key = k})
<1> DEFINE E == {e \in Tel!Lines: e.key = k}
           own == [i \in DOMAIN es |-> IF es[i].key = k THEN <<es[i]>> ELSE <<>>]
<1>1. own \in Seq(Seq(E))
  <2>1. DOMAIN es = 1..Len(es) /\ Len(es) \in Nat /\ \A i \in 1..Len(es): es[i] \in Tel!Lines
    OBVIOUS
  <2>2. ASSUME NEW i \in 1..Len(es) PROVE (IF es[i].key = k THEN <<es[i]>> ELSE <<>>) \in Seq(E)
    <3>1. CASE es[i].key = k
      <4>1. es[i] \in E
        BY <2>1, <3>1
      <4> HIDE DEF E
      <4> QED
        BY <3>1, <4>1
    <3>2. CASE es[i].key # k
      BY <3>2
    <3> QED
      BY <3>1, <3>2
  <2>3. own \in [1..Len(es) -> Seq(E)]
    <3> HIDE DEF E
    <3> QED
      BY <2>1, <2>2
  <2> HIDE DEF own, E
  <2> QED
    BY <2>1, <2>3
<1>2. Tel!FlattenSeq(own) \in Seq(E)
  <2> HIDE DEF own, E
  <2> QED
    BY <1>1, FlattenType
<1>3. Tel!Streams(es)[k] = Tel!FlattenSeq(own)
  BY Zenon DEF Tel!Streams
<1> QED
  BY <1>2, <1>3

LEMMA AppendedIsSuffix ==
    ASSUME NEW E, NEW s \in Seq(E), NEW u \in Seq(E)
    PROVE  Tel!IsSuffix(s, u \o s)
<1>1. u \o s \in Seq(E) /\ Len(u \o s) = Len(u) + Len(s)
  OBVIOUS
<1>2. \A i \in 1..Len(s): Tel!Reverse(u \o s)[i] = Tel!Reverse(s)[i]
  BY DEF Tel!Reverse
<1>3. Tel!Reverse(u \o s) \in Seq(E) /\ Len(Tel!Reverse(u \o s)) = Len(u) + Len(s)
  BY <1>1 DEF Tel!Reverse
<1>4. Tel!Reverse(s) \in Seq(E) /\ Len(Tel!Reverse(s)) = Len(s)
  BY DEF Tel!Reverse
<1> QED
  BY <1>2, <1>3, <1>4 DEF Tel!IsSuffix, Tel!IsPrefix

LEMMA TelInit == Tel!Init => TelInv
BY TelemetryHolds DEF Tel!Init, TelInv, TelRead, Tel!TypeOK, Tel!ExitTells, Tel!TelemetryAssumption

LEMMA TelNext == TelInv /\ [Tel!Next]_telVars => TelInv'
<1> SUFFICES ASSUME TelInv, [Tel!Next]_telVars PROVE TelInv'
  OBVIOUS
<1> USE DEF TelInv
<1>0. MaxRuns \in Nat
  BY TelemetryHolds DEF Tel!TelemetryAssumption
<1>1. ASSUME NEW in \in TelInputs, Tel!Start(in) PROVE TelInv'
  <2>1. in.records \in Seq(Tel!Records)
    BY InputFacts
  <2>2. 0 \in 0..Len(in.records)
    BY <2>1
  <2>3. Tel!FlattenSeq(Parts(in, 0)) = <<>>
    <3>1. Parts(in, 0) = <<>> /\ Parts(in, 0) \in Seq(Seq(Tel!Lines))
      BY <2>2, PartsType
    <3> QED
      BY Zenon, <3>1, FlattenFacts
  <2>4. telAt = 0 /\ events = <<>> /\ errors = {}
    BY <1>1 DEF Tel!Start, TelRead
  <2>5. telAt' = 0 /\ events' = <<>> /\ errors' = {} /\ telInput' = in /\ loki' = loki /\ printed' = <<>>
    BY <1>1, <2>4 DEF Tel!Start, Tel!Exit
  <2>6. (telPc' = "idle" /\ telResult' = "raised") \/ (telPc' = "read" /\ telResult' = "none")
    BY <1>1 DEF Tel!Start, Tel!Exit
  <2>7. telRuns' \in 0..MaxRuns
    BY <1>0, <1>1 DEF Tel!Start, Tel!TypeOK
  <2>8. Tel!TypeOK'
    BY <2>2, <2>5, <2>6, <2>7 DEF Tel!TypeOK
  <2>9. TelRead'
    BY <2>3, <2>5, <2>6 DEF TelRead, Tel!ExitTells
  <2> QED
    BY <2>8, <2>9
<1>2. CASE Tel!Read
  <2>1. telInput \in TelInputs /\ telPc = "read" /\ events = Tel!FlattenSeq(Parts(telInput, telAt))
    BY <1>2 DEF Tel!Read, TelRead
  <2>2. telInput.records \in Seq(Tel!Records)
    BY <2>1, InputFacts
  <2>3. CASE Tel!Unreadable(telInput.sensor, telInput.records[telAt + 1])
    <3>1. /\ telPc' = "idle" /\ telResult' = "raised" /\ telAt' = 0 /\ events' = <<>> /\ errors' = {}
          /\ UNCHANGED <<telRuns, telInput, loki, printed>>
      BY <1>2, <2>3 DEF Tel!Read, Tel!Exit
    <3> QED
      BY <2>1, <2>2, <3>1 DEF Tel!TypeOK, TelRead, Tel!ExitTells
  <2>4. CASE ~Tel!Unreadable(telInput.sensor, telInput.records[telAt + 1])
    <3>1. /\ events' = events \o Tel!Converted(telInput.sensor, telInput.records[telAt + 1])
          /\ telAt' = telAt + 1 /\ telAt < Len(telInput.records)
          /\ UNCHANGED <<telPc, errors, telResult, telRuns, telInput, loki, printed>>
      BY <1>2, <2>4 DEF Tel!Read
    <3>2. telAt \in 0..(Len(telInput.records) - 1)
      BY <2>2, <3>1 DEF Tel!TypeOK
    <3>3. events' = Tel!FlattenSeq(Parts(telInput, telAt + 1))
      BY <2>1, <3>1, <3>2, PartsMore
    <3>4. Tel!Converted(telInput.sensor, telInput.records[telAt + 1]) \in Seq(Tel!Lines)
      BY <2>1, <2>2, <3>2, ConvertedType
    <3>5. events' \in Seq(Tel!Lines) /\ DOMAIN events \subseteq DOMAIN events'
      BY <3>1, <3>4 DEF Tel!TypeOK
    <3>6. Tel!TypeOK'
      BY <2>2, <3>1, <3>2, <3>5 DEF Tel!TypeOK
    <3>7. TelRead'
      BY <2>1, <3>1, <3>3 DEF TelRead, Tel!ExitTells
    <3> QED
      BY <3>6, <3>7
  <2> QED
    BY <2>3, <2>4
<1>3. CASE Tel!Validate
  <2>1. telInput \in TelInputs /\ telPc = "read" /\ events = Tel!FlattenSeq(Parts(telInput, telAt))
    BY <1>3 DEF Tel!Validate, TelRead
  <2>2. events = Tel!Meant(telInput)
    BY <1>3, <2>1, MeantFacts DEF Tel!Validate
  <2>3. Tel!TypeOK'
    BY <1>3 DEF Tel!Validate, Tel!TypeOK
  <2>4. TelRead'
    BY <1>3, <2>1, <2>2 DEF Tel!Validate, TelRead, Tel!ExitTells
  <2> QED
    BY <2>3, <2>4
<1>4. CASE Tel!Emit
  <2>1. Tel!TypeOK'
    BY <1>4 DEF Tel!Emit, Tel!TypeOK
  <2>2. TelRead'
    BY <1>4 DEF Tel!Emit, TelRead, Tel!ExitTells
  <2> QED
    BY <2>1, <2>2
<1>5. CASE Tel!Push
  <2>1. telInput \in TelInputs /\ telPc = "sink" /\ events = Tel!Meant(telInput)
    BY <1>5 DEF Tel!Push, TelRead
  <2>2. \A k \in Tel!Keys: /\ Tel!Streams(events)[k] \in Seq(Tel!Lines)
                           /\ \A i \in DOMAIN Tel!Streams(events)[k]: Tel!Streams(events)[k][i].key = k
    <3>1. \A k \in Tel!Keys: Tel!Streams(events)[k] \in Seq({e \in Tel!Lines: e.key = k})
      BY StreamsType DEF Tel!TypeOK
    <3>2. ASSUME NEW k \in Tel!Keys, NEW s \in Seq({e \in Tel!Lines: e.key = k})
          PROVE  s \in Seq(Tel!Lines) /\ \A i \in DOMAIN s: s[i].key = k
      <4>1. \A i \in 1..Len(s): s[i] \in Tel!Lines /\ s[i].key = k
        OBVIOUS
      <4> QED
        BY <4>1
    <3> QED
      BY <3>1, <3>2
  <2>3. PICK stored, answered \in BOOLEAN:
            /\ answered => stored
            /\ loki' = IF stored THEN [k \in Tel!Keys |-> loki[k] \o Tel!Streams(events)[k]] ELSE loki
            /\ IF answered THEN telPc' = "report" /\ UNCHANGED <<telAt, events, errors, telResult>>
               ELSE Tel!Exit("raised")
    BY <1>5 DEF Tel!Push
  <2>4. UNCHANGED <<telRuns, telInput, printed>>
    BY <1>5 DEF Tel!Push
  <2>5. loki' \in [Tel!Keys -> Seq(Tel!Lines)] /\ \A k \in Tel!Keys: \A i \in DOMAIN loki'[k]: loki'[k][i].key = k
    <3>1. CASE ~stored
      BY <2>3, <3>1 DEF Tel!TypeOK
    <3>2. CASE stored
      <4>1. loki' = [k \in Tel!Keys |-> loki[k] \o Tel!Streams(events)[k]]
        BY <2>3, <3>2
      <4>2. ASSUME NEW k \in Tel!Keys
            PROVE  loki'[k] \in Seq(Tel!Lines) /\ \A i \in DOMAIN loki'[k]: loki'[k][i].key = k
        <5> DEFINE s == Tel!Streams(events)[k]
                   l == loki[k]
        <5>1. loki'[k] = l \o s
          BY <4>1
        <5>2. s \in Seq(Tel!Lines) /\ \A i \in DOMAIN s: s[i].key = k
          BY <2>2
        <5>3. l \in Seq(Tel!Lines) /\ \A i \in DOMAIN l: l[i].key = k
          BY DEF Tel!TypeOK
        <5> HIDE DEF s, l
        <5>4. l \o s \in Seq(Tel!Lines) /\ \A i \in DOMAIN (l \o s): (l \o s)[i].key = k
          BY <5>2, <5>3
        <5> QED
          BY <5>1, <5>4
      <4> QED
        BY <4>1, <4>2
    <3> QED
      BY <3>1, <3>2
  <2>6. CASE answered
    <3>1. \A k \in Tel!Keys: Tel!IsSuffix(Tel!Streams(events)[k], loki'[k])
      <4>1. \A k \in Tel!Keys: loki'[k] = loki[k] \o Tel!Streams(events)[k]
        BY <2>3, <2>6
      <4>2. \A k \in Tel!Keys: loki[k] \in Seq(Tel!Lines)
        BY DEF Tel!TypeOK
      <4> QED
        BY <2>2, <4>1, <4>2, AppendedIsSuffix
    <3>2. telPc' = "report" /\ UNCHANGED <<telAt, events, errors, telResult>>
      BY <2>3, <2>6
    <3>3. Tel!TypeOK'
      BY <2>4, <2>5, <3>2 DEF Tel!TypeOK
    <3>4. TelRead'
      BY <2>1, <2>4, <3>1, <3>2 DEF TelRead, Tel!ExitTells
    <3> QED
      BY <3>3, <3>4
  <2>7. CASE ~answered
    <3>1. telPc' = "idle" /\ telResult' = "raised" /\ telAt' = 0 /\ events' = <<>> /\ errors' = {}
      BY <2>3, <2>7 DEF Tel!Exit
    <3>2. Len(telInput.records) \in Nat
      BY <2>1, InputFacts
    <3>3. Tel!TypeOK'
      BY <2>4, <2>5, <3>1, <3>2 DEF Tel!TypeOK
    <3>4. TelRead'
      BY <2>1, <2>4, <3>1 DEF TelRead, Tel!ExitTells
    <3> QED
      BY <3>3, <3>4
  <2> QED
    BY <2>6, <2>7
<1>6. CASE Tel!Report
  <2>1. telInput \in TelInputs /\ telPc = "report" /\ events = Tel!Meant(telInput)
        /\ errors = {i \in DOMAIN events: ~events[i].valid}
    BY <1>6 DEF Tel!Report, TelRead
  <2>2. /\ telPc' = "idle" /\ telResult' = (IF errors = {} THEN "ok" ELSE "errors")
        /\ telAt' = 0 /\ events' = <<>> /\ errors' = {} /\ UNCHANGED <<telRuns, telInput, loki, printed>>
    BY <1>6 DEF Tel!Report, Tel!Exit
  <2>3. Len(telInput.records) \in Nat
    BY <2>1, InputFacts
  <2>4. errors = {} <=> \A i \in DOMAIN events: events[i].valid
    BY <2>1
  <2>5. Tel!TypeOK'
    BY <2>2, <2>3 DEF Tel!TypeOK
  <2>6. Tel!ExitTells'
    <3>1. (telResult' = "ok") = \A i \in DOMAIN Tel!Meant(telInput): Tel!Meant(telInput)[i].valid
      BY <2>1, <2>2, <2>4
    <3>2. \/ printed = Tel!Meant(telInput)
          \/ \A k \in Tel!Keys: Tel!IsSuffix(Tel!Streams(Tel!Meant(telInput))[k], loki[k])
      BY <2>1 DEF TelRead
    <3> QED
      BY <2>2, <3>1, <3>2 DEF Tel!ExitTells
  <2>7. TelRead'
    BY <2>1, <2>2, <2>6 DEF TelRead
  <2> QED
    BY <2>5, <2>7
<1>7. CASE Tel!Kill
  <2>1. /\ telPc # "idle" /\ telPc' = "idle" /\ telResult' = "killed"
        /\ telAt' = 0 /\ events' = <<>> /\ errors' = {} /\ UNCHANGED <<telRuns, telInput, loki, printed>>
    BY <1>7 DEF Tel!Kill, Tel!Exit
  <2>2. telInput \in TelInputs /\ Len(telInput.records) \in Nat
    BY <2>1, InputFacts DEF TelRead
  <2> QED
    BY <2>1, <2>2 DEF Tel!TypeOK, TelRead, Tel!ExitTells
<1>8. CASE UNCHANGED telVars
  BY <1>8 DEF telVars, Tel!TypeOK, TelRead, Tel!ExitTells
<1> QED
  BY <1>1, <1>2, <1>3, <1>4, <1>5, <1>6, <1>7, <1>8 DEF Tel!Next

(* The whole of an input, or nothing of it.                                *)
LEMMA WholeNext ==
    TelInv /\ [Tel!Next]_telVars =>
        [loki' # loki => \A k \in Tel!Keys:
            loki'[k] = loki[k] \o Tel!Streams(Tel!Meant(telInput))[k]]_(Tel!vars)
<1> SUFFICES ASSUME TelInv, [Tel!Next]_telVars, loki' # loki, NEW k \in Tel!Keys
             PROVE  loki'[k] = loki[k] \o Tel!Streams(Tel!Meant(telInput))[k]
  OBVIOUS
<1>1. Tel!Push
  BY DEF Tel!Next, Tel!Start, Tel!Read, Tel!Validate, Tel!Emit, Tel!Report, Tel!Kill, telVars
<1>2. events = Tel!Meant(telInput)
  BY <1>1 DEF TelInv, TelRead, Tel!Push
<1>3. loki' = [l \in Tel!Keys |-> loki[l] \o Tel!Streams(events)[l]]
  BY <1>1 DEF Tel!Push
<1> QED
  BY <1>2, <1>3

-----------------------------------------------------------------------------
(* The Sigma matcher.                                                      *)

Outcomes == {"true", "false", "raises"}

LEMMA NodeFacts ==
    ASSUME NEW r, Mat!WellFormed(r)
    PROVE  /\ Len(r.nodes) \in Nat /\ DOMAIN r.nodes = 1..Len(r.nodes)
           /\ r.conditions \in Seq(DOMAIN r.nodes)
           /\ \A n \in DOMAIN r.nodes: /\ r.nodes[n].args \in Seq(1..(n - 1))
                                       /\ r.nodes[n].op \in Mat!Inner => r.nodes[n].args # <<>>
BY DEF Mat!WellFormed

(* Lazy evaluation: all results are neutral, or the first that is not      *)
(* decides.                                                                *)
LEMMA LazilyFacts ==
    ASSUME NEW n \in Nat, NEW results, DOMAIN results = 1..n, NEW neutral
    PROVE  \/ Mat!Lazily(results, neutral) = neutral /\ \A i \in 1..n: results[i] = neutral
           \/ \E i \in 1..n: /\ results[i] # neutral /\ Mat!Lazily(results, neutral) = results[i]
                             /\ \A j \in 1..(i - 1): results[j] = neutral
<1> DEFINE deciding == {i \in DOMAIN results: results[i] # neutral}
           first == CHOOSE i \in deciding: \A j \in deciding: i <= j
<1>1. CASE deciding = {}
  <2>1. Mat!Lazily(results, neutral) = neutral
    BY Zenon, <1>1 DEF Mat!Lazily
  <2> QED
    BY <1>1, <2>1
<1>2. CASE deciding # {}
  <2>1. first \in deciding /\ \A j \in deciding: first <= j
    <3>1. deciding \in SUBSET Nat
      OBVIOUS
    <3>2. Con!First(deciding) \in deciding /\ \A j \in deciding: Con!First(deciding) <= j
      <4> HIDE DEF deciding
      <4> QED
        BY <1>2, <3>1, FirstFacts
    <3> HIDE DEF deciding
    <3> QED
      BY Zenon, <3>2
  <2>2. Mat!Lazily(results, neutral) = results[first]
    BY Zenon, <1>2 DEF Mat!Lazily
  <2> HIDE DEF first
  <2>3. first \in 1..n /\ results[first] # neutral
    BY <2>1
  <2>4. \A j \in 1..(first - 1): results[j] = neutral
    BY <2>1, <2>3
  <2> QED
    BY <2>2, <2>3, <2>4
<1> QED
  BY <1>1, <1>2

(* A node is worth what its arguments make of it, and nothing else.        *)
Resulting(node, f) == [i \in DOMAIN node.args |-> f[node.args[i]]]

LEMMA OutcomeSame ==
    ASSUME NEW node, NEW e, NEW N \in Nat, node.args \in Seq(1..N), NEW f, NEW g, Agree(f, g, N)
    PROVE  Mat!Outcome(node, f, e) = Mat!Outcome(node, g, e)
<1>1. \A i \in DOMAIN node.args: node.args[i] \in 1..N
  OBVIOUS
<1>2. [i \in DOMAIN node.args |-> f[node.args[i]]] = [i \in DOMAIN node.args |-> g[node.args[i]]]
  BY <1>1 DEF Agree
<1> QED
  BY Zenon, <1>2 DEF Mat!Outcome

LEMMA LeafOutcome ==
    ASSUME NEW node, NEW e
    PROVE  Mat!Field(node, e) \in Outcomes /\ Mat!Keyword(node.value, e) \in Outcomes
<1>1. \A b: Mat!Truth(b) \in Outcomes
  BY DEF Mat!Truth, Outcomes
<1>2. Mat!Field(node, e) \in Outcomes
  BY <1>1 DEF Mat!Field, Outcomes
<1>3. Mat!Keyword(node.value, e) \in Outcomes
  BY <1>1 DEF Mat!Keyword, Outcomes
<1> QED
  BY <1>2, <1>3

LEMMA OutcomeType ==
    ASSUME NEW node, NEW e, NEW N \in Nat, node.args \in Seq(1..N),
           node.op \in Mat!Inner => node.args # <<>>,
           NEW f, \A m \in 1..N: f[m] \in Outcomes
    PROVE  Mat!Outcome(node, f, e) \in Outcomes
<1> DEFINE results == Resulting(node, f)
<1>1. /\ Len(node.args) \in Nat /\ DOMAIN results = 1..Len(node.args)
      /\ \A i \in 1..Len(node.args): node.args[i] \in 1..N /\ results[i] = f[node.args[i]]
  BY DEF Resulting
<1>2. \A i \in 1..Len(node.args): results[i] \in Outcomes
  BY <1>1
<1>3. Mat!Outcome(node, f, e) =
        CASE node.op = "and" -> Mat!Lazily(results, "true")
          [] node.op = "or" -> Mat!Lazily(results, "false")
          [] node.op = "not" -> Mat!Negate(results[1])
          [] node.op = "field" -> Mat!Field(node, e)
          [] node.op = "keyword" -> Mat!Keyword(node.value, e)
          [] node.op = "nothing" -> "false"
          [] OTHER -> "raises"
  BY Zenon DEF Mat!Outcome, Resulting
<1> HIDE DEF results
<1>4. ASSUME NEW neutral \in Outcomes PROVE Mat!Lazily(results, neutral) \in Outcomes
  <2>1. \/ Mat!Lazily(results, neutral) = neutral
        \/ \E i \in 1..Len(node.args): Mat!Lazily(results, neutral) = results[i]
    BY <1>1, LazilyFacts
  <2> QED
    BY <1>2, <2>1
<1>5. node.op = "not" => Mat!Negate(results[1]) \in Outcomes
  BY DEF Mat!Negate, Outcomes
<1> QED
  BY <1>3, <1>4, <1>5, LeafOutcome DEF Outcomes

(* Eval is what its definition says, node by node.                         *)
Evaluates(f, n, r, e) == \A m \in 1..n: f[m] = Mat!Outcome(r.nodes[m], f, e)

LEMMA EvaluatesExists ==
    ASSUME NEW r, Mat!WellFormed(r), NEW e
    PROVE  \E f \in [DOMAIN r.nodes -> Outcomes]: Evaluates(f, Len(r.nodes), r, e)
<1> DEFINE Done == {n \in Nat: \E f \in [1..n -> Outcomes]: Evaluates(f, n, r, e)}
<1>1. 0 \in Done
  <2>1. [m \in 1..0 |-> "true"] \in [1..0 -> Outcomes]
    OBVIOUS
  <2>2. Evaluates([m \in 1..0 |-> "true"], 0, r, e)
    BY DEF Evaluates
  <2> QED
    BY <2>1, <2>2
<1>2. ASSUME NEW n \in 0..(Len(r.nodes) - 1), n \in Done PROVE n + 1 \in Done
  <2>1. PICK f \in [1..n -> Outcomes]: Evaluates(f, n, r, e)
    BY <1>2
  <2>2. n \in Nat /\ n + 1 \in DOMAIN r.nodes
    BY NodeFacts
  <2> DEFINE last == Mat!Outcome(r.nodes[n + 1], f, e)
             g == [m \in 1..(n + 1) |-> IF m <= n THEN f[m] ELSE last]
  <2>3. last \in Outcomes
    <3>1. r.nodes[n + 1].args \in Seq(1..n)
      BY <2>2, NodeFacts
    <3>2. r.nodes[n + 1].op \in Mat!Inner => r.nodes[n + 1].args # <<>>
      BY <2>2, NodeFacts
    <3>3. \A m \in 1..n: f[m] \in Outcomes
      BY <2>1
    <3> QED
      BY <2>2, <3>1, <3>2, <3>3, OutcomeType
  <2> HIDE DEF last
  <2>4. g \in [1..(n + 1) -> Outcomes]
    BY <2>1, <2>3
  <2>5. \A m \in 1..n: g[m] = f[m]
    BY <2>2
  <2>6. ASSUME NEW m \in 1..(n + 1) PROVE g[m] = Mat!Outcome(r.nodes[m], g, e)
    <3>1. m \in DOMAIN r.nodes /\ m - 1 \in Nat /\ m - 1 <= n
      BY <2>2, NodeFacts
    <3>2. r.nodes[m].args \in Seq(1..(m - 1))
      BY <3>1, NodeFacts
    <3>3. Agree(f, g, m - 1)
      BY <2>5, <3>1 DEF Agree
    <3> HIDE DEF g
    <3>4. Mat!Outcome(r.nodes[m], f, e) = Mat!Outcome(r.nodes[m], g, e)
      BY Zenon, <3>1, <3>2, <3>3, OutcomeSame
    <3>5. CASE m \in 1..n
      BY <2>1, <2>5, <3>4, <3>5 DEF Evaluates
    <3>6. CASE m = n + 1
      <4>1. g[n + 1] = last
        BY <2>2 DEF g
      <4> QED
        BY <3>4, <3>6, <4>1 DEF last
    <3> QED
      BY <2>2, <3>5, <3>6
  <2> HIDE DEF g
  <2>7. Evaluates(g, n + 1, r, e)
    BY <2>6 DEF Evaluates
  <2> QED
    BY <2>2, <2>4, <2>7
<1>3. Len(r.nodes) \in Nat /\ DOMAIN r.nodes = 1..Len(r.nodes)
  BY NodeFacts
<1>4. \A n \in 0..Len(r.nodes): n \in Done
  <2> HIDE DEF Done
  <2> QED
    BY <1>1, <1>2, <1>3, UpTo
<1> QED
  BY <1>3, <1>4

LEMMA EvalFacts ==
    ASSUME NEW r, Mat!WellFormed(r), NEW e
    PROVE  \A n \in DOMAIN r.nodes: /\ Mat!Eval(r, e)[n] \in Outcomes
                                    /\ Mat!Eval(r, e)[n] = Mat!Outcome(r.nodes[n], Mat!Eval(r, e), e)
<1> DEFINE f == CHOOSE f: f = [n \in DOMAIN r.nodes |-> Mat!Outcome(r.nodes[n], f, e)]
<1>1. PICK g \in [DOMAIN r.nodes -> Outcomes]: Evaluates(g, Len(r.nodes), r, e)
  BY EvaluatesExists
<1>2. DOMAIN r.nodes = 1..Len(r.nodes)
  BY NodeFacts
<1>3. g = [n \in DOMAIN r.nodes |-> Mat!Outcome(r.nodes[n], g, e)]
  BY <1>1, <1>2 DEF Evaluates
<1>4. f = [n \in DOMAIN r.nodes |-> Mat!Outcome(r.nodes[n], f, e)]
  BY Zenon, <1>3
<1>5. Mat!Eval(r, e) = f
  BY Zenon DEF Mat!Eval
<1> HIDE DEF f
<1>6. \A n \in DOMAIN r.nodes: f[n] = Mat!Outcome(r.nodes[n], f, e)
  BY <1>4
<1> DEFINE Typed == {n \in 0..Len(r.nodes): \A m \in 1..n: f[m] \in Outcomes}
<1>7. ASSUME NEW n \in 0..(Len(r.nodes) - 1), n \in Typed PROVE n + 1 \in Typed
  <2>1. n \in Nat /\ n + 1 \in DOMAIN r.nodes /\ n + 1 \in 0..Len(r.nodes)
    BY NodeFacts
  <2>2. r.nodes[n + 1].args \in Seq(1..n)
    BY <2>1, NodeFacts
  <2>3. r.nodes[n + 1].op \in Mat!Inner => r.nodes[n + 1].args # <<>>
    BY <2>1, NodeFacts
  <2>4. \A m \in 1..n: f[m] \in Outcomes
    BY <1>7
  <2>5. Mat!Outcome(r.nodes[n + 1], f, e) \in Outcomes
    BY <2>1, <2>2, <2>3, <2>4, OutcomeType
  <2>6. f[n + 1] \in Outcomes
    BY <1>6, <2>1, <2>5
  <2> QED
    BY <2>1, <2>4, <2>6
<1>8. Len(r.nodes) \in Nat /\ 0 \in Typed
  BY NodeFacts
<1>9. \A n \in 0..Len(r.nodes): n \in Typed
  <2> HIDE DEF Typed
  <2> QED
    BY <1>7, <1>8, UpTo
<1>10. \A n \in DOMAIN r.nodes: f[n] \in Outcomes
  BY <1>2, <1>8, <1>9
<1> QED
  BY <1>5, <1>6, <1>10

(* The same of what a node is worth.                                       *)
Behind(node, N) == node.args \in Seq(1..N) /\ (node.op \in Mat!Inner => node.args # <<>>)

LEMMA MeaningSame ==
    ASSUME NEW node, NEW e, NEW N \in Nat, Behind(node, N), NEW f, NEW g, Agree(f, g, N)
    PROVE  Mat!Meaning(node, f, e) = Mat!Meaning(node, g, e)
<1> USE DEF Behind
<1>1. \A m \in Mat!Range(node.args): m \in 1..N
  BY DEF Mat!Range
<1>2. {f[m]: m \in Mat!Range(node.args)} = {g[m]: m \in Mat!Range(node.args)}
  BY <1>1 DEF Agree
<1>3. CASE node.op = "not" /\ node.args # <<>>
  <2>1. f[node.args[1]] = g[node.args[1]]
    BY <1>3 DEF Agree
  <2> QED
    BY Zenon, <1>2, <2>1 DEF Mat!Meaning
<1>4. CASE node.op # "not"
  <2> DEFINE Rest(args) ==
        CASE node.op = "and" -> Mat!Conj(args)
          [] node.op = "or" -> Mat!Disj(args)
          [] node.op = "field" /\ Mat!Supported(node.value) -> {Mat!Field(node, e) = "true"}
          [] node.op = "keyword" /\ Mat!Keyword(node.value, e) # "raises" ->
                {Mat!Keyword(node.value, e) = "true"}
          [] node.op = "nothing" -> {FALSE}
          [] OTHER -> BOOLEAN
  <2>1. Mat!Meaning(node, f, e) = Rest({f[m]: m \in Mat!Range(node.args)})
    BY <1>4 DEF Mat!Meaning
  <2>2. Mat!Meaning(node, g, e) = Rest({g[m]: m \in Mat!Range(node.args)})
    BY <1>4 DEF Mat!Meaning
  <2> HIDE DEF Rest
  <2> QED
    BY <1>2, <2>1, <2>2
<1>5. node.op = "not" => node.args # <<>>
  BY DEF Mat!Inner
<1> QED
  BY <1>3, <1>4, <1>5

Means(f, n, r, e) == f = [m \in 1..n |-> Mat!Meaning(r.nodes[m], f, e)]

LEMMA WorthFacts ==
    ASSUME NEW r, Mat!WellFormed(r), NEW e
    PROVE  \A n \in DOMAIN r.nodes: Mat!Worth(r, e)[n] = Mat!Meaning(r.nodes[n], Mat!Worth(r, e), e)
<1> DEFINE Done == {n \in Nat: \E f: Means(f, n, r, e)}
           w == CHOOSE w: w = [n \in DOMAIN r.nodes |-> Mat!Meaning(r.nodes[n], w, e)]
<1>1. 0 \in Done
  <2>1. Means([m \in 1..0 |-> {}], 0, r, e)
    BY DEF Means
  <2> QED
    BY <2>1
<1>2. ASSUME NEW n \in 0..(Len(r.nodes) - 1), n \in Done PROVE n + 1 \in Done
  <2>1. PICK f: Means(f, n, r, e)
    BY <1>2
  <2>2. n \in Nat /\ n + 1 \in DOMAIN r.nodes
    BY NodeFacts
  <2> DEFINE last == Mat!Meaning(r.nodes[n + 1], f, e)
             g == [m \in 1..(n + 1) |-> IF m <= n THEN f[m] ELSE last]
  <2> HIDE DEF last
  <2>3. \A m \in 1..n: g[m] = f[m]
    BY <2>2
  <2>4. ASSUME NEW m \in 1..(n + 1) PROVE g[m] = Mat!Meaning(r.nodes[m], g, e)
    <3>1. m \in DOMAIN r.nodes /\ m - 1 \in Nat /\ m - 1 <= n
      BY <2>2, NodeFacts
    <3>2. Behind(r.nodes[m], m - 1)
      BY <3>1, NodeFacts DEF Behind
    <3>3. m - 1 \in Nat
      BY <3>1
    <3>4. Agree(f, g, m - 1)
      BY <2>3, <3>1 DEF Agree
    <3> HIDE DEF g, w, Done
    <3>5. Mat!Meaning(r.nodes[m], f, e) = Mat!Meaning(r.nodes[m], g, e)
      BY <3>2, <3>3, <3>4, MeaningSame
    <3>6. CASE m \in 1..n
      BY <2>1, <2>3, <3>5, <3>6 DEF Means
    <3>7. CASE m = n + 1
      <4>1. g[n + 1] = last
        BY <2>2 DEF g
      <4> QED
        BY <3>5, <3>7, <4>1 DEF last
    <3> QED
      BY <2>2, <3>6, <3>7
  <2>5. Means(g, n + 1, r, e)
    <3>1. g = [m \in 1..(n + 1) |-> g[m]]
      OBVIOUS
    <3> HIDE DEF g
    <3> QED
      BY <2>4, <3>1 DEF Means
  <2> HIDE DEF g
  <2> QED
    BY <2>2, <2>5
<1>3. Len(r.nodes) \in Nat /\ DOMAIN r.nodes = 1..Len(r.nodes)
  BY NodeFacts
<1>4. \A n \in 0..Len(r.nodes): n \in Done
  <2> HIDE DEF Done
  <2> QED
    BY <1>1, <1>2, <1>3, UpTo
<1>5. PICK f: Means(f, Len(r.nodes), r, e)
  BY <1>3, <1>4
<1>6. f = [n \in DOMAIN r.nodes |-> Mat!Meaning(r.nodes[n], f, e)]
  BY Zenon, <1>3, <1>5 DEF Means
<1>7. w = [n \in DOMAIN r.nodes |-> Mat!Meaning(r.nodes[n], w, e)]
  BY Zenon, <1>6
<1>8. Mat!Worth(r, e) = w
  BY Zenon DEF Mat!Worth
<1> HIDE DEF w
<1> QED
  BY <1>7, <1>8

-----------------------------------------------------------------------------
(* A verdict of the matcher rests on what it implements.                   *)

Sound(o, w) == (o = "true" => w = {TRUE}) /\ (o = "false" => w = {FALSE})

LEMMA ConjFacts ==
    ASSUME NEW ws
    PROVE  /\ (\A w \in ws: w = {TRUE}) => Mat!Conj(ws) = {TRUE}
           /\ {FALSE} \in ws => Mat!Conj(ws) = {FALSE}
           /\ (\A w \in ws: w = {FALSE}) => Mat!Disj(ws) = {FALSE}
           /\ {TRUE} \in ws => Mat!Disj(ws) = {TRUE}
<1>1. TRUE \in Mat!Conj(ws) <=> \A w \in ws: TRUE \in w
  BY Zenon DEF Mat!Conj
<1>2. FALSE \in Mat!Conj(ws) <=> \E w \in ws: FALSE \in w
  BY Zenon DEF Mat!Conj
<1>3. TRUE \in Mat!Disj(ws) <=> \E w \in ws: TRUE \in w
  BY Zenon DEF Mat!Disj
<1>4. FALSE \in Mat!Disj(ws) <=> \A w \in ws: FALSE \in w
  BY Zenon DEF Mat!Disj
<1>5. Mat!Conj(ws) \subseteq {TRUE, FALSE} /\ Mat!Disj(ws) \subseteq {TRUE, FALSE}
  BY Zenon DEF Mat!Conj, Mat!Disj
<1>6. \A S: S \subseteq {TRUE, FALSE} /\ TRUE \in S /\ FALSE \notin S => S = {TRUE}
  BY Zenon
<1>7. \A S: S \subseteq {TRUE, FALSE} /\ FALSE \in S /\ TRUE \notin S => S = {FALSE}
  BY Zenon
<1>8. ASSUME \A w \in ws: w = {TRUE} PROVE Mat!Conj(ws) = {TRUE}
  <2>1. \A w \in ws: TRUE \in w /\ FALSE \notin w
    BY Zenon, <1>8
  <2> QED
    BY Zenon, <1>1, <1>2, <1>5, <1>6, <2>1
<1>9. ASSUME {FALSE} \in ws PROVE Mat!Conj(ws) = {FALSE}
  <2>1. FALSE \in {FALSE} /\ TRUE \notin {FALSE}
    BY Zenon
  <2> QED
    BY Zenon, <1>1, <1>2, <1>5, <1>7, <1>9, <2>1
<1>10. ASSUME \A w \in ws: w = {FALSE} PROVE Mat!Disj(ws) = {FALSE}
  <2>1. \A w \in ws: FALSE \in w /\ TRUE \notin w
    BY Zenon, <1>10
  <2> QED
    BY Zenon, <1>3, <1>4, <1>5, <1>7, <2>1
<1>11. ASSUME {TRUE} \in ws PROVE Mat!Disj(ws) = {TRUE}
  <2>1. TRUE \in {TRUE} /\ FALSE \notin {TRUE}
    BY Zenon
  <2> QED
    BY Zenon, <1>3, <1>4, <1>5, <1>6, <1>11, <2>1
<1> QED
  BY <1>8, <1>9, <1>10, <1>11

Backed(f, w, N) == \A m \in 1..N: f[m] \in Outcomes /\ Sound(f[m], w[m])
Raised(f, N) == \E m \in 1..N: f[m] = "raises"

LEMMA NodeSound ==
    ASSUME NEW node, NEW e, NEW N \in Nat, node.args \in Seq(1..N),
           node.op \in Mat!Inner => node.args # <<>>,
           NEW f, NEW w, Backed(f, w, N)
    PROVE  /\ Sound(Mat!Outcome(node, f, e), Mat!Meaning(node, w, e))
           /\ Mat!Outcome(node, f, e) = "raises" =>
                node.op \notin Mat!Inner \/ Raised(f, N)
<1> DEFINE results == Resulting(node, f)
           ws == {w[m]: m \in Mat!Range(node.args)}
           len == Len(node.args)
           o == Mat!Outcome(node, f, e)
           v == Mat!Meaning(node, w, e)
           Claim == /\ Sound(o, v)
                    /\ o = "raises" => node.op \notin Mat!Inner \/ Raised(f, N)
<1> SUFFICES Claim
  OBVIOUS
<1>1. /\ len \in Nat /\ DOMAIN results = 1..len
      /\ \A i \in 1..len: node.args[i] \in 1..N /\ results[i] = f[node.args[i]]
  BY DEF Resulting
<1>2. \A x: x \in ws <=> \E i \in 1..len: x = w[node.args[i]]
  BY DEF Mat!Range
<1>3. \A i \in 1..len: results[i] \in Outcomes /\ Sound(results[i], w[node.args[i]])
  BY <1>1 DEF Backed
<1>4. o = CASE node.op = "and" -> Mat!Lazily(results, "true")
            [] node.op = "or" -> Mat!Lazily(results, "false")
            [] node.op = "not" -> Mat!Negate(results[1])
            [] node.op = "field" -> Mat!Field(node, e)
            [] node.op = "keyword" -> Mat!Keyword(node.value, e)
            [] node.op = "nothing" -> "false"
            [] OTHER -> "raises"
  BY Zenon DEF Mat!Outcome, Resulting
<1>5. v = CASE node.op = "and" -> Mat!Conj(ws)
            [] node.op = "or" -> Mat!Disj(ws)
            [] node.op = "not" -> {~b: b \in w[node.args[1]]}
            [] node.op = "field" /\ Mat!Supported(node.value) -> {Mat!Field(node, e) = "true"}
            [] node.op = "keyword" /\ Mat!Keyword(node.value, e) # "raises" ->
                  {Mat!Keyword(node.value, e) = "true"}
            [] node.op = "nothing" -> {FALSE}
            [] OTHER -> BOOLEAN
  BY Zenon DEF Mat!Meaning
<1> HIDE DEF results, ws, len, o, v
<1>6. CASE node.op = "and"
  <2>1. o = Mat!Lazily(results, "true") /\ v = Mat!Conj(ws)
    BY <1>4, <1>5, <1>6
  <2>2. CASE o = "true" /\ \A i \in 1..len: results[i] = "true"
    <3>1. \A i \in 1..len: w[node.args[i]] = {TRUE}
      BY <1>3, <2>2 DEF Sound
    <3>2. \A x \in ws: x = {TRUE}
      BY Zenon, <1>2, <3>1
    <3> QED
      BY <2>1, <2>2, <3>2, ConjFacts DEF Sound
  <2>3. ASSUME NEW i \in 1..len, results[i] # "true", o = results[i] PROVE Claim
    <3>1. o \in {"false", "raises"}
      BY <1>3, <2>3 DEF Outcomes
    <3>2. o = "false" => {FALSE} \in ws
      BY <1>2, <1>3, <2>3 DEF Sound
    <3>3. o = "raises" => Raised(f, N)
      BY <1>1, <2>3 DEF Raised
    <3> QED
      BY <2>1, <3>1, <3>2, <3>3, ConjFacts DEF Sound
  <2>4. \/ o = "true" /\ \A i \in 1..len: results[i] = "true"
        \/ \E i \in 1..len: results[i] # "true" /\ o = results[i]
    BY <1>1, <2>1, LazilyFacts
  <2> QED
    BY <2>2, <2>3, <2>4
<1>7. CASE node.op = "or"
  <2>1. o = Mat!Lazily(results, "false") /\ v = Mat!Disj(ws)
    BY <1>4, <1>5, <1>7
  <2>2. CASE o = "false" /\ \A i \in 1..len: results[i] = "false"
    <3>1. \A i \in 1..len: w[node.args[i]] = {FALSE}
      BY <1>3, <2>2 DEF Sound
    <3>2. \A x \in ws: x = {FALSE}
      BY Zenon, <1>2, <3>1
    <3> QED
      BY <2>1, <2>2, <3>2, ConjFacts DEF Sound
  <2>3. ASSUME NEW i \in 1..len, results[i] # "false", o = results[i] PROVE Claim
    <3>1. o \in {"true", "raises"}
      BY <1>3, <2>3 DEF Outcomes
    <3>2. o = "true" => {TRUE} \in ws
      BY <1>2, <1>3, <2>3 DEF Sound
    <3>3. o = "raises" => Raised(f, N)
      BY <1>1, <2>3 DEF Raised
    <3> QED
      BY <2>1, <3>1, <3>2, <3>3, ConjFacts DEF Sound
  <2>4. \/ o = "false" /\ \A i \in 1..len: results[i] = "false"
        \/ \E i \in 1..len: results[i] # "false" /\ o = results[i]
    BY <1>1, <2>1, LazilyFacts
  <2> QED
    BY <2>2, <2>3, <2>4
<1>8. CASE node.op = "not"
  <2>1. o = Mat!Negate(results[1]) /\ v = {~b: b \in w[node.args[1]]}
    BY <1>4, <1>5, <1>8
  <2>2. 1 \in 1..len
    BY <1>8 DEF len, Mat!Inner
  <2>3. {~b: b \in {TRUE}} = {FALSE} /\ {~b: b \in {FALSE}} = {TRUE}
    BY Zenon
  <2>4. results[1] \in Outcomes /\ Sound(results[1], w[node.args[1]])
    BY <1>3, <2>2
  <2>5. CASE results[1] = "true"
    <3>1. o = "false" /\ w[node.args[1]] = {TRUE}
      BY <2>1, <2>4, <2>5 DEF Mat!Negate, Sound
    <3> QED
      BY <2>1, <2>3, <3>1 DEF Sound
  <2>6. CASE results[1] = "false"
    <3>1. o = "true" /\ w[node.args[1]] = {FALSE}
      BY <2>1, <2>4, <2>6 DEF Mat!Negate, Sound
    <3> QED
      BY <2>1, <2>3, <3>1 DEF Sound
  <2>7. CASE results[1] = "raises"
    <3>1. o = "raises" /\ Raised(f, N)
      BY <1>1, <2>1, <2>2, <2>7 DEF Mat!Negate, Raised
    <3> QED
      BY <3>1 DEF Sound
  <2> QED
    BY <2>4, <2>5, <2>6, <2>7 DEF Outcomes
<1>9. CASE node.op \notin Mat!Inner
  <2>1. Sound(o, v)
    <3>1. CASE node.op = "field"
      <4>1. o = Mat!Field(node, e) /\ (Mat!Supported(node.value) => v = {o = "true"})
        BY <1>4, <1>5, <3>1
      <4>2. ~Mat!Supported(node.value) => o = "raises"
        BY <4>1 DEF Mat!Field
      <4> QED
        BY <4>1, <4>2 DEF Sound
    <3>2. CASE node.op = "keyword"
      <4>1. o = Mat!Keyword(node.value, e) /\ (o # "raises" => v = {o = "true"})
        BY <1>4, <1>5, <3>2
      <4> QED
        BY <4>1 DEF Sound
    <3>3. CASE node.op = "nothing"
      BY <1>4, <1>5, <3>3 DEF Sound
    <3>4. CASE node.op \notin {"field", "keyword", "nothing"}
      <4>1. o = "raises"
        BY <1>4, <1>9, <3>4 DEF Mat!Inner
      <4> QED
        BY <4>1 DEF Sound
    <3> QED
      BY <3>1, <3>2, <3>3, <3>4
  <2> QED
    BY <1>9, <2>1
<1> QED
  BY <1>6, <1>7, <1>8, <1>9 DEF Mat!Inner

(* Node by node, in the order of the rule.                                 *)
NodesSound(r, e, n) ==
    \A m \in 1..n:
        /\ Sound(Mat!Eval(r, e)[m], Mat!Worth(r, e)[m])
        /\ Mat!Eval(r, e)[m] = "raises" =>
             \E l \in DOMAIN r.nodes: r.nodes[l].op \notin Mat!Inner /\ Mat!Eval(r, e)[l] = "raises"

LEMMA EvalSound ==
    ASSUME NEW r, Mat!WellFormed(r), NEW e
    PROVE  NodesSound(r, e, Len(r.nodes))
<1> DEFINE S == {n \in 0..Len(r.nodes): NodesSound(r, e, n)}
           f == Mat!Eval(r, e)
           w == Mat!Worth(r, e)
<1>1. Len(r.nodes) \in Nat /\ DOMAIN r.nodes = 1..Len(r.nodes)
  BY NodeFacts
<1>2. 0 \in S
  BY <1>1 DEF NodesSound
<1>3. ASSUME NEW n \in 0..(Len(r.nodes) - 1), n \in S PROVE n + 1 \in S
  <2>1. n \in Nat /\ n + 1 \in DOMAIN r.nodes /\ n + 1 \in 0..Len(r.nodes)
        /\ \A m \in 1..n: m \in DOMAIN r.nodes
    BY <1>1
  <2>2. n \in Nat
    BY <2>1
  <2>10. r.nodes[n + 1].args \in Seq(1..n)
    BY <2>1, NodeFacts
  <2>11. r.nodes[n + 1].op \in Mat!Inner => r.nodes[n + 1].args # <<>>
    BY <2>1, NodeFacts
  <2>3. NodesSound(r, e, n)
    BY <1>3
  <2> HIDE DEF f, w
  <2>4. Backed(f, w, n)
    BY <2>1, <2>3, EvalFacts DEF NodesSound, Backed, f, w
  <2>5. /\ Sound(Mat!Outcome(r.nodes[n + 1], f, e), Mat!Meaning(r.nodes[n + 1], w, e))
        /\ Mat!Outcome(r.nodes[n + 1], f, e) = "raises" =>
             r.nodes[n + 1].op \notin Mat!Inner \/ Raised(f, n)
    BY Zenon, <2>2, <2>4, <2>10, <2>11, NodeSound
  <2>6. f[n + 1] = Mat!Outcome(r.nodes[n + 1], f, e) /\ w[n + 1] = Mat!Meaning(r.nodes[n + 1], w, e)
    BY <2>1, EvalFacts, WorthFacts DEF f, w
  <2>7. Sound(f[n + 1], w[n + 1])
    BY <2>5, <2>6
  <2>8. f[n + 1] = "raises" =>
            \E l \in DOMAIN r.nodes: r.nodes[l].op \notin Mat!Inner /\ f[l] = "raises"
    BY <2>1, <2>3, <2>5, <2>6 DEF NodesSound, Raised, f
  <2>9. NodesSound(r, e, n + 1)
    BY <2>1, <2>3, <2>7, <2>8 DEF NodesSound, f, w
  <2> QED
    BY <2>1, <2>9
<1> HIDE DEF S
<1>4. \A n \in 0..Len(r.nodes): n \in S
  BY <1>1, <1>2, <1>3, UpTo
<1> QED
  BY <1>1, <1>4 DEF S

LEMMA VerdictFacts ==
    ASSUME MatInv, program = "matcher"
    PROVE  Mat!SoundVerdict
<1> DEFINE f == Mat!Eval(matRule, matEvent)
           w == Mat!Worth(matRule, matEvent)
           results == [i \in DOMAIN matRule.conditions |-> f[matRule.conditions[i]]]
           worths == {w[n]: n \in Mat!Range(matRule.conditions)}
           len == Len(matRule.conditions)
<1>1. Mat!WellFormed(matRule) /\ verdict \in {"none", Mat!Verdict(matRule, matEvent)}
  BY DEF MatInv, Judged, Mat!TypeOK
<1>2. /\ Len(matRule.nodes) \in Nat /\ DOMAIN matRule.nodes = 1..Len(matRule.nodes)
      /\ matRule.conditions \in Seq(DOMAIN matRule.nodes)
  BY <1>1, NodeFacts
<1>3. len \in Nat /\ DOMAIN matRule.conditions = 1..len /\ DOMAIN results = 1..len
      /\ \A i \in 1..len: matRule.conditions[i] \in DOMAIN matRule.nodes /\ results[i] = f[matRule.conditions[i]]
  BY <1>2
<1>4. \A i \in 1..len:
        /\ results[i] \in Outcomes /\ Sound(results[i], w[matRule.conditions[i]])
        /\ results[i] = "raises" =>
             \E l \in DOMAIN matRule.nodes: matRule.nodes[l].op \notin Mat!Inner /\ f[l] = "raises"
  <2>1. \A m \in DOMAIN matRule.nodes: f[m] \in Outcomes
    BY <1>1, EvalFacts
  <2>2. NodesSound(matRule, matEvent, Len(matRule.nodes))
    BY <1>1, EvalSound
  <2>3. \A m \in DOMAIN matRule.nodes:
            /\ Sound(f[m], w[m])
            /\ f[m] = "raises" =>
                 \E l \in DOMAIN matRule.nodes: matRule.nodes[l].op \notin Mat!Inner /\ f[l] = "raises"
    BY <1>2, <2>2 DEF NodesSound
  <2> HIDE DEF f, w, results, len
  <2> QED
    BY <1>3, <2>1, <2>3
<1>5. \A x: x \in worths <=> \E i \in 1..len: x = w[matRule.conditions[i]]
  BY <1>3 DEF Mat!Range
<1>6. Mat!Verdict(matRule, matEvent) =
        CASE ~Mat!Routed(matRule, matEvent) -> "false"
          [] Mat!Routed(matRule, matEvent) /\ matRule.conditions = <<>> -> "raises"
          [] OTHER -> Mat!Lazily(results, "false")
  BY Zenon DEF Mat!Verdict
<1>7. Mat!SoundVerdict =
        CASE verdict = "true" -> Mat!Routed(matRule, matEvent) /\ \E x \in worths: x = {TRUE}
          [] verdict = "false" -> ~Mat!Routed(matRule, matEvent) \/ (worths # {} /\ \A x \in worths: x = {FALSE})
          [] verdict = "raises" ->
                worths = {} \/ \E n \in DOMAIN matRule.nodes:
                    matRule.nodes[n].op \notin Mat!Inner /\ f[n] = "raises"
          [] OTHER -> TRUE
  BY Zenon DEF Mat!SoundVerdict
<1> HIDE DEF f, w, results, worths, len
<1>8. CASE verdict = "none"
  BY <1>7, <1>8
<1>9. CASE verdict = Mat!Verdict(matRule, matEvent) /\ ~Mat!Routed(matRule, matEvent)
  <2>1. verdict = "false"
    BY <1>6, <1>9
  <2> QED
    BY <1>7, <1>9, <2>1
<1>10. CASE /\ verdict = Mat!Verdict(matRule, matEvent) /\ Mat!Routed(matRule, matEvent)
            /\ matRule.conditions = <<>>
  <2>1. verdict = "raises" /\ len = 0
    BY <1>6, <1>10 DEF len
  <2>2. worths = {}
    BY <1>5, <2>1
  <2> QED
    BY <1>7, <2>1, <2>2
<1>11. CASE /\ verdict = Mat!Verdict(matRule, matEvent) /\ Mat!Routed(matRule, matEvent)
            /\ matRule.conditions # <<>>
  <2>1. verdict = Mat!Lazily(results, "false")
    BY <1>6, <1>11
  <2>2. 1 \in 1..len
    BY <1>2, <1>11 DEF len
  <2>3. CASE verdict = "false" /\ \A i \in 1..len: results[i] = "false"
    <3>1. \A i \in 1..len: w[matRule.conditions[i]] = {FALSE}
      BY <1>4, <2>3 DEF Sound
    <3>2. (\A x \in worths: x = {FALSE}) /\ worths # {}
      BY Zenon, <1>5, <2>2, <3>1
    <3> QED
      BY <1>7, <2>3, <3>2
  <2>4. ASSUME NEW i \in 1..len, results[i] # "false", verdict = results[i] PROVE Mat!SoundVerdict
    <3>1. CASE verdict = "true"
      <4>1. {TRUE} \in worths
        BY <1>4, <1>5, <2>4, <3>1 DEF Sound
      <4> QED
        BY <1>7, <1>11, <3>1, <4>1
    <3>2. CASE verdict = "raises"
      <4>1. \E n \in DOMAIN matRule.nodes: matRule.nodes[n].op \notin Mat!Inner /\ f[n] = "raises"
        BY <1>4, <2>4, <3>2
      <4> QED
        BY <1>7, <3>2, <4>1
    <3> QED
      BY <1>4, <2>4, <3>1, <3>2 DEF Outcomes
  <2>5. \/ verdict = "false" /\ \A i \in 1..len: results[i] = "false"
        \/ \E i \in 1..len: results[i] # "false" /\ verdict = results[i]
    BY <1>3, <2>1, LazilyFacts
  <2> QED
    BY <2>3, <2>4, <2>5
<1> QED
  BY <1>1, <1>8, <1>9, <1>10, <1>11

(* A rule without a negation, null or exists: false does not fire on an    *)
(* event that shows none of its fields.                                    *)
Silent(node, e) == ~Mat!Shown(node, e) /\ ~Mat!AsksForAbsence(node) /\ node.op # "keyword"

LEMMA FieldQuiet ==
    ASSUME NEW node, NEW e, Silent(node, e), node.op = "field",
           node.value.kind \in Mat!Kinds,
           node.value.kind = "bool" => node.value.bool # None,
           node.value.kind = "number" => node.value.num # None
    PROVE  Mat!Field(node, e) # "true"
<1> DEFINE a == IF node.field \in DOMAIN e THEN e[node.field] ELSE None
           v == node.value
<1>1. a = None
  BY DEF Silent, Mat!Shown
<1>2. Mat!Field(node, e) = IF Mat!Supported(v) THEN Mat!Truth(Mat!ValueMatches(v, a)) ELSE "raises"
  BY Zenon DEF Mat!Field
<1>3. v.kind # "null" /\ ~(v.kind = "exists" /\ ~v.exists)
  BY DEF Silent, Mat!AsksForAbsence
<1>4. v.kind \in Mat!Kinds /\ (v.kind = "bool" => v.bool # None) /\ (v.kind = "number" => v.num # None)
  OBVIOUS
<1> HIDE DEF a, v
<1>5. ASSUME Mat!Supported(v) PROVE ~Mat!ValueMatches(v, None)
  <2>1. v.kind \in {"exists", "bool", "number", "compare", "cidr", "re", "string"}
    BY <1>3, <1>4, <1>5 DEF Mat!Kinds, Mat!Supported
  <2>2. CASE v.kind = "exists"
    <3>1. Mat!ValueMatches(v, None) = ((None # None) = v.exists)
      BY <2>2 DEF Mat!ValueMatches
    <3>2. v.exists
      BY <1>3, <2>2
    <3> QED
      BY <3>1, <3>2
  <2>3. CASE v.kind = "bool"
    <3>1. Mat!ValueMatches(v, None) = (Mat!CoerceBool(None) = v.bool)
      BY <2>3 DEF Mat!ValueMatches
    <3> QED
      BY <1>4, <2>3, <3>1 DEF Mat!CoerceBool
  <2>4. CASE v.kind = "number"
    <3>1. Mat!ValueMatches(v, None) = (Mat!CoerceNumber(None) = v.num)
      BY <2>4 DEF Mat!ValueMatches
    <3> QED
      BY <1>4, <2>4, <3>1 DEF Mat!CoerceNumber
  <2>5. CASE v.kind = "compare"
    <3>1. Mat!ValueMatches(v, None) = Mat!Compare(v, None)
      BY <2>5 DEF Mat!ValueMatches
    <3> QED
      BY <3>1 DEF Mat!Compare, Mat!CoerceNumber
  <2>6. CASE v.kind \in {"cidr", "re", "string"}
    BY <2>6 DEF Mat!ValueMatches
  <2> QED
    BY <2>1, <2>2, <2>3, <2>4, <2>5, <2>6
<1> QED
  BY <1>1, <1>2, <1>5 DEF Mat!Truth

LEMMA EvalQuiet ==
    ASSUME NEW r, Mat!WellFormed(r), NEW e, \A n \in DOMAIN r.nodes: Silent(r.nodes[n], e)
    PROVE  \A n \in DOMAIN r.nodes: Mat!Eval(r, e)[n] # "true"
<1> DEFINE S == {n \in 0..Len(r.nodes): \A m \in 1..n: Mat!Eval(r, e)[m] # "true"}
           f == Mat!Eval(r, e)
<1>1. Len(r.nodes) \in Nat /\ DOMAIN r.nodes = 1..Len(r.nodes)
  BY NodeFacts
<1>2. 0 \in S
  BY <1>1
<1>3. ASSUME NEW n \in 0..(Len(r.nodes) - 1), n \in S PROVE n + 1 \in S
  <2> DEFINE node == r.nodes[n + 1]
             results == Resulting(node, f)
             len == Len(node.args)
  <2>1. n \in Nat /\ n + 1 \in DOMAIN r.nodes /\ n + 1 \in 0..Len(r.nodes)
    BY <1>1
  <2>2. node.args \in Seq(1..n) /\ (node.op \in Mat!Inner => node.args # <<>>)
    BY <2>1, NodeFacts
  <2>3. Silent(node, e)
    BY <2>1
  <2>4. f[n + 1] = Mat!Outcome(node, f, e)
    BY <2>1, EvalFacts
  <2>5. \A m \in 1..n: f[m] # "true"
    BY <1>3
  <2> HIDE DEF f, node
  <2>6. len \in Nat /\ DOMAIN results = 1..len
        /\ \A i \in 1..len: node.args[i] \in 1..n /\ results[i] = f[node.args[i]]
    BY <2>1, <2>2 DEF Resulting
  <2>7. Mat!Outcome(node, f, e) =
        CASE node.op = "and" -> Mat!Lazily(results, "true")
          [] node.op = "or" -> Mat!Lazily(results, "false")
          [] node.op = "not" -> Mat!Negate(results[1])
          [] node.op = "field" -> Mat!Field(node, e)
          [] node.op = "keyword" -> Mat!Keyword(node.value, e)
          [] node.op = "nothing" -> "false"
          [] OTHER -> "raises"
    BY Zenon DEF Mat!Outcome, Resulting
  <2>8. node.op \in {"and", "or"} => 1 \in 1..len
    BY <2>2 DEF Mat!Inner
  <2>9. \A i \in 1..len: results[i] # "true"
    BY <2>5, <2>6
  <2> HIDE DEF results, len
  <2>10. ASSUME node.op = "and" PROVE f[n + 1] # "true"
    <3>1. Mat!Lazily(results, "true") # "true"
      BY <2>6, <2>8, <2>9, <2>10, LazilyFacts
    <3> QED
      BY <2>4, <2>7, <2>10, <3>1
  <2>11. ASSUME node.op = "or" PROVE f[n + 1] # "true"
    <3>1. Mat!Lazily(results, "false") # "true"
      BY <2>6, <2>9, LazilyFacts
    <3> QED
      BY <2>4, <2>7, <2>11, <3>1
  <2>12. ASSUME node.op = "field" PROVE f[n + 1] # "true"
    <3>1. /\ node.value.kind \in Mat!Kinds
          /\ node.value.kind = "bool" => node.value.bool # None
          /\ node.value.kind = "number" => node.value.num # None
      BY <2>1, <2>12 DEF Mat!WellFormed, node
    <3>2. Mat!Field(node, e) # "true"
      BY <2>3, <2>12, <3>1, FieldQuiet
    <3> QED
      BY <2>4, <2>7, <2>12, <3>2
  <2>13. node.op \notin {"not", "keyword"}
    BY <2>3 DEF Silent, Mat!AsksForAbsence
  <2>14. f[n + 1] # "true"
    BY <2>4, <2>7, <2>10, <2>11, <2>12, <2>13
  <2>15. \A m \in 1..(n + 1): f[m] # "true"
    BY <2>1, <2>5, <2>14
  <2> QED
    BY <2>1, <2>15 DEF f
<1> HIDE DEF S
<1>4. \A n \in 0..Len(r.nodes): n \in S
  BY <1>1, <1>2, <1>3, UpTo
<1> QED
  BY <1>1, <1>4 DEF S

LEMMA QuietVerdict ==
    ASSUME MatInv, program = "matcher"
    PROVE  Mat!MissingFieldIsQuiet
<1> DEFINE results == [i \in DOMAIN matRule.conditions |-> Mat!Eval(matRule, matEvent)[matRule.conditions[i]]]
           len == Len(matRule.conditions)
<1>1. Mat!WellFormed(matRule) /\ verdict \in {"none", Mat!Verdict(matRule, matEvent)}
  BY DEF MatInv, Judged, Mat!TypeOK
<1>2. /\ Len(matRule.nodes) \in Nat /\ DOMAIN matRule.nodes = 1..Len(matRule.nodes)
      /\ matRule.conditions \in Seq(DOMAIN matRule.nodes)
  BY <1>1, NodeFacts
<1>3. len \in Nat /\ DOMAIN results = 1..len /\ \A i \in 1..len: matRule.conditions[i] \in DOMAIN matRule.nodes
  BY <1>2
<1> SUFFICES ASSUME verdict = "true", \A n \in DOMAIN matRule.nodes: Silent(matRule.nodes[n], matEvent)
             PROVE  FALSE
  <2>1. \A n \in DOMAIN matRule.nodes: matRule.nodes[n] \in Mat!Range(matRule.nodes)
    BY DEF Mat!Range
  <2> QED
    BY <2>1 DEF Mat!MissingFieldIsQuiet, Silent
<1>4. \A n \in DOMAIN matRule.nodes: Mat!Eval(matRule, matEvent)[n] # "true"
  BY <1>1, EvalQuiet
<1>5. \A i \in 1..len: results[i] # "true"
  BY <1>3, <1>4
<1>6. Mat!Verdict(matRule, matEvent) =
        CASE ~Mat!Routed(matRule, matEvent) -> "false"
          [] Mat!Routed(matRule, matEvent) /\ matRule.conditions = <<>> -> "raises"
          [] OTHER -> Mat!Lazily(results, "false")
  BY Zenon DEF Mat!Verdict
<1> HIDE DEF results, len
<1>7. Mat!Lazily(results, "false") # "true"
  BY <1>3, <1>5, LazilyFacts
<1> QED
  BY <1>1, <1>6, <1>7

-----------------------------------------------------------------------------
LEMMA VerdictType ==
    ASSUME NEW r, Mat!WellFormed(r), NEW e
    PROVE  Mat!Verdict(r, e) \in Outcomes
<1> DEFINE results == [i \in DOMAIN r.conditions |-> Mat!Eval(r, e)[r.conditions[i]]]
           len == Len(r.conditions)
<1>1. len \in Nat /\ DOMAIN results = 1..len /\ \A i \in 1..len: r.conditions[i] \in DOMAIN r.nodes
  BY NodeFacts
<1>2. \A i \in 1..len: results[i] \in Outcomes
  BY <1>1, EvalFacts
<1>3. Mat!Verdict(r, e) =
        CASE ~Mat!Routed(r, e) -> "false"
          [] Mat!Routed(r, e) /\ r.conditions = <<>> -> "raises"
          [] OTHER -> Mat!Lazily(results, "false")
  BY Zenon DEF Mat!Verdict
<1> HIDE DEF results, len
<1>4. Mat!Lazily(results, "false") \in Outcomes
  BY <1>1, <1>2, LazilyFacts DEF Outcomes
<1> QED
  BY <1>3, <1>4 DEF Outcomes

LEMMA MatInit ==
    ASSUME program = "matcher" => Mat!Init
    PROVE  MatInv
<1> SUFFICES ASSUME program = "matcher" PROVE Mat!TypeOK /\ Judged
  BY DEF MatInv
<1>1. matRule \in MatRules /\ matEvent \in MatEvents /\ verdict = "none"
  BY DEF Mat!Init
<1>2. Mat!WellFormed(matRule)
  BY <1>1, MatcherHolds DEF Mat!MatcherAssumption
<1> QED
  BY <1>1, <1>2 DEF Mat!TypeOK, Judged

LEMMA MatNext ==
    ASSUME MatInv, program' = program, [Mat!Next]_matVars
    PROVE  MatInv'
<1> SUFFICES ASSUME program = "matcher" PROVE (Mat!TypeOK /\ Judged)'
  BY DEF MatInv
<1>1. Mat!TypeOK /\ Judged
  BY DEF MatInv
<1>2. CASE Mat!Next
  <2>1. matRule' = matRule /\ matEvent' = matEvent /\ verdict' = Mat!Verdict(matRule, matEvent)
    BY <1>2 DEF Mat!Next, Mat!Match
  <2>2. Judged'
    BY <2>1 DEF Judged
  <2>3. Mat!Verdict(matRule, matEvent) \in Outcomes
    BY <1>1, VerdictType DEF Mat!TypeOK
  <2> QED
    BY <1>1, <2>1, <2>2, <2>3 DEF Mat!TypeOK, Outcomes
<1>3. CASE UNCHANGED matVars
  BY <1>1, <1>3 DEF matVars, Mat!TypeOK, Judged
<1> QED
  BY <1>2, <1>3

-----------------------------------------------------------------------------
(* The programs beside each other: a step is one of one program, or none.  *)

LEMMA BaseInit == Base!Init => BaseInv
BY BehaviourHolds DEF Base!Init, BaseInv, BaseLearned, Base!TypeOK, Base!BehaviourAssumption

(* A policy lists each of some zones once.                                 *)
LEMMA ConInit ==
    Con!Init \/ (policy = [zones |-> <<>>, conduits |-> <<>>] /\ edits = 0 /\ report = None) => ConInv
<1> USE ConduitHolds DEF Con!ConduitAssumption
<1>1. ASSUME NEW S \in SUBSET Zones, NEW zs \in Con!SetToSeqs(S) PROVE zs \in Seq(Zones)
  <2>1. IsFiniteSet(S)
    <3>1. \A T: Con!IsFiniteSet(T) <=> IsFiniteSet(T)
      BY Zenon DEF Con!IsFiniteSet, IsFiniteSet
    <3> QED
      BY <3>1, FS_Subset
  <2>2. Con!Cardinality(S) = Cardinality(S)
    BY Zenon DEF Con!Cardinality, Cardinality
  <2>3. Cardinality(S) \in Nat
    BY <2>1, FS_CardinalityType
  <2>4. zs \in [1..Cardinality(S) -> S]
    BY <2>2 DEF Con!SetToSeqs
  <2> QED
    BY <2>3, <2>4
<1>2. CASE Con!Init
  <2>1. PICK zs \in UNION {Con!SetToSeqs(S): S \in (SUBSET Zones) \ {{}}}:
                policy = [zones |-> zs, conduits |-> <<>>]
    BY <1>2 DEF Con!Init
  <2>2. PICK S \in SUBSET Zones: zs \in Con!SetToSeqs(S)
    BY <2>1
  <2>3. zs \in Seq(Zones)
    BY <1>1, <2>2
  <2> QED
    BY <1>2, <2>1, <2>3 DEF Con!Init, ConInv, ConReport, Con!TypeOK
<1>3. CASE policy = [zones |-> <<>>, conduits |-> <<>>] /\ edits = 0 /\ report = None
  BY <1>3 DEF ConInv, ConReport, Con!TypeOK
<1> QED
  BY <1>2, <1>3

LEMMA EvInit == Evi!Init => EvInv
<1> SUFFICES ASSUME Evi!Init PROVE EvInv
  OBVIOUS
<1>1. Evi!TypeOK
  BY EvidenceHolds, SampleFacts DEF Evi!Init, Evi!TypeOK, Evi!EvidenceAssumption
<1>2. EvPlaces /\ EvAnalyses /\ EvAnalysed /\ EvRead
  BY DEF Evi!Init, EvPlaces, EvAnalyses, EvAnalysed, EvRead
<1>3. EvVerdict
  BY DEF Evi!Init, EvVerdict, Evi!GreenMeansCurrent, Evi!PassIsOfThisRun, Evi!EvidenceAgrees
<1> QED
  BY <1>1, <1>2, <1>3 DEF EvInv

LEMMA MetInit == Met!Init => MetInv
BY MetricsHolds DEF Met!Init, MetInv, MetricsOfTree, Met!TypeOK, Met!MetricsAssumption,
   Met!ReportsCurrent, Met!RatesDefined

LEMMA InitIInv == Init => IInv
<1> SUFFICES ASSUME NEW p, Begin(p) PROVE IInv
  BY DEF Init
<1>1. Base!Init /\ Evi!Init /\ Met!Init /\ Tel!Init /\ (program = "matcher" => Mat!Init)
  BY DEF Begin
<1>2. Con!Init \/ (policy = [zones |-> <<>>, conduits |-> <<>>] /\ edits = 0 /\ report = None)
  BY DEF Begin
<1> QED
  BY <1>1, <1>2, BaseInit, ConInit, EvInit, MetInit, TelInit, MatInit DEF IInv

LEMMA ProgramSteps ==
    [Next]_vars => /\ [Base!Next]_baseVars /\ [Con!Next]_conVars
                   /\ [Evi!Next]_evVars /\ [Met!Next]_meVars
                   /\ [Tel!Next]_telVars /\ [Mat!Next]_matVars
                   /\ program' = program
BY DEF Next, Learn, Segment, Prove, Measure, Collect, Judge, vars

LEMMA NextIInv == IInv /\ [Next]_vars => IInv'
BY ProgramSteps, BaseNext, ConNext, EvNext, MetNext, TelNext, MatNext DEF IInv

(* The inductive invariant holds throughout, for any events, policies,     *)
(* samples and labels that the assumptions allow.                          *)
THEOREM Invariance == Spec => []IInv
<1> QED
  BY InitIInv, NextIInv, PTL DEF Spec

(* The state of each program is well typed: a report lists positions of    *)
(* the policy, a log holds alerts of the rules, a tree only loses parts.   *)
THEOREM TypeCorrect == Spec => []TypeOK
<1>1. IInv => TypeOK
  BY DEF IInv, BaseInv, ConInv, EvInv, MetInv, TelInv, MatInv, TypeOK
<1> QED
  BY <1>1, Invariance, PTL

(* tools/otde/baseline.py, conduit.py: a complete event alerts exactly if  *)
(* it is novel, and the drift report accounts for the alerts of a policy.  *)
THEOREM AlertsCorrect == Spec => []AlertsExact
<1>1. IInv => AlertsExact
  BY AlertsNovel, Drift DEF IInv, AlertsExact
<1> QED
  BY <1>1, Invariance, PTL

(* The evidence checks under CI: green means that the committed evidence   *)
(* is what the rules of this very tree fire, as expected.                  *)
THEOREM GreenCorrect == Spec => []GreenMeansCurrent
<1>1. IInv => GreenMeansCurrent
  BY DEF IInv, EvInv, EvVerdict, GreenMeansCurrent
<1> QED
  BY <1>1, Invariance, PTL

(* suricata_check.py, malcolm_check.py, the in-process checks: a pass is   *)
(* backed by the run's own analyses of what an old log was not left for,   *)
(* however earlier runs ended, and leaves files that agree.  Where an old  *)
(* log could not be removed the run's analysis saw no more than expected,  *)
(* and Malcolm's check may have made none.                                 *)
THEOREM EvidenceCorrect == Spec => []EvidenceOfThisRun
<1>1. IInv => EvidenceOfThisRun
  BY DEF IInv, EvInv, EvVerdict, EvidenceOfThisRun
<1> QED
  BY <1>1, Invariance, PTL

(* metrics/: the totals account for every label, no rate is undefined      *)
(* unless there is no benign event or no technique in the catalogue, and   *)
(* both files of a run that ends well are of one tree.                     *)
THEOREM ReportsCorrect == Spec => []ReportsTrue
<1>1. IInv => ReportsTrue
  BY Accounted DEF IInv, MetInv, MetricsOfTree, ReportsTrue
<1> QED
  BY <1>1, Invariance, PTL

(* baseline.py, conduit.py: learning more never raises an alert; declaring *)
(* a conduit makes no event alert that did not, turns the path alerts of   *)
(* its own pair into service alerts where it refuses the port, and changes *)
(* no other verdict; and the order of zones that do not overlap decides    *)
(* nothing.                                                                *)
THEOREM QuieterCorrect == Spec => MoreKnownIsQuieter
<1>1. IInv /\ [Next]_vars =>
        [baseline' \notin {None, baseline} =>
            /\ \A e \in learned': e.valid
            /\ baseline # None /\ learned \subseteq learned' =>
                 Base!Alerts(baseline') \subseteq Base!Alerts(baseline)]_(Base!vars)
  BY ProgramSteps, QuieterNext DEF IInv
<1>2. IInv /\ [Next]_vars =>
        [\A c \in Conduits: policy'.conduits = Append(policy.conduits, c) =>
            \A e \in ConEvents:
                /\ Con!Opens(c, e, policy) =>
                     /\ Con!Match("undeclared_path", e, policy') = "quiet"
                     /\ (Con!Match("undeclared_service", e, policy') = "alert") = Con!Refused(c, e, policy)
                /\ ~Con!Opens(c, e, policy) =>
                     \A kind \in Con!Kinds: Con!Match(kind, e, policy') = Con!Match(kind, e, policy)
                /\ (\E kind \in Con!Kinds: Con!Match(kind, e, policy') = "alert")
                     => (\E kind \in Con!Kinds: Con!Match(kind, e, policy) = "alert")]_(Con!vars)
  BY ProgramSteps, SilencesNext DEF IInv, ConInv
<1>3. IInv /\ [Next]_vars =>
        [/\ policy'.conduits = policy.conduits
         /\ \A y, z \in Con!ToSet(policy.zones): y # z => y.addresses \cap z.addresses = {}
         => \A e \in ConEvents, kind \in Con!Kinds:
              Con!Match(kind, e, policy') = Con!Match(kind, e, policy)]_(Con!vars)
  BY ProgramSteps, OrderNext DEF IInv, ConInv
<1>4. Spec => Base!MoreTrainingQuieter
  BY <1>1, Invariance, PTL DEF Spec, Base!MoreTrainingQuieter
<1>5. Spec => Con!DeclaringSilences
  BY <1>2, Invariance, PTL DEF Spec, Con!DeclaringSilences
<1>6. Spec => Con!ZoneOrderIrrelevant
  BY <1>3, Invariance, PTL DEF Spec, Con!ZoneOrderIrrelevant
<1> QED
  BY <1>4, <1>5, <1>6 DEF MoreKnownIsQuieter

(* collector/cli.py: the store gets the whole of an input or nothing of    *)
(* it, each line in its own stream, and the exit status speaks for every   *)
(* event of the input.                                                     *)
THEOREM CollectorCorrect == Spec => CollectorHonest
<1>1. IInv => Tel!ExitTells
  BY DEF IInv, TelInv, TelRead
<1>2. IInv /\ [Next]_vars =>
        [loki' # loki => \A k \in Tel!Keys:
            loki'[k] = loki[k] \o Tel!Streams(Tel!Meant(telInput))[k]]_(Tel!vars)
  BY ProgramSteps, WholeNext DEF IInv
<1>3. Spec => []Tel!ExitTells
  BY <1>1, Invariance, PTL
<1>4. Spec => Tel!AllOrNothing
  BY <1>2, Invariance, PTL DEF Spec, Tel!AllOrNothing
<1> QED
  BY <1>3, <1>4 DEF CollectorHonest

(* tools/otde/matcher.py: a verdict rests on what the matcher implements,  *)
(* whatever the depth of the rule, and a rule fires on an event that shows *)
(* none of its fields only if it asks for absence or has a keyword.        *)
THEOREM VerdictCorrect == Spec => []VerdictSound
<1>1. IInv => VerdictSound
  BY VerdictFacts, QuietVerdict DEF IInv, VerdictSound
<1> QED
  BY <1>1, Invariance, PTL
=============================================================================
