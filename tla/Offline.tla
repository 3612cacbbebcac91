------------------------------- MODULE Offline -------------------------------
(***************************************************************************)
(* The programs that work on files, one of them in each behaviour: the     *)
(* behaviour baseline, the conduit policy, the evidence checks, the        *)
(* metrics, the collector and the Sigma matcher.                           *)
(***************************************************************************)
CONSTANTS
    BaseEvents, BaseRules,                              \* baseline/
    Addresses, Zones, Conduits, ConEvents, ConEdits,    \* the segmentation policy
    Samples, EvRules, Raw, EvEdits,                     \* tools/*_check.py
    MeRules, MeLabels, Techniques, MeEdits,             \* metrics/, coverage/
    TelInputs,                                          \* collector/
    MatRules, MatEvents,                                \* tools/otde/matcher.py
    MaxRuns, None

VARIABLES
    program,
    basePc, baseRuns, input, baseline, learned, baseResult,
    policy, edits, report,
    check, fires, expected, healthy, evEdits, pc, at, runs, docker, ran, kept, logs, observed,
    summary, alerts, committed, result,
    mePc, meRuns, meEdits, rules, labels, catalogue, hits, metrics, json, md, meResult,
    telPc, telRuns, telInput, telAt, events, errors, loki, printed, telResult,
    matRule, matEvent, verdict

baseVars == <<basePc, baseRuns, input, baseline, learned, baseResult>>
conVars == <<policy, edits, report>>
evVars == <<check, fires, expected, healthy, evEdits, pc, at, runs, docker, ran, kept, logs,
            observed, summary, alerts, committed, result>>
meVars == <<mePc, meRuns, meEdits, rules, labels, catalogue, hits, metrics, json, md, meResult>>
telVars == <<telPc, telRuns, telInput, telAt, events, errors, loki, printed, telResult>>
matVars == <<matRule, matEvent, verdict>>
vars == <<program, baseVars, conVars, evVars, meVars, telVars, matVars>>

Base == INSTANCE Behaviour WITH
    Events <- BaseEvents, Rules <- BaseRules, pc <- basePc, runs <- baseRuns, result <- baseResult

Con == INSTANCE Conduit WITH Events <- ConEvents, MaxEdits <- ConEdits

Evi == INSTANCE Evidence WITH Rules <- EvRules, MaxEdits <- EvEdits, edits <- evEdits

Met == INSTANCE Metrics WITH
    Rules <- MeRules, Labels <- MeLabels, MaxEdits <- MeEdits,
    pc <- mePc, runs <- meRuns, edits <- meEdits, report <- md, result <- meResult

Tel == INSTANCE Telemetry WITH
    Inputs <- TelInputs, pc <- telPc, runs <- telRuns, input <- telInput, at <- telAt, result <- telResult

Mat == INSTANCE Matcher WITH Rules <- MatRules, Events <- MatEvents, rule <- matRule, event <- matEvent

ASSUME BehaviourHolds == Base!BehaviourAssumption
ASSUME ConduitHolds == Con!ConduitAssumption
ASSUME EvidenceHolds == Evi!EvidenceAssumption
ASSUME MetricsHolds == Met!MetricsAssumption
ASSUME TelemetryHolds == Tel!TelemetryAssumption
ASSUME MatcherHolds == Mat!MatcherAssumption
-----------------------------------------------------------------------------
(* The state of a program that does not run is fixed.                      *)
Begin(p) ==
    /\ program = p
    /\ p # "evidence" => check = "proof"
    /\ p # "metrics" => hits = {}
    /\ Base!Init /\ Evi!Init /\ Met!Init /\ Tel!Init
    /\ IF p = "conduit" THEN Con!Init
       ELSE policy = [zones |-> <<>>, conduits |-> <<>>] /\ edits = 0 /\ report = None
    /\ IF p = "matcher" THEN Mat!Init ELSE matRule = None /\ matEvent = None /\ verdict = "none"

Init == \E p \in {"baseline", "conduit", "evidence", "metrics", "collector", "matcher"}: Begin(p)

Learn == program = "baseline" /\ Base!Next
         /\ UNCHANGED <<program, conVars, evVars, meVars, telVars, matVars>>
Segment == program = "conduit" /\ Con!Next
           /\ UNCHANGED <<program, baseVars, evVars, meVars, telVars, matVars>>
Prove == program = "evidence" /\ Evi!Next
         /\ UNCHANGED <<program, baseVars, conVars, meVars, telVars, matVars>>
Measure == program = "metrics" /\ Met!Next
           /\ UNCHANGED <<program, baseVars, conVars, evVars, telVars, matVars>>
Collect == program = "collector" /\ Tel!Next
           /\ UNCHANGED <<program, baseVars, conVars, evVars, meVars, matVars>>
Judge == program = "matcher" /\ Mat!Next
         /\ UNCHANGED <<program, baseVars, conVars, evVars, meVars, telVars>>

Next == Learn \/ Segment \/ Prove \/ Measure \/ Collect \/ Judge

Spec == Init /\ [][Next]_vars
-----------------------------------------------------------------------------
(* The state of each program is well typed.                                *)
TypeOK == Base!TypeOK /\ Con!TypeOK /\ Evi!TypeOK /\ Met!TypeOK /\ Tel!TypeOK
          /\ (program = "matcher" => Mat!TypeOK)

(* tools/otde/baseline.py and conduit.py: a behaviour rule alerts exactly  *)
(* on what was not learned, and the drift report and the alerts of a       *)
(* policy account for the same traffic.                                    *)
AlertsExact == Base!AlertsExactlyNovel /\ Con!DriftAccounts

(* The same: learning more never raises an alert; a declared conduit makes *)
(* no event alert that did not, turns path alerts of its own pair into     *)
(* service alerts where it refuses the port, and changes nothing else; and *)
(* the order of zones that do not overlap decides nothing.                 *)
MoreKnownIsQuieter == Base!MoreTrainingQuieter /\ Con!DeclaringSilences /\ Con!ZoneOrderIrrelevant

(* The evidence checks under CI: green means current evidence.             *)
GreenMeansCurrent == Evi!GreenMeansCurrent

(* An evidence check passes on its own analyses as far as it started from  *)
(* empty logs, and leaves files that agree.                                *)
EvidenceOfThisRun == Evi!PassIsOfThisRun /\ Evi!EvidenceAgrees

(* metrics/: every label is accounted for, no rate is undefined except of  *)
(* an empty corpus or catalogue, and a run leaves two files of one tree.   *)
ReportsTrue == Met!LabelsAccounted /\ Met!RatesDefined /\ Met!ReportsCurrent

(* collector/cli.py: the collector delivers a whole input or nothing of    *)
(* it, each line to its own stream, and its exit status speaks for every   *)
(* event.                                                                  *)
CollectorHonest == []Tel!ExitTells /\ Tel!AllOrNothing

(* tools/otde/matcher.py: a verdict never rests on what the matcher does   *)
(* not implement, and an event without the rule's fields matches only a    *)
(* rule that asks for that, or that has a keyword.                         *)
VerdictSound == program = "matcher" => Mat!SoundVerdict /\ Mat!MissingFieldIsQuiet
=============================================================================
