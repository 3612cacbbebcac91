------------------------------- MODULE Metrics -------------------------------
(***************************************************************************)
(* metrics/ and coverage/: counts over labelled samples and over the       *)
(* techniques that rules declare, beside a developer who removes rules and *)
(* labels and renews the catalogue.  Which rule matches which label of its *)
(* own, or of all rules, is given; a run writes metrics.json and then      *)
(* report.md.                                                              *)
(***************************************************************************)
EXTENDS Integers, FiniteSets

CONSTANTS
    Rules,      \* [path, kind, techniques], of kind "single", "correlation" or another
    Labels,     \* [id, kind, rule]: "positive" and "window" of a rule, "quiet" windows,
                \* "negative" and "benign" of none
    Techniques, \* of the pinned catalogue
    MaxRuns, MaxEdits, None

(* An instance has to satisfy this: a path names one rule.                 *)
MetricsAssumption ==
    /\ IsFiniteSet(Rules) /\ IsFiniteSet(Labels) /\ IsFiniteSet(Techniques)
    /\ \A q, r \in Rules: q.path = r.path => q = r
    /\ {MaxRuns, MaxEdits} \subseteq Nat

VARIABLES
    pc, runs, edits,
    rules, labels, catalogue,   \* what the tree holds
    hits,       \* the pairs of rule and label that match
    metrics,    \* build_metrics of this run
    json, report, result
tree == <<rules, labels, catalogue, hits>>
vars == <<pc, runs, edits, tree, metrics, json, report, result>>

-----------------------------------------------------------------------------
Of(kind) == {l \in labels: l.kind = kind}
OfKind(kind) == {r \in rules: r.kind = kind}
Hit(r, ls) == Cardinality({l \in ls: <<r.path, l.id>> \in hits})
Counts(r, positives, negatives) ==
    [tp |-> Hit(r, positives), fn |-> Cardinality(positives) - Hit(r, positives),
     fp |-> Hit(r, negatives), tn |-> Cardinality(negatives) - Hit(r, negatives)]

(* Positives belong to the rule their label names, negatives to all.       *)
Own(r, ls) == {l \in ls: l.rule = r.path}
Row(r) ==
    IF r.kind = "correlation" THEN Counts(r, Own(r, Of("window")), Own(r, Of("quiet")))
    ELSE Counts(r, Own(r, Of("positive")), Of("negative"))
Measured == OfKind("single") \cup OfKind("correlation")

(* baseline_metrics: a benign event that any number of rules match.        *)
FalseAlarms == Cardinality({l \in Of("benign"): \E r \in OfKind("single"): <<r.path, l.id>> \in hits})

(* The calls of rounded_interval as successes and trials; rates of a row   *)
(* without trials are left out, that of the benign corpus never is.        *)
Intervals ==
    LET OfRow(c) == {<<c.tp, c.tp + c.fp>>, <<c.tp, c.tp + c.fn>>, <<c.fp, c.fp + c.tn>>}
    IN  {i \in UNION {OfRow(Row(r)): r \in Measured}: i[2] # 0}
            \cup {<<FalseAlarms, Cardinality(Of("benign"))>>}
Defined(i) == i[2] > 0 /\ i[1] \in 0..i[2]   \* wilson_interval raises otherwise

(* build_report of generate_coverage: techniques that no rule detects, and *)
(* detected ones that left the catalogue, are not covered.                 *)
Detected == UNION {r.techniques: r \in rules}
Coverage == [covered |-> Detected \cap catalogue, total |-> Cardinality(catalogue)]

Metrics ==
    [rows |-> [r \in Measured |-> Row(r)], falseAlarms |-> FalseAlarms, coverage |-> Coverage,
     positives |-> Cardinality(Of("positive")), negatives |-> Cardinality(Of("negative"))]

-----------------------------------------------------------------------------
Init ==
    /\ pc = "idle" /\ runs = 0 /\ edits = 0
    /\ rules = Rules /\ labels = Labels /\ catalogue = Techniques
    /\ hits \in SUBSET {<<x[1].path, x[2].id>>: x \in
                {y \in Rules \X Labels:
                    /\ y[1].kind \in {"single", "correlation"} /\ y[2].rule \in {None, y[1].path}
                    /\ (y[1].kind = "correlation") = (y[2].kind \in {"window", "quiet"})}}
    /\ metrics = None /\ json = None /\ report = None /\ result = "none"

(* The rules are ones that no correlation refers to: without such a rule   *)
(* the loading would raise before any count.                               *)
Develop ==
    /\ pc = "idle" /\ edits < MaxEdits /\ edits' = edits + 1 /\ result' = "none"
    /\ \/ (\E r \in rules: rules' = rules \ {r}) /\ UNCHANGED <<labels, catalogue>>
       \/ (\E l \in labels: labels' = labels \ {l}) /\ UNCHANGED <<rules, catalogue>>
       \/ (\E t \in catalogue: catalogue' = catalogue \ {t}) /\ UNCHANGED <<rules, labels>>
    /\ UNCHANGED <<pc, runs, hits, metrics, json, report>>

Exit(status) == pc' = "idle" /\ result' = status /\ metrics' = None

Compute ==
    /\ pc = "idle" /\ runs < MaxRuns /\ runs' = runs + 1
    /\ IF (\A i \in Intervals: Defined(i)) /\ Coverage.total # 0   \* build_report divides by it
       THEN pc' = "json" /\ metrics' = Metrics /\ result' = "none"
       ELSE Exit("undefined")
    /\ UNCHANGED <<edits, tree, json, report>>

WriteJson ==
    /\ pc = "json" /\ pc' = "report" /\ json' = metrics
    /\ UNCHANGED <<runs, edits, tree, metrics, report, result>>

(* A slip: a report that is there is kept.                                 *)
WriteReportOnce ==
    /\ pc = "report" /\ report' = (IF report = None THEN metrics ELSE report) /\ Exit("ok")
    /\ UNCHANGED <<runs, edits, tree, json>>

WriteReport ==
    /\ pc = "report" /\ report' = metrics /\ Exit("ok")
    /\ UNCHANGED <<runs, edits, tree, json>>

Kill ==   \* the file that was about to be written is as it was, or lost
    /\ pc # "idle" /\ Exit("killed")
    /\ json' = json \/ (pc = "json" /\ json' = None)
    /\ report' = report \/ (pc = "report" /\ report' = None)
    /\ UNCHANGED <<runs, edits, tree>>

Next == Develop \/ Compute \/ WriteJson \/ WriteReport \/ Kill

Spec == Init /\ [][Next]_vars
-----------------------------------------------------------------------------
TypeOK ==
    /\ pc \in {"idle", "json", "report"} /\ runs \in 0..MaxRuns /\ edits \in 0..MaxEdits
    /\ rules \subseteq Rules /\ labels \subseteq Labels /\ catalogue \subseteq Techniques
    /\ result \in {"none", "ok", "undefined", "killed"}

(* The sum of the numbers that n has for the rules.                        *)
Total(n) == Cardinality(UNION {{r} \X (1..n[r]): r \in DOMAIN n})

(* The totals account for every label: each one of an existing rule is     *)
(* judged once, each negative once by every single-event rule, and what    *)
(* the totals have beyond the rows are labels of rules that are gone.      *)
LabelsAccounted ==
    result = "ok" =>
        LET single == OfKind("single")
            orphans == {l \in Of("positive"): \A r \in single: r.path # l.rule}
        IN  /\ json.positives
                 = Total([r \in single |-> json.rows[r].tp + json.rows[r].fn]) + Cardinality(orphans)
            /\ Total([r \in single |-> json.rows[r].fp + json.rows[r].tn])
                 = json.negatives * Cardinality(single)

(* No corpus of labels makes a rate undefined, except one without a single *)
(* benign event; the coverage is undefined of an empty catalogue only. The *)
(* intervals are asked only for rates that exist.                          *)
RatesDefined == result = "undefined" => Of("benign") = {} \/ catalogue = {}

(* A run that ends well leaves two files of its own tree, whatever an      *)
(* earlier run left behind.                                                *)
ReportsCurrent == result = "ok" => json = Metrics /\ report = Metrics
=============================================================================
