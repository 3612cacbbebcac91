------------------------------ MODULE Evidence ------------------------------
(***************************************************************************)
(* The checks that run rules over committed samples and keep what fired as *)
(* evidence, beside a developer who edits rules, expectations and files    *)
(* and a CI that repeats the in-process checks and compares their output   *)
(* with the commit: the in-process checks of collector, baseline,          *)
(* conduits, decoders and YARA ("proof"), suricata_check ("suricata"),     *)
(* which runs a container per capture, and malcolm_check ("malcolm"),      *)
(* which runs one container over all of them.                              *)
(***************************************************************************)
EXTENDS Naturals, FiniteSets, Sequences, Functions

CONSTANTS
    Samples,    \* a sequence: the order in which captures are analysed
    Rules,
    Raw,        \* a record of the sensor's log that is not an alert
    MaxRuns, MaxEdits,   \* bounds: runs of a check, edits by the developer
    None        \* no such file

\* An instance has to satisfy this.
EvidenceAssumption ==
    /\ Len(Samples) \in Nat \ {0} /\ DOMAIN Samples = 1..Len(Samples) /\ IsInjective(Samples)
    /\ Raw \notin Rules /\ \A log \in SUBSET (Rules \cup {Raw}): None # log
    /\ {MaxRuns, MaxEdits} \subseteq Nat

Names == {Samples[i]: i \in DOMAIN Samples}

VARIABLES
    check,      \* which check runs
    fires,      \* the rules that fire on each sample, as the tree stands
    expected,   \* the table in tools/otde/evidence.py
    healthy,    \* the check's other conditions: schema, current baseline, self-test
    edits,
    pc, at, runs, docker,
    ran,        \* history: the fires of the run's analyses, by sample
    kept,       \* history: the samples whose log has records of an earlier run
    logs,       \* the sensor's log of each capture
    observed,   \* what the run read or computed
    summary, alerts,    \* the evidence files
    committed,  \* the summary in the last commit
    result
world == <<fires, expected, healthy, edits, committed>>
vars == <<check, world, pc, at, runs, docker, ran, kept, logs, observed, summary, alerts, result>>

-----------------------------------------------------------------------------
Init ==
    /\ check \in {"proof", "suricata", "malcolm"}
    /\ fires = [s \in Names |-> IF s = Samples[1] THEN {} ELSE Rules] /\ expected = fires
    /\ healthy = TRUE /\ edits = 0
    /\ pc = "idle" /\ at = 0 /\ runs = 0 /\ docker = TRUE /\ ran = <<>> /\ kept = {}
    /\ logs = [s \in Names |-> None] /\ observed = <<>>
    /\ summary = None /\ alerts = None /\ committed = None /\ result = "none"

(* The developer edits a rule or sample, an expectation, or something the  *)
(* check also asks for, or commits the evidence as it is.                  *)
Develop ==
    /\ pc = "idle" /\ edits < MaxEdits /\ edits' = edits + 1
    /\ \/ \E s \in Names, rs \in SUBSET Rules:
            \/ fires' = [fires EXCEPT ![s] = rs] /\ UNCHANGED expected
            \/ expected' = [expected EXCEPT ![s] = rs] /\ UNCHANGED fires
          /\ UNCHANGED <<healthy, committed>>
       \/ healthy' = ~healthy /\ UNCHANGED <<fires, expected, committed>>
       \/ committed' = summary /\ UNCHANGED <<fires, expected, healthy>>
    /\ result' = "none"
    /\ UNCHANGED <<check, pc, at, runs, docker, ran, kept, logs, observed, summary, alerts>>

Exit(status) == pc' = "idle" /\ result' = status /\ at' = 0 /\ observed' = <<>>

(* Captures are analysed first, unless --no-docker says that they were.    *)
Start(d) ==
    /\ pc = "idle" /\ runs < MaxRuns /\ runs' = runs + 1 /\ docker' = d /\ result' = "none"
    /\ d \/ check = "suricata"
    /\ ran' = <<>> /\ kept' = {} /\ observed' = <<>> /\ at' = 1
    /\ pc' = CASE check = "suricata" /\ d -> "clean"
               [] check = "malcolm" -> "copy"
               [] OTHER -> "evaluate"
    /\ UNCHANGED <<check, world, logs, summary, alerts>>

-----------------------------------------------------------------------------
(* suricata_check.run_suricata: the directory goes, then the container,    *)
(* which appends to a log that is there, and a filtered copy in its place. *)
(* A slip: the directory is kept.                                          *)
CleanNothing ==
    /\ pc = "clean" /\ pc' = "container"
    /\ UNCHANGED <<check, world, at, runs, docker, ran, kept, logs, observed, summary, alerts, result>>

(* Errors are ignored: a log that cannot be removed stays, unnoticed.      *)
Clean ==
    /\ pc = "clean" /\ pc' = "container"
    /\ \/ logs' = [logs EXCEPT ![Samples[at]] = None] /\ UNCHANGED kept
       \/ logs[Samples[at]] # None /\ kept' = kept \cup {Samples[at]} /\ UNCHANGED logs
    /\ UNCHANGED <<check, world, at, runs, docker, ran, observed, summary, alerts, result>>

Records(s) == IF logs[s] = None THEN {} ELSE logs[s]

Container ==
    /\ pc = "container"
    /\ LET s == Samples[at]
       IN  /\ logs' = [logs EXCEPT ![s] = Records(s) \cup fires[s] \cup {Raw}]
           /\ ran' = [n \in DOMAIN ran \cup {s} |-> IF n = s THEN fires[s] ELSE ran[n]]
    /\ pc' = "filter"
    /\ UNCHANGED <<check, world, at, runs, docker, kept, observed, summary, alerts, result>>

(* What a container has done to the logs when it stops before its end.     *)
Interrupted ==
    \/ UNCHANGED logs
    \/ /\ pc = "container"
       /\ \E part \in SUBSET fires[Samples[at]]:
            logs' = [logs EXCEPT ![Samples[at]] = Records(Samples[at]) \cup part]
    \/ /\ pc = "copy"
       /\ \E gone, done \in SUBSET Names:
            logs' = [s \in Names |-> IF s \in done THEN fires[s] \cup {Raw} ELSE IF s \in gone THEN None ELSE logs[s]]

ContainerFails ==   \* docker or the sensor returns an error
    /\ pc \in {"container", "copy"} /\ Exit("raised") /\ Interrupted
    /\ UNCHANGED <<check, world, runs, docker, ran, kept, summary, alerts>>

Filter ==   \* the alerts are read into memory, and the directory goes
    /\ pc = "filter" /\ pc' = "rewrite"
    /\ observed' = logs[Samples[at]] \cap Rules
    /\ logs' = [logs EXCEPT ![Samples[at]] = None]
    /\ UNCHANGED <<check, world, at, runs, docker, ran, kept, summary, alerts, result>>

FilterRaises ==   \* a record that is cut short, or a file that cannot be removed
    /\ pc = "filter" /\ Exit("raised")
    /\ \/ UNCHANGED logs
       \/ logs' = [logs EXCEPT ![Samples[at]] = None]
    /\ UNCHANGED <<check, world, runs, docker, ran, kept, summary, alerts>>

(* A slip: one capture too many.                                           *)
RewriteOneMore ==
    /\ pc = "rewrite" /\ logs' = [logs EXCEPT ![Samples[at]] = observed] /\ observed' = <<>>
    /\ IF at <= Len(Samples) THEN pc' = "clean" /\ at' = at + 1 ELSE pc' = "evaluate" /\ at' = 1
    /\ UNCHANGED <<check, world, runs, docker, ran, kept, summary, alerts, result>>

Rewrite ==
    /\ pc = "rewrite" /\ logs' = [logs EXCEPT ![Samples[at]] = observed] /\ observed' = <<>>
    /\ IF at < Len(Samples) THEN pc' = "clean" /\ at' = at + 1 ELSE pc' = "evaluate" /\ at' = 1
    /\ UNCHANGED <<check, world, runs, docker, ran, kept, summary, alerts, result>>

-----------------------------------------------------------------------------
(* malcolm_check.run_malcolm: the rules are copied in, the old logs        *)
(* removed, and every capture analysed; an analysis that fails leaves no   *)
(* log and is not noticed. Nor is it noticed when the old logs cannot be   *)
(* removed: the chain of commands stops there, before the first analysis,  *)
(* and the script still says that it is done.                              *)
Malcolm ==
    /\ pc = "copy" /\ pc' = "evaluate"
    /\ \/ /\ \E done \in SUBSET Names:
              /\ logs' = [s \in Names |-> IF s \in done THEN fires[s] \cup {Raw} ELSE None]
              /\ ran' = [s \in done |-> fires[s]]
          /\ UNCHANGED kept
       \/ /\ \E left \in SUBSET Names:
              /\ logs' = [s \in Names |-> IF s \in left THEN logs[s] ELSE None]
              /\ kept' = {s \in left: logs[s] # None}
          /\ UNCHANGED ran
    /\ UNCHANGED <<check, world, at, runs, docker, observed, summary, alerts, result>>

-----------------------------------------------------------------------------
(* A log that does not exist has no alerts.                                *)
Read(log) == IF log = None THEN {} ELSE log \cap Rules

Evaluate ==
    /\ pc = "evaluate" /\ pc' = "summary"
    /\ observed' = [s \in Names |-> IF check = "proof" THEN fires[s] ELSE Read(logs[s])]
    /\ ran' = IF check = "proof" THEN fires ELSE ran
    /\ UNCHANGED <<check, world, at, runs, docker, kept, logs, summary, alerts, result>>

EvaluateRaises ==   \* a sample, a decoder, a rule or a log that cannot be used
    /\ pc = "evaluate" /\ Exit("raised")
    /\ UNCHANGED <<check, world, runs, docker, ran, kept, logs, summary, alerts>>

(* The summary is written before the verdict; Malcolm's also has a list of *)
(* the single alerts.                                                      *)
WriteSummary ==
    /\ pc = "summary" /\ pc' = IF check = "malcolm" THEN "alerts" ELSE "verdict"
    /\ summary' = [observed |-> observed, expected |-> expected, healthy |-> check # "proof" \/ healthy]
    /\ UNCHANGED <<check, world, at, runs, docker, ran, kept, logs, observed, alerts, result>>

WriteAlerts ==
    /\ pc = "alerts" /\ pc' = "verdict" /\ alerts' = observed
    /\ UNCHANGED <<check, world, at, runs, docker, ran, kept, logs, observed, summary, result>>

Verdict ==
    /\ pc = "verdict" /\ Exit(IF observed = expected /\ (check = "proof" => healthy) THEN "ok" ELSE "failed")
    /\ UNCHANGED <<check, world, runs, docker, ran, kept, logs, summary, alerts>>

(* A file that was about to be written is as it was, or cut short: a       *)
(* summary that cannot be read, or a log of some of its records.           *)
Kill ==
    /\ pc # "idle" /\ Exit("killed")
    /\ CASE pc = "filter" -> UNCHANGED logs \/ logs' = [logs EXCEPT ![Samples[at]] = None]
         [] pc = "rewrite" -> \/ UNCHANGED logs
                              \/ \E part \in SUBSET observed: logs' = [logs EXCEPT ![Samples[at]] = part]
         [] OTHER -> Interrupted
    /\ summary' = summary \/ (pc = "summary" /\ summary' = None)
    /\ alerts' = alerts \/ (pc = "alerts" /\ alerts' = None)
    /\ UNCHANGED <<check, world, runs, docker, ran, kept>>

(* A slip: CI asks git about the file before the check writes it.          *)
DiffStale ==
    /\ pc = "idle" /\ check = "proof" /\ result = "ok" /\ result' = "green"
    /\ UNCHANGED <<check, world, pc, at, runs, docker, ran, kept, logs, observed, summary, alerts>>

(* CI: the check passed, and git finds its evidence as it was committed.   *)
Diff ==
    /\ pc = "idle" /\ check = "proof" /\ result = "ok"
    /\ result' = IF summary = committed THEN "green" ELSE "red"
    /\ UNCHANGED <<check, world, pc, at, runs, docker, ran, kept, logs, observed, summary, alerts>>

Next ==
    \/ Develop \/ (\E d \in BOOLEAN: Start(d))
    \/ Clean \/ Container \/ ContainerFails \/ Filter \/ FilterRaises \/ Rewrite \/ Malcolm
    \/ Evaluate \/ EvaluateRaises \/ WriteSummary \/ WriteAlerts \/ Verdict \/ Kill \/ Diff

Spec == Init /\ [][Next]_vars
-----------------------------------------------------------------------------
TypeOK ==
    /\ check \in {"proof", "suricata", "malcolm"} /\ docker \in BOOLEAN /\ healthy \in BOOLEAN
    /\ {fires, expected} \subseteq [Names -> SUBSET Rules]
    /\ pc \in {"idle", "clean", "container", "filter", "rewrite", "copy", "evaluate", "summary", "alerts", "verdict"}
    /\ at \in 0..Len(Samples) /\ runs \in 0..MaxRuns /\ edits \in 0..MaxEdits
    /\ logs \in [Names -> {None} \cup SUBSET (Rules \cup {Raw})]
    /\ kept \subseteq Names /\ result \in {"none", "ok", "failed", "raised", "killed", "green", "red"}

(* A green CI: the evidence in the commit is what the rules of this very   *)
(* tree fire, as expected, with nothing else wrong.                        *)
GreenMeansCurrent ==
    result = "green" =>
        /\ committed = [observed |-> fires, expected |-> expected, healthy |-> TRUE]
        /\ fires = expected /\ healthy

(* A check that analysed the captures itself passes only when its own      *)
(* analyses saw what is expected, however earlier runs ended: exactly that *)
(* where it started from an empty log, no more than that where an old log  *)
(* could not be removed. Of a capture without an analysis and without an   *)
(* old log it can only say that nothing was expected, and only Malcolm's   *)
(* check passes over one: with an old log it may pass on that alone, as    *)
(* the log of a run that could not remove it. From empty logs,             *)
(* suricata_check leaves exactly what it saw.                              *)
PassIsOfThisRun ==
    result = "ok" /\ docker =>
        /\ \A s \in DOMAIN ran: ran[s] \subseteq expected[s] /\ (s \notin kept => ran[s] = expected[s])
        /\ \A s \in Names \ DOMAIN ran: check = "malcolm" /\ (s \notin kept => expected[s] = {})
        /\ check = "suricata" /\ kept = {} => logs = ran
        /\ check = "proof" => kept = {}

(* Whatever a pass leaves, the files of evidence agree with each other.    *)
EvidenceAgrees ==
    result = "ok" =>
        /\ summary.observed = expected
        /\ check = "malcolm" => alerts = summary.observed
        /\ check = "suricata" => \A s \in Names: Read(logs[s]) = summary.observed[s]
=============================================================================
