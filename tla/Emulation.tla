------------------------------ MODULE Emulation ------------------------------
(***************************************************************************)
(* purple/runner/run_emulation.py beside the lab's detectors: each step of *)
(* a plan runs a command, sleeps, and reads the whole alert file; each     *)
(* expected signal is then looked up among the alerts of the step's        *)
(* window.  Detectors stamp an alert first and append it to the file later.*)
(***************************************************************************)
EXTENDS Integers, FiniteSets, Sequences, FiniteSetsExt

CONSTANTS
    Plans,      \* plans an operator may name: sequences of steps
    Techniques, \* technique_ids(), the pinned catalogue
    Detects,    \* the techniques of each rule file that exists
    Settles,    \* values of --settle-seconds an operator may give
    MaxDelay,   \* from an action to the line of its alert in the file, whatever the settle time
    MaxBusy, MaxRuns,   \* bounds: ticks a command takes, runs of the program
    None        \* no value; no file, or one that was cut short

SignalsOf(s) == {s.expectations[k].signal: k \in DOMAIN s.expectations}
Signals == UNION {UNION {SignalsOf(p[i]): i \in DOMAIN p}: p \in Plans}
Alert == [signal: Signals, moment: Nat]
Observation == [started: Nat, finished: Nat, alerts: SUBSET Alert]

\* An instance has to satisfy this.
EmulationAssumption ==
    /\ Settles \subseteq Nat /\ {MaxDelay, MaxBusy, MaxRuns} \subseteq Nat
    /\ \A p \in Plans: Len(p) \in Nat /\ DOMAIN p = 1..Len(p)
    /\ None \notin Nat /\ None \notin Observation

VARIABLES
    pc, now, runs,
    settle, plan, step,    \* the arguments of this run, and the step at work
    began, woke,   \* started_at of the step, and when its command ended
    inflight,      \* alerts on their way: signal, cause, age, moment or None
    file,          \* the lab's alert file
    observations,  \* of the steps run so far, by step id
    results,
    files,         \* observations.json, emulation_results.json and the report; history: of which run
    raised,        \* history: the signals each step's action raised, None if none ran
    leftover,      \* history: signals of earlier runs that were not yet past when this one began
    result
labVars == <<inflight, file, raised, leftover>>
vars == <<pc, now, runs, settle, plan, step, began, woke, labVars, observations, results, files, result>>

-----------------------------------------------------------------------------
(* validate_plan: the schema first, and the rest only for a plan that      *)
(* satisfies it.                                                           *)
WellFormed(p) == Len(p) > 0 /\ \A i \in DOMAIN p: p[i].expectations # <<>>
UniqueIds(p) == \A i, j \in DOMAIN p: p[i].id = p[j].id => i = j
KnownTechniques(p) ==   \* a step need not name one
    \A i \in DOMAIN p:
        /\ p[i].technique \in Techniques \cup {None}
        /\ \A k \in DOMAIN p[i].expectations: p[i].expectations[k].technique \in Techniques
RulesDetect(p) ==
    \A i \in DOMAIN p: \A k \in DOMAIN p[i].expectations:
        LET e == p[i].expectations[k] IN e.rule \in DOMAIN Detects /\ e.technique \in Detects[e.rule]
Valid(p) == WellFormed(p) /\ UniqueIds(p) /\ KnownTechniques(p) /\ RulesDetect(p)

(* The alerts of a signal inside a window that has both its ends.          *)
Matching(alerts, signal, started, finished) ==
    {a \in alerts: a.signal = signal /\ started <= a.moment /\ a.moment <= finished}

(* One expectation: detected by the first matching alert, or missed.       *)
Expectation(e, obs) ==
    LET m == IF obs = None THEN {} ELSE Matching(obs.alerts, e.signal, obs.started, obs.finished)
    IN  [signal |-> e.signal, detected |-> m # {},
         mttd |-> IF m = {} THEN None ELSE Min({a.moment: a \in m}) - obs.started]

Evaluate(p, observed) ==
    LET Obs(i) == IF p[i].id \in DOMAIN observed THEN observed[p[i].id] ELSE None
        steps == [i \in DOMAIN p |->
                    [k \in DOMAIN p[i].expectations |-> Expectation(p[i].expectations[k], Obs(i))]]
        All == UNION {{i} \X DOMAIN p[i].expectations: i \in DOMAIN p}
    IN  [steps |-> steps, total |-> Cardinality(All),
         detected |-> Cardinality({x \in All: steps[x[1]][x[2]].detected})]

-----------------------------------------------------------------------------
Init ==
    /\ pc = "idle" /\ now = 0 /\ runs = 0 /\ settle = 0 /\ plan = <<>> /\ step = 0 /\ began = 0 /\ woke = 0
    /\ inflight = {} /\ file = {} /\ raised = None /\ leftover = {}
    /\ observations = <<>> /\ results = None
    /\ files = [observations |-> None, results |-> None, report |-> None] /\ result = "none"

(* Time passes in commands and sleeps, and while an alert is under way.    *)
Tick ==
    /\ CASE pc \in {"command", "attacked"} -> now < began + MaxBusy
         [] pc = "settle" -> now < woke + settle
         [] OTHER -> inflight # {} \/ \E a \in file: a.moment = now
    /\ \A f \in inflight: f.age < MaxDelay
    /\ now' = now + 1
    /\ inflight' = {[f EXCEPT !.age = @ + 1]: f \in inflight}
    /\ UNCHANGED <<pc, runs, settle, plan, step, began, woke, file, observations, results, files, raised, leftover, result>>

Stamp(f) ==
    /\ f \in inflight /\ f.moment = None
    /\ inflight' = (inflight \ {f}) \cup {[f EXCEPT !.moment = now]}
    /\ UNCHANGED <<pc, now, runs, settle, plan, step, began, woke, file, observations, results, files, raised, leftover, result>>

Flush(f) ==
    /\ f \in inflight /\ f.moment # None
    /\ inflight' = inflight \ {f}
    /\ file' = file \cup {[signal |-> f.signal, moment |-> f.moment]}
    /\ UNCHANGED <<pc, now, runs, settle, plan, step, began, woke, observations, results, files, raised, leftover, result>>

-----------------------------------------------------------------------------
(* The process ends, and its locals with it.                               *)
Exit(status) ==
    /\ pc' = "idle" /\ result' = status
    /\ settle' = 0 /\ plan' = <<>> /\ step' = 0 /\ began' = 0 /\ woke' = 0
    /\ observations' = <<>> /\ results' = None /\ raised' = None /\ leftover' = {}

(* main up to run_plan: an invalid plan is refused, --validate and a call  *)
(* without a mode stop after it, --execute needs --alerts, --observations  *)
(* replays the file of an earlier run, which has to be there.  A run may   *)
(* start while alerts of earlier ones are under way.                       *)
Main(p) ==
    /\ pc = "idle" /\ runs < MaxRuns
    /\ runs' = runs + 1
    /\ \/ ~Valid(p) /\ Exit("invalid")
       \/ Valid(p) /\ Exit("ok")
       \/ Valid(p) /\ Exit("usage")
       \/ Valid(p) /\ files.observations = None /\ Exit("raised")
       \/ /\ Valid(p) /\ plan' = p /\ result' = "none"
          /\ \/ /\ pc' = "next" /\ settle' \in Settles /\ observations' = <<>>
                /\ raised' = [i \in DOMAIN p |-> {}]
                /\ leftover' = {f.signal: f \in inflight} \cup {a.signal: a \in {b \in file: b.moment >= now}}
             \/ /\ files.observations # None /\ pc' = "evaluate"
                /\ observations' = files.observations.steps /\ UNCHANGED <<settle, raised, leftover>>
          /\ UNCHANGED <<step, began, woke, results>>
    /\ UNCHANGED <<now, inflight, file, files>>

NextStep ==
    /\ pc = "next"
    /\ IF step = Len(plan) THEN pc' = "evaluate" /\ UNCHANGED <<step, began>>
       ELSE /\ step' = step + 1
            /\ IF plan[step'].execute THEN pc' = "command" /\ began' = now
                                      ELSE pc' = "next" /\ UNCHANGED began
    /\ UNCHANGED <<now, labVars, runs, settle, plan, woke, observations, results, files, result>>

(* The action takes effect somewhere in the command, which then ends.      *)
Attack ==
    /\ pc = "command"
    /\ \E signals \in SUBSET SignalsOf(plan[step]):
        /\ raised' = [raised EXCEPT ![step] = signals] /\ UNCHANGED leftover
        /\ inflight' = inflight \cup [signal: signals, age: {0}, moment: {None}]
    /\ pc' = "attacked"
    /\ UNCHANGED <<now, runs, settle, plan, step, began, woke, file, observations, results, files, result>>

CommandEnds ==
    /\ pc = "attacked" /\ pc' = "settle" /\ woke' = now
    /\ UNCHANGED <<now, labVars, runs, settle, plan, step, began, observations, results, files, result>>

(* Without an except clause a command that fails ends the program, and so  *)
(* do an alert file that does not exist yet, and a line that is cut because *)
(* a detector is writing it.                                               *)
Raises ==
    /\ \/ pc = "attacked"
       \/ pc = "settle" /\ now >= woke + settle /\ (file = {} \/ \E f \in inflight: f.moment # None)
    /\ Exit("raised")
    /\ UNCHANGED <<now, runs, inflight, file, files>>

(* A slip: the alerts are read as soon as the command ends.                *)
ObserveAtOnce ==
    /\ pc = "settle" /\ pc' = "next"
    /\ observations' = [id \in DOMAIN observations \cup {plan[step].id} |->
                            IF id = plan[step].id
                            THEN [started |-> began, finished |-> now, alerts |-> file]
                            ELSE observations[id]]
    /\ UNCHANGED <<now, labVars, runs, settle, plan, step, began, woke, results, files, result>>

Observe ==
    /\ pc = "settle" /\ now >= woke + settle
    /\ pc' = "next"
    /\ observations' = [id \in DOMAIN observations \cup {plan[step].id} |->
                            IF id = plan[step].id
                            THEN [started |-> began, finished |-> now, alerts |-> file]
                            ELSE observations[id]]
    /\ UNCHANGED <<now, labVars, runs, settle, plan, step, began, woke, results, files, result>>

EvaluateAll ==
    /\ pc = "evaluate" /\ pc' = "write" /\ results' = Evaluate(plan, observations)
    /\ UNCHANGED <<now, labVars, runs, settle, plan, step, began, woke, observations, files, result>>

(* A slip: a file of observations that is there is kept.                   *)
WriteObservationsOnce ==
    /\ pc = "write" /\ pc' = "write2"
    /\ files' = [files EXCEPT !.observations = IF @ = None THEN [run |-> runs, steps |-> observations] ELSE @]
    /\ UNCHANGED <<now, labVars, runs, settle, plan, step, began, woke, observations, results, result>>

WriteObservations ==
    /\ pc = "write" /\ pc' = "write2"
    /\ files' = [files EXCEPT !.observations = [run |-> runs, steps |-> observations]]
    /\ UNCHANGED <<now, labVars, runs, settle, plan, step, began, woke, observations, results, result>>

WriteResults ==
    /\ pc = "write2" /\ pc' = "write3"
    /\ files' = [files EXCEPT !.results = [run |-> runs, of |-> plan, results |-> results]]
    /\ UNCHANGED <<now, labVars, runs, settle, plan, step, began, woke, observations, results, result>>

WriteReport ==   \* the results as a table
    /\ pc = "write3" /\ Exit("ok")
    /\ files' = [files EXCEPT !.report = [run |-> runs, results |-> results]]
    /\ UNCHANGED <<now, runs, inflight, file>>

Kill ==   \* the next file is as it was or, once it has been opened, cut short
    /\ pc # "idle" /\ Exit("killed")
    /\ \/ files' = files
       \/ pc = "write" /\ files' = [files EXCEPT !.observations = None]
       \/ pc = "write2" /\ files' = [files EXCEPT !.results = None]
       \/ pc = "write3" /\ files' = [files EXCEPT !.report = None]
    /\ UNCHANGED <<now, runs, inflight, file>>

(* The program itself goes on; a step's command is waited for without a    *)
(* limit.                                                                  *)
Run == NextStep \/ Observe \/ EvaluateAll \/ WriteObservations \/ WriteResults \/ WriteReport
Command == Attack \/ CommandEnds
Lab == \E f \in inflight: Stamp(f) \/ Flush(f)
Next == (\E p \in Plans: Main(p)) \/ Run \/ Command \/ Raises \/ Kill \/ Lab \/ Tick

Spec == Init /\ [][Next]_vars /\ WF_vars(Run) /\ WF_vars(Lab) /\ WF_vars(Tick)
-----------------------------------------------------------------------------
TypeOK ==
    /\ pc \in {"idle", "next", "command", "attacked", "settle", "evaluate", "write", "write2", "write3"}
    /\ now \in Nat /\ runs \in 0..MaxRuns /\ settle \in {0} \cup Settles /\ plan \in Plans \cup {<<>>} /\ step \in 0..Len(plan)
    /\ began \in 0..now /\ woke \in 0..now
    /\ inflight \subseteq [signal: Signals, age: 0..MaxDelay, moment: {None} \cup 0..now]
    /\ file \subseteq [signal: Signals, moment: 0..now]
    /\ (raised = None \/ DOMAIN raised = DOMAIN plan) /\ leftover \subseteq Signals
    /\ result \in {"none", "ok", "invalid", "usage", "raised", "killed"}

Reported(P(_, _, _)) ==   \* P of each expectation of a plan that ran to its results
    results # None /\ raised # None =>
        \A i \in DOMAIN plan: \A k \in DOMAIN plan[i].expectations:
            P(i, plan[i].expectations[k].signal, results.steps[i][k])

(* Whose alert a detection is.  The action of that step raised the signal, *)
(* or it was still under way from an earlier run when this one began, or,  *)
(* if the program settles no longer than a detector may take, an earlier   *)
(* step of this run raised it.  It is never of a later step, nor of a run  *)
(* whose alerts were past.                                                 *)
DetectionCaused ==
    LET Due(i, signal, r) ==
            r.detected =>
                \/ signal \in raised[i] \cup leftover
                \/ settle <= MaxDelay /\ \E j \in 1..(i - 1): signal \in raised[j]
    IN  Reported(Due)

(* If the program settles longer than a detector may take, a signal that a *)
(* step's action raised is reported as detected.                           *)
NothingMissed ==
    LET Seen(i, signal, r) == settle > MaxDelay /\ signal \in raised[i] => r.detected IN Reported(Seen)

(* However late the alerts of earlier steps and runs, a time to detect     *)
(* lies between the step's start and the latest moment at which a detector *)
(* can have stamped an alert of that step.                                 *)
MttdPlausible ==
    LET Plausible(i, signal, r) == r.detected => r.mttd \in 0..(MaxBusy + MaxDelay) IN Reported(Plausible)

(* Whatever was killed between the writes, results are the evaluation of   *)
(* the observations on file, and the report shows them, if the files are   *)
(* of one run; otherwise the one that is written first is the newer.       *)
ReplayReproduces ==
    LET o == files.observations  r == files.results  m == files.report
    IN  /\ o # None /\ r # None =>
             r.run < o.run \/ (r.run = o.run /\ r.results = Evaluate(r.of, o.steps))
        /\ r # None /\ m # None =>
             m.run < r.run \/ (m.run = r.run /\ m.results = r.results)

(* A run that ends after it wrote leaves three files of its own.           *)
WholeResults ==
    [][pc = "write3" /\ result' = "ok" =>
        \A f \in {"observations", "results", "report"}: files'[f].run = runs]_vars

(* A run that executed commands leaves evidence only if every step it      *)
(* executes was observed; one that raised leaves the old files.            *)
OnlyWholeRuns ==
    [][files'.observations \notin {files.observations, None} /\ raised # None =>
        DOMAIN files'.observations.steps = {plan[i].id: i \in {j \in DOMAIN plan: plan[j].execute}}]_vars

(* Every run ends, unless a step's command, which has no time limit, never *)
(* returns.                                                                *)
Ends == pc # "idle" ~> (pc = "idle" \/ [](pc \in {"command", "attacked"}))
=============================================================================
