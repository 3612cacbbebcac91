------------------------------ MODULE LokiCheck ------------------------------
(***************************************************************************)
(* tools/loki_check.py beside the stack it drives: Loki's ruler, the       *)
(* Alertmanager and the webhook that appends each alert to a file the      *)
(* check polls.  The rules under test may be wrong, so a push may fire any *)
(* of them; an alert is on file at most MaxDelay ticks later.  The process *)
(* can be killed anywhere and started again.                               *)
(***************************************************************************)
EXTENDS Naturals, FiniteSets

CONSTANTS
    Rules,      \* the alerts of the ruler bundle
    Expected,   \* EXPECTED_LOKI_ALERTS
    ReadyWait, BenignWait, AttackWait,   \* 60 s, 20 s and 120 s, in ticks
    MaxDelay,   \* from a push to the line of an alert in the webhook's file
    MaxRuns,    \* bound: runs of the check
    None        \* no file, or one that was cut short

Causes == {"leftover", "benign", "attack"}
AlertFiles == [run: 1..MaxRuns, names: SUBSET Rules]
Summaries == [run: 1..MaxRuns, expected: {Expected}, observed: SUBSET Rules,
              false_positives: SUBSET Expected, fired: [Causes -> SUBSET Rules]]

\* An instance has to satisfy this.
LokiAssumption ==
    /\ Expected \subseteq Rules /\ IsFiniteSet(Rules)
    /\ {ReadyWait, BenignWait, AttackWait, MaxDelay, MaxRuns} \subseteq Nat
    /\ MaxDelay < BenignWait /\ BenignWait < AttackWait /\ ReadyWait < AttackWait
    /\ None \notin Summaries \cup AlertFiles

VARIABLES
    pc,          \* where run() is; "idle" between runs
    failed,      \* an exception is on its way out of the try block
    timer,       \* ticks since the current wait began
    up,          \* the compose project is running
    ready,       \* services whose readiness was confirmed
    inflight,    \* alerts under way: rule, cause, ticks left, being appended
    received,    \* alert names on file in RECEIVED_DIR
    fired,       \* history: what each push of this run fired, and leftovers
    false_positives, observed, alerts,   \* the locals of run()
    files,       \* alerts.json and summary.json; history: of which run, and its fired
    result,      \* exit status of the last run
    verified,    \* exit status of --no-docker since
    runs
checkVars == <<pc, failed, ready, false_positives, observed, alerts, files, result, verified, runs>>
stackVars == <<up, inflight, received, fired>>
vars == <<checkVars, stackVars, timer>>

Flights(names, cause) == [rule: names, cause: {cause}, left: {MaxDelay}, appending: {FALSE}]
InTry == {"up", "wait", "clear", "benign", "sleep", "clear2", "attack", "poll", "nap", "collect"}

(* What the lines of a case are there for: the attack lines raise the      *)
(* alert of the case, the benign lines raise nothing.                      *)
Cases(cause) == IF cause = "attack" THEN Expected ELSE {}

Init ==
    /\ pc = "idle" /\ failed = FALSE /\ timer = 0 /\ up = FALSE /\ ready = 0
    /\ inflight = {} /\ received = {} /\ fired = [c \in Causes |-> {}]
    /\ false_positives = {} /\ observed = {} /\ alerts = {}
    /\ files = [alerts |-> None, summary |-> None]
    /\ result = "none" /\ verified = "none" /\ runs = 0

-----------------------------------------------------------------------------
(* The stack. *)

(* The webhook takes one request at a time, and opens the file before it   *)
(* writes: a reader in between finds a cut line.                           *)
Append(f) ==
    /\ up /\ f \in inflight /\ \A g \in inflight: ~g.appending
    /\ inflight' = (inflight \ {f}) \cup {[f EXCEPT !.appending = TRUE]}
    /\ UNCHANGED <<checkVars, timer, up, received, fired>>

Appended(f) ==
    /\ up /\ f \in inflight /\ f.appending
    /\ inflight' = inflight \ {f}
    /\ received' = received \cup {f.rule}
    /\ UNCHANGED <<checkVars, timer, up, fired>>

(* A tick covers the sleep between two polls: no tick passes without one.  *)
Tick ==
    /\ pc \notin {"idle", "poll"} /\ \A f \in inflight: f.left > 0
    /\ timer' = IF timer < AttackWait THEN timer + 1 ELSE timer
    /\ inflight' = {[f EXCEPT !.left = @ - 1]: f \in inflight}
    /\ timer' # timer \/ inflight # {}
    /\ pc' = IF pc = "nap" THEN "poll" ELSE pc
    /\ UNCHANGED <<failed, ready, false_positives, observed, alerts, files, result, verified, runs>>
    /\ UNCHANGED <<up, received, fired>>

-----------------------------------------------------------------------------
(* The check. *)

Cut == \E f \in inflight: f.appending
ClearReceived ==   \* an append under way goes on in the unlinked file
    /\ received' = {}
    /\ inflight' = {f \in inflight: ~f.appending}

(* A stack that was left running goes on with the lines it has.            *)
Start ==
    /\ pc = "idle" /\ runs < MaxRuns
    /\ pc' = "up" /\ runs' = runs + 1
    /\ failed' = FALSE /\ ready' = 0 /\ false_positives' = {} /\ observed' = {} /\ alerts' = {}
    /\ result' = "none" /\ verified' = "none" /\ timer' = 0 /\ received' = {}
    /\ \E names \in SUBSET Rules:
        /\ up \/ names = {}
        /\ inflight' = Flights(names, "leftover")
        /\ fired' = [c \in Causes |-> IF c = "leftover" THEN names ELSE {}]
    /\ UNCHANGED <<up, files>>

Goto(next) == pc' = next /\ UNCHANGED <<failed, result, files, verified, runs>>
Raise ==   \* into the finally block
    /\ pc \in InTry /\ pc' = "down" /\ failed' = TRUE
    /\ UNCHANGED <<result, files, verified, runs>>

ComposeUp ==
    /\ pc = "up"
    /\ up' \in {up, TRUE}
    /\ \/ up' /\ Goto("wait")
       \/ Raise
    /\ timer' = 0
    /\ UNCHANGED <<ready, inflight, received, fired, false_positives, observed, alerts>>

WaitFor ==
    /\ pc = "wait"
    /\ \/ /\ timer < ReadyWait /\ timer' = 0 /\ ready' = ready + 1
          /\ IF ready' = 3 THEN Goto("clear") ELSE Goto("wait")
       \/ Raise /\ UNCHANGED <<ready, timer>>   \* at the deadline, or a read timed out
    /\ UNCHANGED <<stackVars, false_positives, observed, alerts>>

Clear ==
    /\ \/ pc = "clear" /\ Goto("benign")
       \/ pc = "clear2" /\ Goto("attack")
    /\ ClearReceived
    /\ UNCHANGED <<ready, timer, up, fired, false_positives, observed, alerts>>

Push(cause, next) ==
    /\ pc = cause
    /\ \E names \in SUBSET Rules:
        /\ inflight' = inflight \cup Flights(names, cause)
        /\ fired' = [fired EXCEPT ![cause] = names]
    /\ timer' = 0
    /\ Goto(next) \/ Raise   \* Loki may have taken lines it did not confirm
    /\ UNCHANGED <<ready, up, received, false_positives, observed, alerts>>

(* A slip: alerts of other rules are taken for false positives too.        *)
BenignVerdictAll ==
    /\ pc = "sleep" /\ timer >= BenignWait
    /\ IF Cut THEN Raise /\ UNCHANGED false_positives
       ELSE Goto("clear2") /\ false_positives' = received
    /\ UNCHANGED <<ready, timer, stackVars, observed, alerts>>

(* A slip: the files are read without the sleep.                           *)
BenignVerdictEarly ==
    /\ pc = "sleep"
    /\ IF Cut THEN Raise /\ UNCHANGED false_positives
       ELSE Goto("clear2") /\ false_positives' = received \cap Expected
    /\ UNCHANGED <<ready, timer, stackVars, observed, alerts>>

BenignVerdict ==
    /\ pc = "sleep" /\ timer >= BenignWait
    /\ IF Cut THEN Raise /\ UNCHANGED false_positives
       ELSE Goto("clear2") /\ false_positives' = received \cap Expected
    /\ UNCHANGED <<ready, timer, stackVars, observed, alerts>>

Poll ==
    /\ pc = "poll" /\ timer < AttackWait
    /\ IF Cut THEN Raise /\ UNCHANGED observed
       ELSE /\ observed' = received
            /\ IF Expected \subseteq observed' THEN Goto("collect") ELSE Goto("nap")
    /\ UNCHANGED <<ready, timer, stackVars, false_positives, alerts>>

(* A slip: the loop sleeps on when its time is up.                         *)
DeadlineIgnored ==
    /\ pc = "poll" /\ timer >= AttackWait
    /\ Goto("nap")
    /\ UNCHANGED <<ready, timer, stackVars, false_positives, observed, alerts>>

Deadline ==
    /\ pc = "poll" /\ timer >= AttackWait
    /\ Goto("collect")
    /\ UNCHANGED <<ready, timer, stackVars, false_positives, observed, alerts>>

Collect ==
    /\ pc = "collect"
    /\ IF Cut THEN Raise /\ UNCHANGED alerts
       ELSE Goto("down") /\ alerts' = received
    /\ UNCHANGED <<ready, timer, stackVars, false_positives, observed>>

ComposeDown ==
    /\ pc = "down"
    /\ up' \in {up, FALSE}
    /\ inflight' = IF up' THEN inflight ELSE {}
    /\ IF up' \/ failed THEN pc' = "idle" /\ result' = "raised"
                        ELSE pc' = "write" /\ UNCHANGED result
    /\ UNCHANGED <<failed, ready, false_positives, observed, alerts, files, verified, runs, timer, received, fired>>

Summary ==
    [run |-> runs, expected |-> Expected, observed |-> observed, false_positives |-> false_positives,
     fired |-> fired]

WriteAlerts ==
    /\ pc = "write"
    /\ pc' = "write2" /\ files' = [files EXCEPT !.alerts = [run |-> runs, names |-> alerts]]
    /\ UNCHANGED <<failed, ready, false_positives, observed, alerts, result, verified, runs, stackVars, timer>>

WriteSummary ==   \* and the verdict
    /\ pc = "write2"
    /\ pc' = "idle" /\ files' = [files EXCEPT !.summary = Summary]
    /\ result' = IF false_positives = {} /\ Expected \subseteq observed THEN "passed" ELSE "failed"
    /\ UNCHANGED <<failed, ready, false_positives, observed, alerts, verified, runs, stackVars, timer>>

(* The process is killed: no finally block runs, and the file that it was  *)
(* to write next is as it was or, once it has been opened, cut short.      *)
Kill ==
    /\ pc # "idle" /\ pc' = "idle" /\ result' = "killed"
    /\ \/ files' = files
       \/ pc = "write" /\ files' = [files EXCEPT !.alerts = None]
       \/ pc = "write2" /\ files' = [files EXCEPT !.summary = None]
    /\ UNCHANGED <<failed, ready, false_positives, observed, alerts, verified, runs, stackVars, timer>>

(* A slip: the verification forgets the benign phase.                      *)
AcceptedByAttack(summary) == summary.observed = summary.expected

Accepted(summary) == summary.observed = summary.expected /\ summary.false_positives = {}

NoDocker ==
    /\ pc = "idle"
    /\ verified' = IF files.summary = None THEN "raised"
                   ELSE IF Accepted(files.summary) THEN "passed" ELSE "failed"
    /\ UNCHANGED <<pc, failed, ready, false_positives, observed, alerts, files, result, runs, stackVars, timer>>

(* The process itself goes on, and its requests time out.  Only docker     *)
(* compose is waited for without a limit.                                  *)
Check ==
    \/ WaitFor \/ Clear
    \/ Push("benign", "sleep") \/ BenignVerdict
    \/ Push("attack", "poll") \/ Poll \/ Deadline \/ Collect
    \/ WriteAlerts \/ WriteSummary
Docker == ComposeUp \/ ComposeDown
Stack == \E f \in inflight: Append(f) \/ Appended(f)
Next == Start \/ Check \/ Docker \/ Stack \/ Tick \/ Kill \/ NoDocker

Spec == Init /\ [][Next]_vars /\ WF_vars(Check) /\ WF_vars(Stack) /\ WF_vars(Tick)

-----------------------------------------------------------------------------
Statuses == {"none", "passed", "failed", "raised"}

(* The state is well typed, and no alert is under way in a stack that is   *)
(* down.                                                                   *)
TypeOK ==
    /\ pc \in InTry \cup {"idle", "down", "write", "write2"}
    /\ failed \in BOOLEAN /\ timer \in 0..AttackWait /\ up \in BOOLEAN /\ ready \in 0..3
    /\ inflight \subseteq [rule: Rules, cause: Causes, left: 0..MaxDelay, appending: BOOLEAN]
    /\ (~up => inflight = {}) /\ received \subseteq Rules /\ fired \in [Causes -> SUBSET Rules]
    /\ false_positives \subseteq Expected /\ observed \subseteq Rules /\ alerts \subseteq Rules
    /\ files.alerts \in {None} \cup AlertFiles
    /\ files.summary \in {None} \cup Summaries
    /\ result \in Statuses \cup {"killed"} /\ verified \in Statuses
    /\ runs \in 0..MaxRuns

Earned(f) == Expected \subseteq f["attack"] /\ Expected \cap f["benign"] = {}

(* A pass was earned in that run: its attack lines fired each expected     *)
(* alert and its benign lines none, whatever was delivered late or left    *)
(* over from a run that was killed.                                        *)
PassIsEarned == result = "passed" => Earned(fired)

(* A stack whose rules do what the cases are written for is not blamed: a  *)
(* run that gets to a verdict passes, unless an earlier stack was running. *)
NoFalseAlarm ==
    result = "failed" /\ fired["leftover"] = {} =>
        \E cause \in {"benign", "attack"}: fired[cause] \cap Expected # Cases(cause)

(* A summary that --no-docker accepts was written by a run that earned it, *)
(* whatever runs were killed, raised or failed before and since.  Of       *)
(* alerts.json, which --no-docker does not open, this says nothing.        *)
EvidenceEarned == verified = "passed" => Earned(files.summary.fired)

(* Whatever was killed between the two writes, files of one run agree,     *)
(* what the summary calls observed being in alerts.json; of two runs, the  *)
(* summary is the older; and a run with a verdict leaves both of its own.  *)
EvidenceOfOneRun ==
    LET a == files.alerts  s == files.summary
    IN  /\ a # None /\ s # None =>
             s.run < a.run \/ (s.run = a.run /\ s.observed \subseteq a.names)
        /\ pc = "idle" /\ result \in {"passed", "failed"} =>
             a # None /\ s # None /\ s.run = runs /\ a.run = runs

(* Every run ends, whether the stack answers or not, unless a call of      *)
(* docker compose, which has no time limit, never returns.                 *)
Ends == pc # "idle" ~> (pc = "idle" \/ [](pc = "up") \/ [](pc = "down"))
=============================================================================
