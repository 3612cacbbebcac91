------------------------------- MODULE LabCheck -------------------------------
(***************************************************************************)
(* tools/lab_loki_check.py beside a live lab: emulated traffic comes and   *)
(* goes, a rule fires while its stream has recent lines and is healthy,    *)
(* and the check polls the ruler, samples the streams and writes both.     *)
(***************************************************************************)
EXTENDS Naturals

CONSTANTS
    Rules,      \* EXPECTED_LAB_RULES
    Streams,    \* the streams main() asks for
    StreamOf,   \* the stream each rule's query reads
    Wait,       \* --wait, in polls, and the time the queries may take
    Lookback,   \* the range of a rule's query: a rule fires this long
    Window,     \* WINDOW_SECONDS: a sample reaches this far back
    MaxRuns,    \* bound: runs of the check
    None        \* no file, or one that was cut short

\* An instance has to satisfy this.
LabAssumption ==
    /\ {Wait, Lookback, Window, MaxRuns} \subseteq Nat
    /\ StreamOf \in [Rules -> Streams] /\ \A s \in Streams: \E r \in Rules: StreamOf[r] = s
    /\ Lookback + Wait < Window

VARIABLES
    pc, timer, runs,
    scheme,     \* of the URL the operator gave
    fresh,      \* streams with a line since the last tick
    age,        \* ticks since the last line before that, at most Window
    firing,     \* the rules the ruler has loaded, healthy and firing
    observed,   \* the ruler's answer to the last poll
    samples,    \* streams that gave a sample so far
    asked,      \* streams queried so far
    files,      \* summary.json and events.json
    result,
    together    \* history: in this run all rules were firing at one moment
labVars == <<scheme, fresh, age, firing>>
vars == <<pc, timer, runs, labVars, observed, samples, asked, files, result, together>>

Init ==
    /\ pc = "idle" /\ timer = 0 /\ runs = 0 /\ scheme \in {"http", "file"}
    /\ fresh = {} /\ age = [s \in Streams |-> Window] /\ firing = {}
    /\ observed = {} /\ samples = {} /\ asked = {}
    /\ files = [summary |-> None, events |-> None] /\ result = "none" /\ together = FALSE

-----------------------------------------------------------------------------
Traffic(s) ==
    /\ pc # "idle" /\ s \notin fresh /\ fresh' = fresh \cup {s}
    /\ UNCHANGED <<pc, timer, runs, scheme, age, firing, observed, samples, asked, files, result, together>>

Recent(s) == s \in fresh \/ age[s] <= Lookback

(* One evaluation of a rule, which may also have lost its rule group.      *)
Evaluate(r) ==
    /\ pc # "idle"
    /\ \/ r \notin firing /\ Recent(StreamOf[r]) /\ firing' = firing \cup {r}
       \/ r \in firing /\ firing' = firing \ {r}
    /\ together' = (together \/ firing' = Rules)
    /\ UNCHANGED <<pc, timer, runs, scheme, fresh, age, observed, samples, asked, files, result>>

(* The sleep between two polls, and the time the queries take, at most     *)
(* Wait.  A rule without recent lines stops firing at its next evaluation, *)
(* which a tick includes.                                                  *)
Tick ==
    /\ pc = "nap" \/ (pc = "sample" /\ timer < Wait)
    /\ pc' = IF pc = "nap" THEN "poll" ELSE pc
    /\ timer' = timer + 1
    /\ fresh' = {}
    /\ age' = [s \in Streams |-> IF s \in fresh THEN 1 ELSE IF age[s] < Window THEN age[s] + 1 ELSE Window]
    /\ firing' = {r \in firing: age'[StreamOf[r]] <= Lookback}
    /\ UNCHANGED <<runs, scheme, observed, samples, asked, files, result, together>>

-----------------------------------------------------------------------------
(* The process ends, and its locals with it.                               *)
Exit(status) ==
    /\ pc' = "idle" /\ result' = status
    /\ timer' = 0 /\ observed' = {}
    /\ samples' = {} /\ asked' = {} /\ together' = FALSE

Start ==
    /\ pc = "idle" /\ runs < MaxRuns
    /\ pc' = "poll" /\ runs' = runs + 1 /\ result' = "none"
    /\ together' = (firing = Rules)
    /\ UNCHANGED <<timer, labVars, observed, samples, asked, files>>

(* A request that fails is not retried; any scheme but HTTP(S) is refused. *)
GetFails ==
    /\ pc \in {"poll", "sample"} /\ Exit("raised")
    /\ UNCHANGED <<runs, labVars, files>>

(* A slip: rules seen firing in different polls add up.                    *)
PollAddsUp ==
    /\ pc = "poll" /\ scheme \in {"http", "https"}
    /\ observed' = observed \cup firing
    /\ IF observed' = Rules \/ timer >= Wait THEN pc' = "sample" /\ timer' = 0
                                             ELSE pc' = "nap" /\ UNCHANGED timer
    /\ UNCHANGED <<runs, labVars, samples, asked, files, result, together>>

Poll ==
    /\ pc = "poll" /\ scheme \in {"http", "https"}
    /\ observed' = firing
    /\ IF observed' = Rules \/ timer >= Wait THEN pc' = "sample" /\ timer' = 0
                                             ELSE pc' = "nap" /\ UNCHANGED timer
    /\ UNCHANGED <<runs, labVars, samples, asked, files, result, together>>

(* A slip: the sample reaches no further back than the rules.              *)
SampleShort(s) ==
    /\ pc = "sample" /\ s \notin asked
    /\ asked' = asked \cup {s}
    /\ samples' = IF age[s] <= Lookback THEN samples \cup {s} ELSE samples
    /\ pc' = IF asked' = Streams THEN "write" ELSE "sample"
    /\ UNCHANGED <<timer, runs, labVars, observed, files, result, together>>

(* The query ends at the last full second, so that a line of the second    *)
(* that is running is not in it; a tick may be longer than that second.    *)
Sample(s) ==
    /\ pc = "sample" /\ s \notin asked
    /\ asked' = asked \cup {s}
    /\ \/ (age[s] < Window \/ s \in fresh) /\ samples' = samples \cup {s}
       \/ age[s] = Window /\ samples' = samples
    /\ pc' = IF asked' = Streams THEN "write" ELSE "sample"
    /\ UNCHANGED <<timer, runs, labVars, observed, files, result, together>>

WriteSummary ==
    /\ pc = "write" /\ pc' = "write2"
    /\ files' = [files EXCEPT !.summary =
            [firing |-> observed, streams |-> samples, together |-> together]]
    /\ UNCHANGED <<timer, runs, labVars, observed, samples, asked, result, together>>

Missing == (Rules \ observed) \cup (Streams \ samples)

WriteEvents ==   \* and the verdict
    /\ pc = "write2" /\ files' = [files EXCEPT !.events = samples]
    /\ Exit(IF Missing = {} THEN "passed" ELSE "failed")
    /\ UNCHANGED <<runs, labVars>>

Kill ==   \* the next file is as it was or, once it has been opened, cut short
    /\ pc # "idle" /\ Exit("killed")
    /\ \/ files' = files
       \/ pc = "write" /\ files' = [files EXCEPT !.summary = None]
       \/ pc = "write2" /\ files' = [files EXCEPT !.events = None]
    /\ UNCHANGED <<runs, labVars>>

Check == GetFails \/ Poll \/ (\E s \in Streams: Sample(s)) \/ WriteSummary \/ WriteEvents
Lab == (\E s \in Streams: Traffic(s)) \/ (\E r \in Rules: Evaluate(r))
Next == Start \/ Check \/ Lab \/ Tick \/ Kill

Spec == Init /\ [][Next]_vars /\ WF_vars(Check) /\ WF_vars(Tick)
-----------------------------------------------------------------------------
TypeOK ==
    /\ pc \in {"idle", "poll", "nap", "sample", "write", "write2"}
    /\ timer \in 0..Wait /\ runs \in 0..MaxRuns /\ fresh \subseteq Streams /\ age \in [Streams -> 1..Window]
    /\ firing \subseteq Rules /\ observed \subseteq Rules
    /\ samples \subseteq asked /\ asked \subseteq Streams

(* Evidence in which every rule is firing stands for one moment at which   *)
(* all of them fired together, as wait_for_firing says, not for a rule     *)
(* seen now and another one later.                                         *)
FiringTogether ==
    files.summary # None /\ files.summary.firing = Rules => files.summary.together

(* Sampling comes after the poll but reaches back far enough: if all rules *)
(* fired together, a stream gives no sample only while it has no line at   *)
(* all in the window but ones of the second that is running, which the     *)
(* query leaves out.                                                       *)
SamplesReachBack ==
    [][observed = Rules =>
        \A s \in asked' \ (asked \cup samples'): s \in fresh /\ age[s] = Window]_vars

(* The files of a run that got to its verdict agree with each other.       *)
FilesAgree ==
    pc = "idle" /\ result \in {"passed", "failed"} => files.summary.streams = files.events

(* Every run ends.                                                         *)
Ends == pc # "idle" ~> pc = "idle"
=============================================================================
