# A TLA+ model of ot-detection-engineering

This directory holds TLA+ specifications of the parts of the repository that
keep state, run in several steps or beside something else, and of the
algorithms whose answers the rest of the repository trusts. Each module names
the file it is translated from; `PROJECT.json` maps every definition to its
source lines. TLC model-checks the modules on small instances (`MC*.cfg`); the
`*Proofs` modules prove the main results for every value of the constants with
TLAPS.

## 1. The system

The repository turns OT telemetry into alerts and shows that the alerts are
right. Telemetry (Zeek, Suricata, NetFlow, SNMP, hex payloads) is normalised
by the collector and the protocol decoders; Sigma and Suricata rules are
evaluated offline by `tools/otde` and converted for four back ends by
`pipelines`; the ingest service accepts events and asks an untrusted provider
to triage them; live checks run the rules on a Loki stack, and the emulation
runner runs attack steps against a lab.

| Component | State | Operations | Where it is hard | What makes it correct |
|---|---|---|---|---|
| Ingest rate limiter (`services/ingest/auth.py`) | per client, a deque of admission times, behind a lock | `allow` | the clock is read before the lock is taken, so calls are decided out of clock order | no client past its quota; no client refused that had room |
| Ingest HTTP service (`services/ingest/app.py`, `ai.py`) | two limiters; requests in flight | `/healthz`, `/events`, `/triage`, middleware | threads interleave at shared limiters; every stage can answer early; the provider raises or returns anything | charges conserved and to the right client; only validated triage served |
| Correlation evaluator (`tools/otde/correlation.py`) | collected events, the windows still to compare | `match_correlation` | half-open windows, any event order, anchored scan, missing timestamps | a verdict agrees with the definition of the rule; no silent error |
| Rule conversion order (`pipelines/convert.py`) | pending, ordered, placed | `conversion_order` | listing order differs between machines; cycles, rules from outside | references first, every rule once, an error exactly when there is no order |
| Deployment bundle (`pipelines/deploy.py`, `convert.py`, `loki_correlation.py`) | loaded rules with results cached on them, the bundle, the manifest, the tree on disk | build, write, `--check` | edits while it reads, crash while it writes, four conversions over mutable rule objects | the bundle is exact, the check means what it says, a re-run repairs |
| Decoders `dnp3-dpi`, `s7comm-dpi`, `opcua-dpi` | a line, the octets taken, the fields of one frame | front end, `parse_stream`, one frame parser each | length fields that lie; slices taken without asking; a line dropped half way | no panic; frames are consecutive; what is dropped shows in the exit status; it ends |
| Telemetry collector (`collector/`) | the list of events, the validation errors | `events` of four sensors, `schema_errors`, the two sinks | a record that cannot be read; a push whose answer is lost; the verdict comes after delivery | all of the input is delivered or none of it; the exit status speaks for every event |
| Behaviour baseline (`baseline/`, `tools/otde/baseline.py`) | the learned sets, as a file | `build`, `match_baseline` | learned once, compared much later; learning and matching treat an unset address differently | what was learned never alerts, what is new does; learning more is quieter |
| Conduit policy (`tools/otde/conduit.py`, `tools/conduit_check.py`) | zones and conduits, in the order of the file | `match_conduit`, the drift report | the first zone and the first conduit decide | alerts and drift report tell one story; a declared conduit silences and refuses what it says, and nothing else |
| Sigma matcher (`tools/otde/matcher.py`) | none | `match` | lazy conditions, absent fields, features that are not implemented | no verdict rests on what is not implemented; absence is not a match |
| Loki smoke test (`tools/loki_check.py`) | stack, webhook files, phases, evidence | start, push, poll, verify, `--no-docker` | polling beside the ruler and the webhook; late alerts; kills; two evidence files | a pass is earned; good rules are not blamed; the files say of which run they are |
| Live lab check (`tools/lab_loki_check.py`) | the last answer of the ruler, samples, evidence | poll, sample, write | rules start and stop firing between polls; sampling comes later | rules recorded as firing fired together; samples reach back |
| Emulation (`purple/runner/run_emulation.py`) | plan, alert file, observations, results, report | validate, execute, settle, observe, evaluate, replay | detectors later than their step or their run; commands that fail or hang; three files | a detection is of its step as far as the settle time allows; files of one run reproduce |
| Evidence checks (`tools/*_check.py`) | sensor logs, evidence files, the commit | run sensors, evaluate, write, compare | logs that are appended to or cannot be removed, analyses that fail, evidence written before the verdict | a pass is of this run's analyses; a green CI means current evidence |
| Metrics and coverage (`metrics/`, `coverage/`) | labels, rules, two output files | count, intervals, coverage, write | labels of removed rules, rates without trials, two files | every label accounted for; no undefined rate; two files of one tree |
| Rule readers, evidence tables, `convert.py` command line, generators, demo | none | text to text | text processing and data | see section 6 |

How they interact: the collector's events are what the matcher, the baseline,
the policy and the correlation evaluator judge; the evidence checks run those
four, or a sensor, over samples and compare with `tools/otde/evidence.py`;
`deploy` calls `convert` (which calls `conversion_order`
and pySigma) once per target; `loki_check` starts a Loki
stack with the bundle's ruler rules; `correlation` is called by the
metrics scripts and the tests; `app` owns two `RateLimiter`s and
one provider; the decoders are processes that talk through standard input,
standard output and the exit status (`tools/decoder_check.py`).

## 2. Plan

Order of work: what is shared by concurrent callers first, then the algorithms
whose answers others trust, then what survives a crash, then the parsers.

| Module | Models | State of work |
|---|---|---|
| `SlidingWindow` → `RateLimiter`, abstract `Quota` | the limiter | checked, proved |
| `Ingest` = requests + 2 × `RateLimiter` | the HTTP service | checked, proved |
| `Correlation` | the correlation evaluator | checked, proved |
| `ConversionOrder` | the ordering loop | checked, proved |
| `Deploy` | build, write, check, crash, edit | checked, proved |
| `Decoder`, abstract `OctetStream` | the three decoders | checked, proved |
| `LokiCheck`, `LabCheck`, `Emulation`, composed by `Live`, run by `MCLive` | the programs that drive a live system | checked, proved |
| `Behaviour`, `Conduit`, `Evidence`, `Metrics`, `Telemetry`, `Matcher`, composed by `Offline`, run by `MCOffline` | the programs that work on files | checked, proved |

Every safety property of the passing runs is also a theorem; what stays with
TLC is the liveness. Section 5 says why.

The programs of `Live` do not run beside each other in the repository, nor do
those of `Offline`. Each behaviour of the two models is a behaviour of one
program, chosen by `program` in the initial state. The state spaces add up
instead of multiplying, and a single run asks its question of each program.

## 3. Modules

### RateLimiter, SlidingWindow, Quota

`hits` is `_hits`; `call[t]` is the local `now` of a thread inside `allow`;
`clock` is `time.monotonic()`. `ReadClock` is the assignment before the
`with self._lock`, `Admit` and `Refuse` are the two ways through the locked
block, each with the pruning loop (`Pruned`, in `SlidingWindow`). `admitted` is
a history: every admission with the clock value it is stamped with and the one
it was decided at.

* `TypeOK`: besides types, a deque never has more than `Limit` stamps.
* `Ledger` (proved; `RefusalDeserved` rests on it): the deque of a client is the end of its admission history; what
  pruning has dropped from it has left the window by now, although refusals
  and late threads prune too, and decisions are in order of time.
* `QuotaHolds` (proved): of any `Limit + 1` consecutive admissions of a client, the last
  was decided at least `Window` after the first was *stamped*.
* `RefusalDeserved` (action property): a call is refused only if the client
  has had `Limit` admissions, the last `Limit` of them all decided after the
  time the call read minus `Window`.
* `ImplementsQuota`: the limiter is an implementation of `Quota`, which has no
  threads, no lock and no deque. The refinement keeps `clock` and `admitted`.
* `SlidingWindowExact` is what the service's README says, sliding-window rate
  limiting per client: at most `Limit` admissions carry stamps of one window.
  It is refuted: a thread that reads the clock, waits for the lock and is admitted
  late is stamped early, among stamps that were pruned meanwhile.

Instance: 2 threads and 2 clients (interchangeable), limit 2, window 2, clock
up to 3: a stamp can expire while a thread waits, and a client can be refused
by a full deque with an expired stamp behind a current one. The refuting run
has clock up to 4, as three admissions need two windows.

### Ingest

Workers are requests in flight; `req[w].stage` is how far a request has come.
`Guard` is the middleware before `call_next` (body size, content length);
`RequireKey` is what the framework does before the endpoint: reading the body,
`require_key`, binding the payload; `EnterLimiter`, `Allowed` and `TooMany` are `ReadClock`, `Admit`
and `Refuse` of the endpoint's instance of `RateLimiter`; `Events` and
`TriageChecks` are the bodies; `Provider` is `provider.triage`, which may
return acceptable or unacceptable output or raise; `ValidateTriage` is
`validate_triage` and its 502. `sent` is the response of the last step,
`charged` counts answers given after a limiter admitted the request.

* `ChargesConserved`: admissions of each limiter = answers given past it +
  requests still inside, per client. A request that ends in 500 or 502 was
  charged once; one refused by the guard or the key check, never.
* `ChargedToCaller` (action property): a limiter's record of a client changes
  only in a step of a request of that client, at that endpoint, with the key.
* `OnlyValidatedTriageServed`: a 200 from `/triage` has validated output.
* `Quotas`: each limiter implements its own `Quota` inside the composition,
  sharing worker threads and the clock.

Response headers are not part of the model. A reader of `app.py` should know
that the 400 and 413 of `guard` (lines 71 to 73) return before the headers are
set, and that the 500 of `unhandled` is made outside the middleware, although
the module docstring (line 10) promises the headers on every response.

Assumptions: workers are finitely many, the settings are numbers, and `Idle` is
neither a request, a response nor a call.

Instance: 2 workers, 2 clients, limits 1, window 1, clock up to 1: enough for
two requests of one client to compete for the last admission of an endpoint,
and for an admission to expire. That every request is answered is not claimed:
the provider is external and may never return.

### Correlation

`rule` and `events` are the arguments. `Check` is the chain of preconditions;
`Skip`, `Collect` and `Timeless` are the three ways through the collecting
loop (an event no rule matches, one that is collected, one without a usable
timestamp); `Scan` compares one opening, `Exhausted` ends the scan. A
timestamp is a moment or `NoTime`; a group and a counted value are model
values.

The definition of a correlation is stated apart from the algorithm:
`FiresAt(s)` says that in the window opening at `s` some group meets the
condition, `SomeWindowFires` that some opening does, whether or not an event is
there.

* `MatchSound`: a match is a match of the definition.
* `QuietComplete`: for `gte` and `gt`, a quiet verdict is a quiet definition.
* `LoudFailure`: a rule that cannot be evaluated, or a matching event with no
  place in time, never becomes a verdict.
* `QuietExact` drops the restriction to `gte` and `gt`, as the docstring and
  the comment on the scan do, and is refuted: with `lt`, `lte`, `eq` or `neq` a
  window that opens *between* events can satisfy a condition that no window
  opening at an event does.

Instance: every sequence of up to three events over moments 0..2, span 2, two
groups, two values, thresholds 1 and 2, all operators. Three events over three
moments give windows that hold none, one, two or all of them, and a pair
exactly one span apart. `MCCorrelation` leaves out combinations that cannot
differ (payloads of events that are never looked at, several defects at once).

### ConversionOrder

`Round` computes what is ready, `Place` appends one ready rule in listing
order, `Return` ends. `refs` are the rule objects resolved references denote,
some of them perhaps outside the collection.

* `ValidOrder`: a rule is placed after all its references (`ReferencesFirst`),
  and what is returned is every rule exactly once (`WholeCollection`).
* `RefusedExactly`: an error means there is a nonempty set of rules each of
  which waits for another in it or for an outsider; a result means there is
  none. No collection that has an order is refused.
* `Terminates`: under weak fairness of `Next`. It is a plain sequential
  function, which the interpreter runs to its end.

Instance: every reference graph over three rules and one outsider, self
references and cycles among them, in every listing order.

### Deploy

A rule file has a revision in place of a text, `Gone` when it is absent. An
artifact is the facts it was converted from: the revision of the rule, the
revision and the *format* of each subquery, and whether the rule object had
been rewritten by an earlier conversion. `loaded`, `cache` and `widened` are
the memory of one target: the loaded rule objects, the conversion result
pySigma caches on each, and the rules `_correlation_loki_document` changed in
place. `List`, `Read`, `Resolve`, `Convert`, `EndTarget` are one pass of
`build_bundle` over a target; `Native` adds the Suricata ruleset and the
manifest; `WriteFile` is one file of `write_bundle`; `Check` is
`check_bundle`; `Crash` may leave the file being written torn; `Fail` is any
exception of a build. `Edit` changes, adds or removes a rule file at any
moment. `Wanted(source)` says what the sources call for, without a process.

* `UntouchedRulesExact`: a rule not edited during the build, nor its
  references, is exact for all four targets, in the bundle and the manifest.
* `UpToDateMeansCurrent`: when `--check` found nothing and nobody edited since
  it started, the tree is what the sources call for.
* `RerunRepairs`: after a completed write without an edit meanwhile, every
  wanted file is right, whatever torn or stale file was there.
* `SubqueriesAreQueries`, after the comment in `loki_correlation.py` and
  `DEPLOY.md`, is refuted: for Splunk a correlation is converted around the
  cached result of its reference, and in the `savedsearches` format that
  result is a finished stanza, as the committed Splunk artifact shows.

Assumptions: a correlation references single-event rules, as all of the
repository's do, and no file is both a Sigma rule and a native one.

Instance: one rule, one correlation that references it and one native file; one
edit, which may come between any two reads of the same file; any number of
runs, crashes and failures in sequence, beginning from an empty directory or
from a current checkout. The refuting run allows two edits and needs none.

### Decoder, OctetStream

The three crates have the same front end around different frame parsers. `Open`
picks the crate; `ReadLine`, `Report`, `End` and `Exhausted` are `main` and the
loop of `parse_stream`; `LinkHeader`, `LinkBlock` and `Application` are DNP3;
`Tpkt` and `Cotp` are S7comm; `Message`, `Field` and `Service` are OPC UA. A
field that some branch reads takes any value of its width at the moment it is
read; an octet no control depends on is not represented; a CRC matches or does
not. `slices` records, for the last step, every slice or index the code takes
without asking whether it is in range: a read through `get(..)` is not
recorded, as it cannot panic.

* `TypeOK`: besides types, the frame being parsed lies inside its line.
* `NeverPanics`: every recorded slice is inside the buffer it is taken from.
* `BlocksFillFrame` (proved; the others rest on it): in DNP3, user data still to be read and the CRCs still to
  come are exactly the rest of the frame.
* `ImplementsStream`: the decoder implements `OctetStream`: frames start at the
  front, are consecutive, have at least 7 octets, and the process exits clean
  only if every line came out whole. 7 is the least of the three parsers; the
  promise is what `decoder_check.py` relies on when it runs a decoder with
  `check=True`.
* `Terminates`: under weak fairness of `Next`. The process runs until it exits,
  and its input is finite; no size field may stall it.
* `EventsAreJson`, from the crate's documentation, is refuted: `to_json` of
  `opcua-dpi` copies the policy URI between quotes without escaping.

Instance: two lines of up to 34 octets. 34 octets are a DNP3 frame with 20
octets of user data, hence a full block and a partial one, or a full block
exactly, or several short frames. Octets and 16-bit fields range over 0..40
(more than a line holds, so every length can lie upwards); 32-bit fields over
0..63, negative from 32, so that `-1` and sizes past the line exist. The widths
are constants, and the proofs hold for the real ones.

### LokiCheck

`pc` follows `run()`; `timer` counts the ticks of the wait at work. The stack
is `up`, `inflight` (alerts on their way, one of them perhaps half written) and
`received` (the files of the webhook). `ComposeUp`, `WaitFor` (three services), `Clear`, `Push`,
`BenignVerdict`, `Poll`, `Deadline`, `Collect`, `ComposeDown`, `WriteAlerts`
and `WriteSummary` are the statements of `run()` in order; `Raise` is any
exception inside the `try`, which goes through the `finally` block; `NoDocker`
is the `--no-docker` branch of `main`. `Append` and `Appended` are the two
moments of the webhook's write: a poll between them finds a cut line. `Kill`
ends the process anywhere, and the stack stays up with alerts still to fire; of
the evidence, the file to be written next is as it was or, once it has been
opened, cut short (`None`). So a run killed between the two writes leaves its
own `alerts.json` beside the summary of an earlier run. `fired` is a history:
what each push fired; the files carry, as a history, the run that wrote them.

* `PassIsEarned`: a pass means that the attack lines of this run fired every
  expected alert and its benign lines none, whatever was late or left over.
* `NoFalseAlarm`: if each push fires what its case is written for and no stack
  was left running, a run that gets to a verdict passes.
* `EvidenceEarned`: a summary that `--no-docker` accepts was written by a run
  that earned it.
* `EvidenceOfOneRun`: wherever a run was killed, two files of one run agree, of
  two runs the summary is the older, and a verdict leaves two files of its own.
* `Ends`: every run ends, whether the stack answers or not, unless a call of
  `docker compose` never returns, for which the code sets no limit.

Instance: two rules, one of them expected; waits of 1, 2 and 3 ticks for 60,
20 and 120 s; an alert takes at most one tick; two runs. Waits keep their
order, two runs are enough for a stack left over from the first.

Assumptions: the ruler may fire any rule at a push, expected or not; an alert
is on file before the benign wait is over (`MaxDelay < BenignWait`). That is what
the 20 s are chosen for, given the intervals the stack is configured with, but
nothing in `loki_check.py` enforces it: an alert of the benign push that takes
longer is cleared away, or counted in the attack phase, and a pass can then be
one that was not earned. The model says nothing of such a stack. The check polls
at least once per tick. That no file is neither a summary nor a list of alerts
only keeps `None` apart.

The module docstring (lines 6 and 7) speaks of exactly the expected alerts;
`run()` asks only that the expected ones are among the observed and counts only
expected names as false positives. The bundle has more alerts than the table,
so the model states what the code asks. `--no-docker` compares a summary with
the `expected` it carries, not with the current table; a test
(`tests/test_loki_evidence.py`) compares it with the table. It does not open
`alerts.json`, the other file of the evidence: after a kill between the two
writes it accepts an earlier run's summary beside alerts that are not the
expected ones, or cannot be read. `EvidenceOfOneRun` says how far the files can
come apart.

### LabCheck

`fresh`, `age` and `firing` are the lab: the streams with a line in the tick that
is running, how old the last line before that is, and which rules fire.
`Traffic` is a new line, `Evaluate` one evaluation of a rule, which may also have
lost its group. `Poll` is one round of `wait_for_firing`; `WriteSummary` and
`WriteEvents` are the evidence and the verdict; `GetFails` is an HTTP error, or a
URL that is not HTTP; `Kill` as above. `Sample` is one query of a stream. Its end
is `int(time.time())`, which cuts the running second off: older lines of the
window are in the answer, a fresh line may be or may not be.

* `FiringTogether`: rules recorded as all firing fired at one moment.
* `SamplesReachBack` (action property): where all rules fired together, a stream
  gives no sample only while it has no line in the window but fresh ones. That
  exception is real: a rule can fire on the first line of a stream and the
  sample, taken within the same second, miss it; the run then fails.
* `FilesAgree`: the two files of a run with a verdict agree.
* `Ends`: every run ends, as every request and the wait have a limit.

Instance: two rules on two streams, one poll of waiting, a rule's range of one
tick, a sample window of three, two runs. The assumption `Lookback + Wait <
Window` is what the constants of the file satisfy (range of the rules and
default wait against `WINDOW_SECONDS`); with equality the sample misses the line.

### Emulation

`Main` is the command line up to the first step: an invalid plan is refused
(`Valid` is `validate_plan`, in its order), `--validate` stops, `--observations`
replays, `--execute` runs, with any of the `Settles` as `--settle-seconds`. A run
may start while alerts of earlier runs, killed or failed, are still under way;
`leftover` is the history of their signals. `NextStep`, `Attack`, `CommandEnds`,
`Observe` are one step of `run_plan`: the command with its effect somewhere
inside, the settle sleep, and the reading of the whole alert file. `Raises` is a
command that fails, an alert file that is not there yet, or a cut line. `Stamp`
and `Flush` are the detectors: an alert gets its moment and, later, its line, at
most `MaxDelay` after the action. `Evaluate` is `evaluate`: each expected signal
is looked up among the alerts of the step's window. `WriteObservations`,
`WriteResults` and `WriteReport` are the three files; `Kill` leaves the one to be
written next as it was or cut short, so files of different runs can stand
beside each other.

* `DetectionCaused`: a detection is of a signal that the step's action raised, or
  that was under way from an earlier run when this one began, or, if the program
  settles no longer than a detector may take (`settle <= MaxDelay`), that an
  earlier step raised. It is never of a later step, nor of a run whose alerts
  were past, although every read takes all lines.
* `NothingMissed`: if it settles longer than that, a signal a step raised is
  reported as detected.
* `MttdPlausible`: times to detect lie between zero and the longest command
  plus the longest delay.
* `ReplayReproduces`: if observations and results on file are of one run, a replay
  of the first gives the second, and so for results and report; if they are of
  two runs, the file that is written first is of the later one.
* `WholeResults` (action property): a run that ends after it wrote leaves three
  files of its own.
* `OnlyWholeRuns` (action property): a run that executed commands leaves
  evidence only if each executed step was observed.
* `Ends`: every run ends, unless a step's command never returns, for which
  `_default_runner` sets no limit.

Instance: seven plans (two steps that expect the same signal, a step that is
not executed, four invalid ones, an empty one), settle times of one and two
ticks, an alert delay of at most one tick, two runs: one settle time is longer
than the delay and one is not. A command takes no tick (`MaxBusy` 0),
though its action and its end are steps of their own with the detectors in
between: commands that take time multiply the states, and the liveness is then
out of reach in a run of minutes. The proofs hold for commands of any length.
Assumptions: none of the expected
signals is raised by anything but a step, as attribution is by time. Plans are
sequences, and `None` is neither a moment nor an observation.

### Live, MCLive

`Live` puts the three programs into one model, `MCLive` gives it its instances.
Fairness: weak fairness of each program's own steps (`Check`, `Run`), of the
stack's and the detectors' deliveries that are under way, and of time. The
program's own steps go on without anybody's help: its polls and waits have a
deadline, its HTTP requests a timeout. Not so the subprocesses: `_compose` and
`_default_runner` call `subprocess.run` without a timeout, so `ComposeUp`,
`ComposeDown`, `Attack` and `CommandEnds` are not fair, and `Ends` excepts a run
that stays in one of them. Starting a run, killing it, raising and traffic are
not fair either. Each conjunction of properties (`VerdictDeserved`,
`EvidenceEarned`, `FiringTogether`, `SamplesReachBack`, `DetectionCaused`,
`ReplayReproduces`, `EveryRunEnds`) is the properties above.

### Telemetry

`Start` expands the patterns of a run; `Read` converts one record (`Suricata`,
`Zeek`, and one event for each NetFlow or SNMP record) and ends the run at one
that cannot be read; `Validate` collects errors; `Emit` and `Push` are the two
sinks, the second with an answer that may be lost after the lines were stored;
`Report` is the exit status; `Kill` ends the process. A record keeps its id, the
words of its file's name (by which `zeek.py` tells the logs apart), the sides of
the transaction it shows, the sides whose function is known, whether it has a
timestamp and whether the schema takes what is made of it. An input is its
records, file by file: no file boundary matters to the code beyond its name.
`Meant(in)` is what an input stands for, all records converted and flattened.

Assumption: the sensors are the four of `SOURCES`, and a record is one.

* `AllOrNothing` (action property): what reaches the store is the whole input
  of the run, each stream in the order of the sensor's files.
* `ExitTells`: exit status 0 means that all of the input left the process and
  all of it is valid; 1 that it left with an invalid event.

Instance: nine inputs, which have every kind of Suricata record, Zeek rows with
and without a function that is in the table, a file named after two logs, a
missing timestamp, a cut JSON record, an invalid event and a pattern without a
file; two runs. A Zeek row that is cut is a row with fewer columns for the code
(`collector/sources/zeek.py`), and so it is in the model: the run succeeds.

### Behaviour

`Start`, `Write` and `Kill` are a run of `build.py` (schema first, the file
last); `Build` is `build`, `Match` is `match_baseline`.

* `AlertsExactlyNovel`: an event that has all its fields alerts exactly when no
  event of the OT sensor it was learned from shows the address, pair or code.
* `MoreTrainingQuieter` (action property): a baseline of more events never
  raises an alert that the one before did not, and was learned from valid
  events only.

Assumptions: no file of the program's is neither a file nor events (`None` is
neither), and a rule about assets names one of the two addresses.

Instance: every set of seven events, among them a flow, an unset address, an
absent code and an invalid event; all rule types with and without a service;
two runs. An event that is not complete is outside the first property for a
reason: an address that is `""` is skipped when learning (`build.py`) and judged
when matching, so it alerts as a new asset although it was seen. A change of that
disagreement would not be noticed here. `Kill` leaves the file as it was or lost.

### Conduit

`policy` is the file. `ZoneFor`, `ConduitOf`, `Match` are `zone_for`,
`_conduit`, `match_conduit`; `Declare`, `Withdraw` and `SwapZones` are edits by
an engineer; `Check` is the drift report of `conduit_check.py`.

* `DriftAccounts`: a pair that was observed is declared or alerts; a declared
  pair is observed or listed as unused; undeclared services are on declared
  paths.
* `DeclaringSilences` (action property): a new conduit of a pair that has none
  ends the pair's alerts of undeclared paths, and starts alerts of undeclared
  services for exactly the ports that it refuses. Every other verdict stays as it
  was, and no event alerts that did not alert under either type before. A second
  declaration of a pair is shadowed: its ports count for nothing.
* `ZoneOrderIrrelevant` (action property): while no zones overlap, their order
  decides nothing.

A report lists an unused conduit by its position, as two may look the same.
Assumption: the zones a file may list are finitely many.

Instance: three zones, one of which overlaps with both others, in every order
and subset; three conduits, two of them for one pair; seven events; three edits.

The message of `conduit_check.py` for a run in which nothing was observed
speaks of declared conduits, while what it tests are observed zone pairs,
declared or not; the model has the test.

### Matcher

`Eval` is the recursion over conditions with its laziness (`Outcome` is one
call of it), `Field`, `Keyword`, `ValueMatches`, `Compare` and the coercions are
the leaves, `Routed` is the logsource check, for which a field that is null is like a
field that is missing. Patterns, networks and regular
expressions are the sets of texts they match. The condition trees of a rule are
one sequence of nodes in which a node stands behind its arguments, and `Eval` is
a function on its positions. A result does not depend on when it is computed,
as evaluation changes nothing; what laziness never reaches has a result here,
but no reader.

Assumption: `WellFormed`, what pySigma makes of a rule. Arguments stand before
their node and exist for `and`, `or` and `not`; every node belongs to some
condition; a Boolean or number to compare with is one.

* `SoundVerdict`: a verdict is what every reading of the unimplemented features
  would give (`Worth`, a three-valued semantics that is not lazy), and an error
  comes only from such a feature or a rule without conditions. Laziness skips
  unimplemented features, but only where they cannot matter.
* `MissingFieldIsQuiet`: a rule fires on an event that shows none of its fields
  only if it asks for absence. Rules with keywords are exempt: a keyword is
  looked for in all of the event.

Instance: all conditions of two leaves, each perhaps negated, over
seventeen leaves of every kind, and rules with two conditions or none, on
nineteen events, one of them with a null where a rule routes by the field.

### Evidence

Five checks have one form ("proof": evaluate, write the summary, give the
verdict), `suricata_check.py` and `malcolm_check.py` run a sensor first.
`suricata_check.py` takes one capture after the other: `Clean` removes the
directory and ignores errors, so that an old log may stay; `Container` appends to
what is there; `Filter` keeps the alerts in memory and removes the directory,
which here raises if it fails (`FilterRaises`, as does a record that is cut
short); `Rewrite` writes the alerts back. `Malcolm` is the shell script for all
captures at once, and has two ways through: either the old logs are removed and
every capture analysed, where an analysis that fails leaves no log and is not
noticed; or `rm -rf` fails, perhaps half way, the chain of `&&` ends before the
first analysis, and the script goes on behind the `;`, says `MALCOLM_DONE` and
exits with 0. `kept` is the history of logs that an earlier run left, `ran` of
the analyses of this one. `Interrupted` is what a container that stops before its
end has done to the logs.
`Develop` is a developer who edits rules, expectations, other conditions or
commits the evidence; `Diff` is the `git diff --exit-code` of CI.

* `GreenMeansCurrent`: green means that the committed evidence is what the rules
  of this tree fire, as expected, with nothing else wrong.
* `PassIsOfThisRun`: a check that ran its sensor passes on what that run saw: on
  exactly what is expected where it started from an empty log, on no more where
  an old log stayed. Only Malcolm's check passes over a capture without an
  analysis, and without an old log it does so only where no alert is expected:
  a missing log reads as a quiet one. The in-process checks keep no log.
* `EvidenceAgrees`: a pass leaves files that agree.

A reader of `malcolm_check.py` should know what `PassIsOfThisRun` leaves open:
"Malcolm Suricata run did not complete" (line 82) is not raised after a failing
`rm -rf`. The logs of an earlier run are then judged as those of this one, and
can pass without a single analysis.

Assumptions: the samples are a sequence without repetition, and not empty; `Raw`,
what a sensor logs besides its alerts, is no rule.

Instance: a benign and an attack sample, two rules, two runs, two edits.

### Metrics

`Compute` is `build_metrics` and `build_report`: rows of counts per rule,
interval requests, technique coverage; `WriteJson` and `WriteReport` are the
two files; `Develop` removes a rule, a label or a technique. The rules it removes are
ones that no correlation refers to: a correlation without its rule makes the
loading of the rules raise before anything is counted, which is not modelled.

* `LabelsAccounted`: totals are the rows plus the labels of rules that are gone
  (a label names its rule by path), and every negative is judged by each rule.
* `RatesDefined`: an interval over zero trials is requested only when there is no
  benign event at all (`wilson_interval` raises), and the coverage divides by zero
  only for an empty catalogue. Nothing else makes a run end without a result.
* `ReportsCurrent`: a run that ends well leaves two files of its own tree.

`Total` adds up a number for each rule: it counts the pairs of a rule and one of
the numbers up to its own, which needs no recursion. Assumption: rules,
labels and techniques are finitely many, and a path names one rule.

Instance: four rules, six labels of all kinds, every pattern of matches, two
runs and two edits.

### Offline, MCOffline

`Offline` puts the six programs that work on files into one model, `MCOffline`
gives it its instances. Their behaviours are finite and no property of them is
about progress, so no fairness is assumed. `TypeOK` is the type invariants of
the six, and each conjunction of properties (`AlertsExact`, `VerdictSound`,
`EvidenceOfThisRun`, `ReportsTrue`, `CollectorHonest`, `MoreKnownIsQuieter`) the
properties above.

## 4. Runs

| Run | What it shows |
|---|---|
| `rate_limiter` | deques within their limit, deserved refusals and the refinement of `Quota` |
| `rate_limiter_window` | refutes the exact sliding window |
| `ingest` | conservation, attribution, validated triage, both quotas in composition |
| `correlation` | verdicts agree with the definition |
| `correlation_exact` | refutes exactness for upper-bound and equality conditions |
| `conversion_order` | order and completeness, exact refusal, termination |
| `deploy` | exact bundle, honest check, repair |
| `deploy_subquery` | refutes that every subquery is a query |
| `decoder` | no panic, consecutive frames, honest exit status, termination |
| `decoder_json` | refutes that every event line is JSON |
| `live` | the smoke test, the lab check and the emulation runner give verdicts and evidence they earned, beside a stack or lab with its own timing, and end unless a subprocess never returns |
| `offline` | the collector, baseline, policy, matcher, evidence checks and metrics are exact, and their files and exit statuses say what is so |

Each property of a passing run has a mutant: a plausible slip in the code
(`...` beside the definition it replaces, introduced by "A slip:") under which
TLC finds the property violated. Deadlock is checked except where the modelled
program ends (a function returns, a process exits).

Fairness is assumed in three runs. In `conversion_order` and `decoder` it is
weak fairness of the whole next-state relation: each is a single sequential
computation with nothing to wait for. In `live` it is weak fairness of the
program's own steps, of deliveries under way and of time. The code's own waits
have a deadline and its requests a timeout or an error; calls of `docker compose`
and the commands of a plan have no limit, and are not fair. The other runs state
safety properties and need none.

Named bounds: `MaxTime` on the clock, `MaxEvents` on an event sequence,
`MaxEdits` on edits, `MaxLine` and `MaxLines` on the decoders' input, `MaxRuns`
on runs of a program, `MaxDelay` and `MaxBusy` on the ticks that an alert and a
command take, `Settles` on the settle times. They appear in the guards of the actions that would otherwise run
for ever, or in `Init`. Two runs are enough for what one run leaves to the next;
a third would find nothing that the second did not, as a run reads only files
and the stack.

## 5. Proofs

All proofs are for every value of the constants that the named assumptions
allow: the window is a natural number and the limit any integer (a limit of
zero or less admits nobody), moments are natural numbers, the collection of
rules is finite and disjoint from the outsiders, widths and line lengths are
natural numbers, the waits and delays of the two Loki checks are natural numbers
in the order section 3 names, those of the emulation runner any natural numbers, the workers, zones, rules, labels and techniques that are counted are finitely
many, the collector's sensors are the four there are, and a Sigma rule is
`WellFormed`. Inputs of the collector and rules and events of the matcher may
be infinitely many, and each of any length.

* `RateLimiterProofs`. The inductive invariant is `TypeOK`, `Ledger`,
  `QuotaHolds` and that a thread's reading is not in the future. `Ledger`
  carries the argument: it ties each deque to the admission history, so
  that what pruning removed is known to have expired for some reading, and
  the admission `Limit` places back is either among the removed or at the
  head of the deque. From it: `TypeCorrect`, `LedgerCorrect`, `QuotaCorrect`,
  `RefusalCorrect` (a full deque after pruning is `Limit` admissions inside
  the window) and `QuotaImplemented` (each step of `RateLimiter` is a step of
  `Quota` or leaves its variables alone).
* `CorrelationProofs`. The invariant says what has been collected so far, that
  the openings still to be scanned are moments of collected events, and that
  the openings already scanned do not fire. `AnchoredScan` is the heart of
  `QuietCorrect`: if a window reaches the threshold, so does the window that
  opens at its earliest event, as it holds at least the same events
  (`TallyMonotone`). That is exactly what fails for an upper bound.
* `ConversionOrderProofs`. The invariant says that placed, ordered and pending
  are one partition, listed without repetition, references first; `OrderValid`
  gives `ValidOrder`.
  `OrderedIsNotStuck` shows that a complete order leaves no stuck set: of its
  members, the first to be placed would have waited for another. `StepsBounded`
  counts down: twice the rules still to place, plus the turn of the loop, is
  less after each step. `NeverWaits`: until it ends there is something to do.
* `DecoderProofs`. The invariant adds to `TypeOK`, `NeverPanics` and
  `BlocksFillFrame` where the cursor of each parser may be and what is left
  of its buffer (`InFrame`), and that the frames of a line end at its offset
  (`OfLine`). `OneBlockLess` is the arithmetic of a DNP3 block: one block off
  the user data is one CRC off the frame. `PanicFree` is the result for all
  widths and line lengths; `StreamImplemented` the refinement. `WorkShrinks` says
  that each step leaves less of `Work` (lines, octets of the line, parts of the
  frame, ordered as in a dictionary), and that this order has no infinite
  descent (`DescentEnds`); it rests on no frame being empty.
* `IngestProofs`. `RateLimiterProofs` is instantiated for each endpoint, with the
  workers as threads, so that both limiters' invariants and refinements hold in
  the service. The invariant adds `Linked` (a worker inside `allow` serves a
  request of that endpoint, for that client) and `Staged` (what a request has
  behind it at each stage). `ConservedCorrect` counts the requests inside: an
  admission adds one to them, an answer moves one from there to `charged`
  (`InsideEntered`, `InsideLeft`). Also `TypeCorrect`, `ValidatedCorrect`,
  `ChargedCorrect` and `QuotasImplemented`.
* `DeployProofs`. `Loading` says that the collection a target is converted from
  is its own copy of the rules, closed under references and without results
  another target cached; `Progress` that bundle, manifest and unsupported list
  are exact for the rules nobody touched since the run started, for the targets
  the build is through with; `Writing` ties each written file to the bundle. From
  them: `TypeCorrect`, `UntouchedCorrect`, `UpToDateCorrect` and `RerunCorrect`.
  A crash needs no argument of its own: `Reset` says that a process that is
  not running remembers nothing, and nothing is assumed of the tree it left.
* `LiveProofs`. For the smoke test, `LokiPhases` says which cause an alert under
  way or on file can have in each phase, and that the benign wait outlasts every
  alert of the benign push (`InTime`); `LokiWait` that the attack wait outlasts
  those of the attack push; `LokiConclusions` what the run has concluded from
  them, `LokiVerdicts` what its verdict and the summary on file stand for, and
  `LokiFiles` how the two files stand to each other and to the run, in each phase
  of the writing and after a kill. For the lab check, `LabPlaces` bounds the age
  of a line by the range of the rules plus the time since they were seen firing
  together; `LabFiring`, `LabVerdict` and `LabEvidence` carry the answer of the
  ruler to the summary and to the verdict. For the emulation runner, `EmuTimes`
  bounds the moments of alerts by the end of the command and the delay;
  `EmuCauses` says whose an alert of the step's window can be, where `Stale` names
  the signals that an earlier run or, after a short settle time, an earlier step
  may have raised; `EmuRecord` that
  each observation is faithful (`Faithful`) to what its step raised; `EmuResults`
  and `EmuFiles` what is evaluated and on file while the three files are written.
  From them `TypeCorrect`, `VerdictCorrect`, `EvidenceCorrect`, `FiringCorrect`,
  `SamplesCorrect`, `DetectionCorrect` and `ReplayCorrect`. The earliest alert of
  a step exists because moments are natural numbers.
* `OfflineProofs`. `BaseLearned`: the file is what `build` makes of the events it
  was learned from. `ConReport`: a report is one of the policy as it stands.
  `EvAnalyses`, `EvAnalysed` and `EvRead` follow a capture through the
  statements of a check, from the log an earlier run left to the summary, where
  `Grown` says what a log holds besides the analysis of this run if it could not
  be removed;
  `EvVerdict` says what a verdict stands for until an edit. `MetricsOfTree`: what
  a run has computed is of the tree it ends in. `TelRead`: what a run of the
  collector has read is what its first `at` records stand for, and a run that
  reports has printed all of the input or has it at the end of every stream.
  `Judged`: a verdict is `Verdict` of the rule and the event. From them
  `TypeCorrect`, `AlertsCorrect`, `GreenCorrect`, `EvidenceCorrect`,
  `ReportsCorrect`, `QuieterCorrect`, `CollectorCorrect` and
  `VerdictCorrect`. The lemmas that carry them: `AlertsMonotone`, `LongerPolicy`
  (the first declaration of a pair stays the first when one is appended),
  `SameZone` (where zones do not overlap, the first zone that holds an address
  is the only one) and `SumOfParts` (the sum of the sizes of parts that do not
  overlap is the size of the whole).

  `CollectorCorrect` needs to know what `FlattenSeq` does with one more
  part (`FlattenMore`), and `VerdictCorrect` what `Eval` and `Worth` are at each
  node. All three are recursive functions, so first it is shown that a function
  that satisfies their equation exists (`FlattenExists`, `EvaluatesExists`),
  which for a rule rests on arguments standing before their node. Then
  `EvalSound` goes through the nodes in that order: where the lazy result is
  "true" or "false", the strict three-valued one is exactly that (`NodeSound`,
  with `LazilyFacts` for the first result that decides and `ConjFacts` for the
  other side), and an error comes from a leaf. `EvalQuiet` goes the same way for
  a rule that asks for no absence.

Only model-checked: `Terminates` of `ConversionOrder` and `Decoder`, and
`EveryRunEnds` of `Live`, since the proof system has no rules for fairness. The
part of the first two that is about single steps is proved (`StepsBounded`,
`NeverWaits`, `WorkShrinks`): these programs do not run for ever. That they take
the next step is the fairness, and that a decoder always has one before its end
is only checked. The refuted properties of section 4 are, of course, not
theorems.

The library's induction theorems take an operator as a parameter, which the
provers cannot instantiate. `UpTo` stands in for them: what is said of a number
is membership in a set, and the least number outside the set, which exists
because the order of the naturals is well founded, contradicts the step. It is
enough for functions that are defined along positions, as those of `Matcher` and
`Telemetry` are; no proof uses a recursive operator.

## 6. What is not modelled

* Formatting, regular expressions, YAML, the text of queries, and pySigma
  itself. Its caching of results on rule objects is modelled, as `deploy.py`
  depends on it.
* The values of decoded fields. `Decoder` knows which octets are read, not
  what they mean, so a DNP3 control code taken from behind a range the
  qualifier did not announce is outside it.
* Two rule files with the same stem: the repository's tests forbid them.
* Growth of `_hits` over unboundedly many clients.
* Memory reordering: the service is threads under the interpreter's lock, and
  the limiter's state is behind its own lock.
* Schema validation and the API-key comparison are their outcomes.
* Texts: what a pattern, a network or a regular expression matches is given, and
  so are the fields a sensor's record is made of.
* Response headers of the ingest service (see section 3).
* A single analysis that dies in the middle of its log inside Malcolm's container,
  while the container goes on: an analysis leaves a log or none. A container that
  dies is modelled (`Interrupted`).
* The removal of a rule that a correlation refers to, before the metrics run.
* Verdicts of the behaviour rules on incomplete events (an empty address) are in
  the model, but no property says what they should be.
* A stack that takes longer than the 20 s of the benign phase (see LokiCheck).
* Rule discovery (`otde/rules.py`, `otde/suricata.py`) and the field mapping of
  `loki_pipeline.py`: stateless text processing. The expected tables of
  `otde/evidence.py` are the constants and variables `Expected`, `Rules` and
  `expected`. `convert.py`'s own command line is a loop over what
  `ConversionOrder` and `Deploy` model.
* In `Metrics`, floating-point values, the layout of Markdown, `security_coverage.py`, and the
  fixture and YARA tables, which are counted like the rows that are modelled.
* Generators of captures, samples and catalogues, and the demonstration:
  straight-line code.
