------------------------------ MODULE LiveProofs ------------------------------
(***************************************************************************)
(* Proofs about the programs that drive a live system, for any rules,      *)
(* streams, plans, waits and delays that the assumptions of the three      *)
(* components allow.                                                       *)
(***************************************************************************)
EXTENDS Live, Integers, FiniteSets, Sequences, WellFoundedInduction, TLAPS

-----------------------------------------------------------------------------
(* lab_loki_check.py                                                       *)

(* A rule fires on recent lines, and that all of them fire together is     *)
(* noticed when it happens.                                                *)
LabFiring ==
    /\ \A r \in firing: Lab!Recent(StreamOf[r])
    /\ labPc # "idle" /\ firing = LabRules => together

(* What the check has seen and asked for at each place, and how old a line *)
(* can have become since the rules were seen firing together.              *)
LabPlaces ==
    /\ labPc \in {"idle", "poll", "nap"} => asked = {}
    /\ labPc = "idle" => seen = {} /\ labTimer = 0
    /\ labPc = "nap" => labTimer < Wait
    /\ labPc \in {"write", "write2"} => asked = Streams
    /\ labPc \in {"sample", "write", "write2"} /\ seen = LabRules => together
    /\ labPc = "sample" /\ seen = LabRules =>
         \A s \in Streams: s \in fresh \/ age[s] <= Lookback + labTimer

(* A run under way has no result yet.                                      *)
LabVerdict == labPc # "idle" => labResult = "none"

(* The summary on file stands for what the run had in memory.              *)
LabEvidence ==
    /\ DOMAIN labFiles = {"summary", "events"}
    /\ labPc = "write2" => labFiles.summary.streams = samples
    /\ Lab!FiringTogether
    /\ Lab!FilesAgree

LabInv == Lab!TypeOK /\ LabFiring /\ LabPlaces /\ LabVerdict /\ LabEvidence

(* What lab_loki_check.py is assumed to satisfy.                           *)
LEMMA LabConstants ==
    /\ Wait \in Nat /\ Lookback \in Nat /\ Window \in Nat /\ MaxRuns \in Nat
    /\ \A r \in LabRules: StreamOf[r] \in Streams
    /\ \A s \in Streams: \E r \in LabRules: StreamOf[r] = s
    /\ Lookback + Wait < Window
BY LabHolds DEF Lab!LabAssumption

LEMMA LabInit == Lab!Init => LabInv
<1> SUFFICES ASSUME Lab!Init PROVE LabInv
  OBVIOUS
<1>1. Lab!TypeOK
  BY LabConstants DEF Lab!Init, Lab!TypeOK
<1>2. LabFiring
  BY DEF Lab!Init, LabFiring, Lab!Recent
<1>3. LabPlaces
  BY DEF Lab!Init, LabPlaces
<1>4. LabVerdict /\ LabEvidence
  BY DEF Lab!Init, LabVerdict, LabEvidence, Lab!FiringTogether, Lab!FilesAgree
<1> QED
  BY <1>1, <1>2, <1>3, <1>4 DEF LabInv

LEMMA LabTypeNext == LabInv /\ Lab!Next => Lab!TypeOK'
<1> SUFFICES ASSUME LabInv, Lab!Next PROVE Lab!TypeOK'
  OBVIOUS
<1>0. /\ Lab!TypeOK /\ LabPlaces
      /\ Wait \in Nat /\ Lookback \in Nat /\ Window \in Nat /\ MaxRuns \in Nat
  BY LabConstants DEF LabInv
<1>1. CASE Lab!Start
  BY <1>0, <1>1 DEF Lab!Start, Lab!TypeOK, Lab!labVars
<1>2. CASE Lab!GetFails \/ Lab!Kill
  BY <1>0, <1>2 DEF Lab!GetFails, Lab!Kill, Lab!Exit, Lab!TypeOK, Lab!labVars
<1>3. CASE Lab!Poll
  BY <1>0, <1>3 DEF Lab!Poll, Lab!TypeOK, Lab!labVars
<1>4. CASE \E s \in Streams: Lab!Sample(s)
  BY <1>0, <1>4 DEF Lab!Sample, Lab!TypeOK, Lab!labVars
<1>5. CASE Lab!WriteSummary \/ Lab!WriteEvents
  BY <1>0, <1>5 DEF Lab!WriteSummary, Lab!WriteEvents, Lab!Exit, Lab!TypeOK, Lab!labVars
<1>6. CASE \E s \in Streams: Lab!Traffic(s)
  BY <1>0, <1>6 DEF Lab!Traffic, Lab!TypeOK
<1>7. CASE \E r \in LabRules: Lab!Evaluate(r)
  BY <1>0, <1>7 DEF Lab!Evaluate, Lab!TypeOK
<1>8. CASE Lab!Tick
  BY <1>0, <1>8 DEF Lab!Tick, Lab!TypeOK, LabPlaces
<1> QED
  BY <1>1, <1>2, <1>3, <1>4, <1>5, <1>6, <1>7, <1>8 DEF Lab!Next, Lab!Check, Lab!Lab

LEMMA LabFiringNext == LabInv /\ Lab!Next => LabFiring'
<1> SUFFICES ASSUME LabInv, Lab!Next PROVE LabFiring'
  OBVIOUS
<1> USE DEF Lab!Recent
<1>0. /\ Lab!TypeOK /\ LabFiring
      /\ Lookback \in Nat /\ \A r \in LabRules: StreamOf[r] \in Streams
  BY LabConstants DEF LabInv
<1>1. CASE Lab!Start
  BY <1>0, <1>1 DEF Lab!Start, LabFiring, Lab!labVars
<1>2. CASE Lab!GetFails \/ Lab!Kill
  BY <1>0, <1>2 DEF Lab!GetFails, Lab!Kill, Lab!Exit, LabFiring, Lab!labVars
<1>3. CASE Lab!Poll
  BY <1>0, <1>3 DEF Lab!Poll, LabFiring, Lab!labVars
<1>4. CASE \E s \in Streams: Lab!Sample(s)
  BY <1>0, <1>4 DEF Lab!Sample, LabFiring, Lab!labVars
<1>5. CASE Lab!WriteSummary \/ Lab!WriteEvents
  BY <1>0, <1>5 DEF Lab!WriteSummary, Lab!WriteEvents, Lab!Exit, LabFiring, Lab!labVars
<1>6. CASE \E s \in Streams: Lab!Traffic(s)
  BY <1>0, <1>6 DEF Lab!Traffic, LabFiring
<1>7. CASE \E r \in LabRules: Lab!Evaluate(r)
  BY <1>0, <1>7 DEF Lab!Evaluate, LabFiring
<1>8. CASE Lab!Tick
  BY <1>0, <1>8 DEF Lab!Tick, LabFiring, Lab!TypeOK
<1> QED
  BY <1>1, <1>2, <1>3, <1>4, <1>5, <1>6, <1>7, <1>8 DEF Lab!Next, Lab!Check, Lab!Lab

(* A tick ages each line by one at most, and new lines are one tick old.   *)
LEMMA LabPlacesNext == LabInv /\ Lab!Next => LabPlaces'
<1> SUFFICES ASSUME LabInv, Lab!Next PROVE LabPlaces'
  OBVIOUS
<1>0. /\ Lab!TypeOK /\ LabFiring /\ LabPlaces
      /\ Wait \in Nat /\ Lookback \in Nat /\ Window \in Nat
      /\ \A r \in LabRules: StreamOf[r] \in Streams
      /\ \A s \in Streams: \E r \in LabRules: StreamOf[r] = s
      /\ Lookback + Wait < Window
  BY LabConstants DEF LabInv
<1>1. CASE Lab!Start
  BY <1>0, <1>1 DEF Lab!Start, LabPlaces, Lab!labVars
<1>2. CASE Lab!GetFails \/ Lab!Kill
  BY <1>0, <1>2 DEF Lab!GetFails, Lab!Kill, Lab!Exit, LabPlaces, Lab!labVars
<1>3. CASE Lab!Poll
  <2>1. firing = LabRules => \A s \in Streams: s \in fresh \/ age[s] <= Lookback
    BY <1>0 DEF LabFiring, Lab!Recent
  <2>2. age \in [Streams -> Nat] /\ labTimer \in Nat
    BY <1>0 DEF Lab!TypeOK
  <2> QED
    BY <1>0, <1>3, <2>1, <2>2 DEF Lab!Poll, LabPlaces, LabFiring, Lab!labVars
<1>4. CASE \E s \in Streams: Lab!Sample(s)
  BY <1>0, <1>4 DEF Lab!Sample, LabPlaces, Lab!labVars
<1>5. CASE Lab!WriteSummary \/ Lab!WriteEvents
  BY <1>0, <1>5 DEF Lab!WriteSummary, Lab!WriteEvents, Lab!Exit, LabPlaces, Lab!labVars
<1>6. CASE \E s \in Streams: Lab!Traffic(s)
  BY <1>0, <1>6 DEF Lab!Traffic, LabPlaces
<1>7. CASE \E r \in LabRules: Lab!Evaluate(r)
  BY <1>0, <1>7 DEF Lab!Evaluate, LabPlaces
<1>8. CASE Lab!Tick
  <2>1. \A s \in Streams: /\ age[s] \in Nat /\ age'[s] \in Nat
                           /\ age'[s] <= IF s \in fresh THEN 1 ELSE age[s] + 1
    BY <1>0, <1>8 DEF Lab!Tick, Lab!TypeOK
  <2>2. labTimer \in Nat /\ labTimer' = labTimer + 1
    BY <1>0, <1>8 DEF Lab!Tick, Lab!TypeOK
  <2> QED
    BY <1>0, <1>8, <2>1, <2>2 DEF Lab!Tick, LabPlaces
<1> QED
  BY <1>1, <1>2, <1>3, <1>4, <1>5, <1>6, <1>7, <1>8 DEF Lab!Next, Lab!Check, Lab!Lab

LEMMA LabVerdictNext == LabInv /\ Lab!Next => LabVerdict'
<1> SUFFICES ASSUME LabVerdict, Lab!Next PROVE LabVerdict'
  BY DEF LabInv
<1>1. CASE Lab!Start \/ Lab!Poll \/ (\E s \in Streams: Lab!Sample(s)) \/ Lab!WriteSummary
  BY <1>1 DEF Lab!Start, Lab!Poll, Lab!Sample, Lab!WriteSummary, LabVerdict
<1>2. CASE Lab!GetFails \/ Lab!Kill \/ Lab!WriteEvents
  BY <1>2 DEF Lab!GetFails, Lab!Kill, Lab!WriteEvents, Lab!Exit, LabVerdict
<1>3. CASE (\E s \in Streams: Lab!Traffic(s)) \/ (\E r \in LabRules: Lab!Evaluate(r)) \/ Lab!Tick
  BY <1>3 DEF Lab!Traffic, Lab!Evaluate, Lab!Tick, LabVerdict
<1> QED
  BY <1>1, <1>2, <1>3 DEF Lab!Next, Lab!Check, Lab!Lab

LEMMA LabEvidenceNext == LabInv /\ Lab!Next => LabEvidence'
<1> SUFFICES ASSUME LabInv, Lab!Next PROVE LabEvidence'
  OBVIOUS
<1>0. LabPlaces /\ LabVerdict /\ LabEvidence
  BY DEF LabInv
<1> USE DEF LabEvidence, Lab!FiringTogether, Lab!FilesAgree
<1>1. CASE Lab!Start
  BY <1>0, <1>1 DEF Lab!Start, Lab!labVars
<1>2. CASE Lab!GetFails
  BY <1>0, <1>2 DEF Lab!GetFails, Lab!Exit, Lab!labVars
<1>3. CASE Lab!Poll
  BY <1>0, <1>3 DEF Lab!Poll, LabVerdict, Lab!labVars
<1>4. CASE \E s \in Streams: Lab!Sample(s)
  BY <1>0, <1>4 DEF Lab!Sample, LabVerdict, Lab!labVars
<1>5. CASE Lab!WriteSummary
  BY <1>0, <1>5 DEF Lab!WriteSummary, LabPlaces, LabVerdict
<1>6. CASE Lab!WriteEvents
  BY <1>0, <1>6 DEF Lab!WriteEvents, Lab!Exit
<1>7. CASE (\E s \in Streams: Lab!Traffic(s)) \/ (\E r \in LabRules: Lab!Evaluate(r)) \/ Lab!Tick
  BY <1>0, <1>7 DEF Lab!Traffic, Lab!Evaluate, Lab!Tick, LabVerdict
<1>8. CASE Lab!Kill
  <2>1. labFiles' = [labFiles EXCEPT !.summary = None] \/ labFiles' = [labFiles EXCEPT !.events = None]
          \/ labFiles' = labFiles
    BY <1>8 DEF Lab!Kill
  <2> QED
    BY <1>0, <1>8, <2>1 DEF Lab!Kill, Lab!Exit
<1> QED
  BY <1>1, <1>2, <1>3, <1>4, <1>5, <1>6, <1>7, <1>8 DEF Lab!Next, Lab!Check, Lab!Lab

LEMMA LabNext == LabInv /\ [Lab!Next]_labVars => LabInv'
<1>1. LabInv /\ Lab!Next => LabInv'
  BY LabTypeNext, LabFiringNext, LabPlacesNext, LabVerdictNext, LabEvidenceNext DEF LabInv
<1>2. LabInv /\ UNCHANGED labVars => LabInv'
  <2> SUFFICES ASSUME LabInv, UNCHANGED labVars PROVE LabInv'
    OBVIOUS
  <2>1. Lab!TypeOK' /\ LabVerdict'
    BY DEF LabInv, LabVerdict, labVars, Lab!TypeOK
  <2>2. LabFiring' /\ LabPlaces'
    BY DEF LabInv, LabFiring, LabPlaces, labVars, Lab!Recent
  <2>3. LabEvidence'
    BY DEF LabInv, LabEvidence, labVars, Lab!FiringTogether, Lab!FilesAgree
  <2> QED
    BY <2>1, <2>2, <2>3 DEF LabInv
<1> QED
  BY <1>1, <1>2

-----------------------------------------------------------------------------
(* loki_check.py                                                           *)

Before == {"up", "wait", "clear", "benign", "sleep", "clear2", "attack"}
Judged == {"clear2", "attack", "poll", "nap", "collect", "write", "write2"}

Flying == {f.rule: f \in inflight}
Under(cause) == received \cup Flying \subseteq cause
InTime == \A f \in inflight: f.left + timer <= LokiDelay

(* The places of run() and the locals that have not been assigned yet.     *)
LokiPlaces ==
    /\ pc \in Loki!InTry \ {"up"} => up
    /\ pc \in Loki!InTry => failed = FALSE
    /\ pc \in Before => observed = {}
    /\ pc = "up" => ready = 0
    /\ pc = "wait" => ready < 3
    /\ pc # "idle" => result = "none" /\ verified = "none"
    /\ pc # "idle" => runs > 0
    /\ DOMAIN files = {"alerts", "summary"}

(* The causes that an alert under way or on file can have in each phase,   *)
(* and when the alerts of a push are on file.                              *)
LokiPhases ==
    /\ pc = "sleep" => InTime /\ fired["benign"] \subseteq received \cup Flying
    /\ pc \in {"up", "wait", "clear", "benign"} => Under(fired["leftover"])
    /\ pc = "sleep" => Under(fired["leftover"] \cup fired["benign"])
    /\ pc \in {"clear2", "attack"} => inflight = {}
    /\ pc = "attack" => received = {}
    /\ pc \in {"poll", "nap", "collect"} =>
         /\ InTime /\ Under(fired["attack"])
         /\ fired["attack"] \subseteq received \cup Flying
         /\ observed \subseteq received

(* The attack wait outlasts every alert: from then on nothing is missed.   *)
LokiWait ==
    /\ pc = "nap" => timer < AttackWait
    /\ pc = "nap" /\ timer > LokiDelay => fired["attack"] \subseteq observed
    /\ pc = "poll" /\ timer > LokiDelay + 1 => fired["attack"] \subseteq observed

(* What the run has concluded of the two pushes.                           *)
Concluded == pc \in Judged \/ (pc = "down" /\ ~failed)
Closed == pc \in {"write", "write2"} \/ (pc = "down" /\ ~failed)
LokiConclusions ==
    /\ Concluded => /\ Expected \cap fired["benign"] \subseteq false_positives
                    /\ false_positives \subseteq fired["leftover"] \cup fired["benign"]
    /\ (pc = "collect" \/ Closed) /\ Expected \subseteq fired["attack"] => Expected \subseteq observed
    /\ Closed => observed \subseteq fired["attack"] /\ observed \subseteq alerts
    /\ pc = "write2" => files.alerts = [run |-> runs, names |-> alerts]

(* The verdicts and the evidence.                                          *)
LokiVerdicts ==
    /\ Loki!PassIsEarned
    /\ Loki!NoFalseAlarm
    /\ files.summary # None /\ Loki!Accepted(files.summary) => Loki!Earned(files.summary.fired)
    /\ Loki!EvidenceEarned

(* Whose files they are: until a run ends, the summary is of an earlier    *)
(* one.                                                                    *)
LokiFiles ==
    /\ files.summary # None => files.summary.run <= runs /\ (pc # "idle" => files.summary.run < runs)
    /\ Loki!EvidenceOfOneRun

LokiInv ==
    Loki!TypeOK /\ LokiPlaces /\ LokiPhases /\ LokiWait /\ LokiConclusions /\ LokiVerdicts /\ LokiFiles

(* What loki_check.py is assumed to satisfy.                               *)
LEMMA LokiConstants ==
    /\ Expected \subseteq LokiRules
    /\ ReadyWait \in Nat /\ BenignWait \in Nat /\ AttackWait \in Nat /\ LokiDelay \in Nat /\ MaxRuns \in Nat
    /\ LokiDelay < BenignWait /\ BenignWait < AttackWait /\ ReadyWait < AttackWait
    /\ None \notin Loki!Summaries /\ None \notin Loki!AlertFiles
BY LokiHolds DEF Loki!LokiAssumption

(* The type invariant in two parts, the check's and the stack's.           *)
Flight == [rule: LokiRules, cause: Loki!Causes, left: 0..LokiDelay, appending: BOOLEAN]

CheckTyped ==
    /\ pc \in Loki!InTry \cup {"idle", "down", "write", "write2"}
    /\ failed \in BOOLEAN /\ timer \in 0..AttackWait /\ ready \in 0..3
    /\ false_positives \subseteq Expected /\ observed \subseteq LokiRules /\ alerts \subseteq LokiRules
    /\ files.alerts \in {None} \cup Loki!AlertFiles
    /\ files.summary \in {None} \cup Loki!Summaries
    /\ result \in Loki!Statuses \cup {"killed"} /\ verified \in Loki!Statuses
    /\ runs \in 0..MaxRuns

StackTyped ==
    /\ up \in BOOLEAN /\ inflight \subseteq Flight /\ (~up => inflight = {})
    /\ received \subseteq LokiRules /\ fired \in [Loki!Causes -> SUBSET LokiRules]

LEMMA LokiTypes == Loki!TypeOK <=> CheckTyped /\ StackTyped
BY DEF Loki!TypeOK, CheckTyped, StackTyped, Flight

(* How a push, the webhook and time change what is under way.              *)
(* The alerts that a push puts under way.                                  *)
LEMMA FlightsFacts ==
    ASSUME NEW cause \in Loki!Causes, NEW names \in SUBSET LokiRules
    PROVE  /\ Loki!Flights(names, cause) \subseteq Flight
           /\ \A f \in Loki!Flights(names, cause): f.rule \in names /\ f.left = LokiDelay
           /\ \A n \in names: \E f \in Loki!Flights(names, cause): f.rule = n
<1>1. \A n \in names: [rule |-> n, cause |-> cause, left |-> LokiDelay, appending |-> FALSE]
                        \in Loki!Flights(names, cause)
  BY DEF Loki!Flights
<1>2. \A f \in Loki!Flights(names, cause): f.rule \in names /\ f.left = LokiDelay
  BY DEF Loki!Flights
<1>3. Loki!Flights(names, cause) \subseteq Flight
  <2> SUFFICES ASSUME NEW f \in Loki!Flights(names, cause) PROVE f \in Flight
    OBVIOUS
  <2>1. f \in [rule: names, cause: {cause}, left: {LokiDelay}, appending: {FALSE}]
    BY DEF Loki!Flights
  <2>2. LokiDelay \in 0..LokiDelay
    BY LokiConstants
  <2> QED
    BY <2>1, <2>2 DEF Flight
<1> QED
  BY <1>1, <1>2, <1>3

LEMMA PushFacts ==
    ASSUME NEW cause \in Loki!Causes, NEW next, Loki!TypeOK, Loki!Push(cause, next)
    PROVE  /\ \E names \in SUBSET LokiRules:
                /\ inflight' = inflight \cup Loki!Flights(names, cause)
                /\ fired' = [fired EXCEPT ![cause] = names]
                /\ Flying' = Flying \cup names
           /\ inflight' \subseteq Flight
           /\ fired' \in [Loki!Causes -> SUBSET LokiRules]
           /\ InTime'
<1>1. PICK names \in SUBSET LokiRules:
        /\ inflight' = inflight \cup Loki!Flights(names, cause)
        /\ fired' = [fired EXCEPT ![cause] = names] /\ timer' = 0
  BY DEF Loki!Push
<1>2. /\ Loki!Flights(names, cause) \subseteq Flight
      /\ \A f \in Loki!Flights(names, cause): f.rule \in names /\ f.left = LokiDelay
      /\ \A n \in names: \E f \in Loki!Flights(names, cause): f.rule = n
  BY FlightsFacts
<1>5. Flying' = Flying \cup names
  <2>1. \A n \in names: \E f \in inflight': f.rule = n
    BY <1>1, <1>2
  <2>2. \A f \in inflight': f \in inflight \/ f.rule \in names
    BY <1>1, <1>2
  <2>3. inflight \subseteq inflight'
    BY <1>1
  <2> QED
    BY <2>1, <2>2, <2>3 DEF Flying
<1>6. \A f \in inflight': f.left \in 0..LokiDelay
  BY <1>1, <1>2, LokiTypes DEF StackTyped, Flight
<1>7. InTime'
  BY <1>1, <1>6, LokiConstants DEF InTime
<1> QED
  BY <1>1, <1>2, <1>5, <1>7, LokiTypes DEF StackTyped

LEMMA StackFacts ==
    ASSUME Loki!TypeOK, Loki!Stack
    PROVE  /\ inflight' \subseteq Flight
           /\ up /\ inflight # {} /\ received \subseteq received' /\ received' \subseteq LokiRules
           /\ received' \cup Flying' = received \cup Flying
           /\ InTime => InTime'
           /\ UNCHANGED <<Loki!checkVars, timer, up, fired>>
<1>1. PICK f \in inflight: Loki!Append(f) \/ Loki!Appended(f)
  BY DEF Loki!Stack
<1>2. f \in Flight
  BY LokiTypes DEF StackTyped
<1>3. CASE Loki!Append(f)
  <2> DEFINE g == [f EXCEPT !.appending = TRUE]
  <2>1. /\ g \in Flight
        /\ g.rule = f.rule /\ g.left = f.left
    BY <1>2 DEF Flight
  <2>2. inflight' = (inflight \ {f}) \cup {g}
    BY <1>3 DEF Loki!Append
  <2>3. Flying' = Flying
    BY <2>1, <2>2 DEF Flying
  <2>4. UNCHANGED <<Loki!checkVars, timer, up, received, fired>> /\ up
    BY <1>3 DEF Loki!Append
  <2>5. InTime => InTime'
    BY <2>1, <2>2, <2>4 DEF InTime
  <2> QED
    BY <2>1, <2>2, <2>3, <2>4, <2>5, LokiTypes DEF StackTyped
<1>4. CASE Loki!Appended(f)
  <2>1. inflight' = inflight \ {f} /\ received' = received \cup {f.rule} /\ up
    BY <1>4 DEF Loki!Appended
  <2>2. UNCHANGED <<Loki!checkVars, timer, up, fired>>
    BY <1>4 DEF Loki!Appended
  <2>3. received' \cup Flying' = received \cup Flying
    BY <2>1 DEF Flying
  <2>4. InTime => InTime'
    BY <2>1, <2>2 DEF InTime
  <2> QED
    BY <1>2, <2>1, <2>2, <2>3, <2>4, LokiTypes DEF StackTyped, Flight
<1> QED
  BY <1>1, <1>3, <1>4

LEMMA TickFacts ==
    ASSUME Loki!TypeOK, Loki!Tick
    PROVE  /\ inflight' \subseteq Flight
           /\ inflight = {} => inflight' = {}
           /\ Flying' = Flying
           /\ InTime => InTime'
           /\ timer \in Nat /\ timer' = IF timer < AttackWait THEN timer + 1 ELSE timer
<1> DEFINE Later(f) == [f EXCEPT !.left = @ - 1]
<1>1. inflight' = {Later(f): f \in inflight}
  BY DEF Loki!Tick
<1>2. /\ \A f \in inflight: f.left > 0
      /\ timer' = IF timer < AttackWait THEN timer + 1 ELSE timer
      /\ timer \in Nat
  BY LokiConstants DEF Loki!Tick, Loki!TypeOK
<1>3. \A f \in inflight:
        /\ f \in Flight
        /\ f.left \in Nat
  BY LokiConstants, LokiTypes DEF StackTyped, Flight
<1>4. \A f \in inflight: Later(f).rule = f.rule /\ Later(f).left = f.left - 1
  BY <1>3 DEF Flight
<1>5. \A f \in inflight:
        Later(f) \in Flight
  <2> SUFFICES ASSUME NEW f \in inflight PROVE Later(f) \in Flight
    OBVIOUS
  <2>1. f.left \in 0..LokiDelay /\ f.left - 1 \in 0..LokiDelay
    BY <1>2, <1>3, LokiConstants DEF Flight
  <2> QED
    BY <1>3, <2>1 DEF Flight
<1>6. Flying' = Flying
  <2> HIDE DEF Later
  <2>1. Flying' = {g.rule: g \in inflight'}
    BY DEF Flying
  <2>2. {g.rule: g \in inflight'} = {f.rule: f \in inflight}
    BY <1>1, <1>4
  <2> QED
    BY <2>1, <2>2 DEF Flying
<1>7. InTime => InTime'
  <2> SUFFICES ASSUME InTime, NEW g \in inflight' PROVE g.left + timer' <= LokiDelay
    BY DEF InTime
  <2>1. PICK f \in inflight: g = Later(f)
    BY <1>1
  <2>2. f.left + timer <= LokiDelay /\ g.left = f.left - 1 /\ f.left \in Nat
    BY <1>3, <1>4, <2>1 DEF InTime
  <2> QED
    BY <1>2, <2>2, LokiConstants
<1> QED
  BY <1>1, <1>2, <1>5, <1>6, <1>7

LEMMA LokiInit == Loki!Init => LokiInv
<1> SUFFICES ASSUME Loki!Init PROVE LokiInv
  OBVIOUS
<1>1. Loki!TypeOK
  <2>1. CheckTyped
    <3>1. 0 \in 0..AttackWait /\ 0 \in 0..3 /\ 0 \in 0..MaxRuns
      BY LokiConstants
    <3> QED
      BY <3>1 DEF Loki!Init, CheckTyped, Loki!Statuses
  <2>2. StackTyped
    BY DEF Loki!Init, StackTyped
  <2> QED
    BY <2>1, <2>2, LokiTypes
<1>2. LokiPlaces /\ LokiPhases /\ LokiWait
  BY DEF Loki!Init, LokiPlaces, LokiPhases, LokiWait, Loki!InTry, Before
<1>3. LokiConclusions /\ LokiVerdicts /\ LokiFiles
  BY DEF Loki!Init, LokiConclusions, Concluded, Closed, Judged, LokiVerdicts, LokiFiles,
         Loki!PassIsEarned, Loki!NoFalseAlarm, Loki!EvidenceEarned, Loki!EvidenceOfOneRun
<1> QED
  BY <1>1, <1>2, <1>3 DEF LokiInv

LEMMA CheckTypedNext == LokiInv /\ Loki!Next => CheckTyped'
<1> SUFFICES ASSUME LokiInv, Loki!Next PROVE CheckTyped'
  OBVIOUS
<1>0. CheckTyped /\ StackTyped /\ LokiPlaces
  BY LokiTypes DEF LokiInv
<1>zero. 0 \in 0..AttackWait /\ 0 \in 0..3
  BY LokiConstants
<1> USE LokiConstants
<1>1. CASE Loki!Start
  <2>1. runs' \in 0..MaxRuns
    BY <1>0, <1>1 DEF Loki!Start, CheckTyped
  <2>2. UNCHANGED files /\ pc' = "up" /\ failed' = FALSE /\ ready' = 0 /\ timer' = 0
        /\ false_positives' = {} /\ observed' = {} /\ alerts' = {} /\ result' = "none" /\ verified' = "none"
    BY <1>1 DEF Loki!Start
  <2> QED
    BY <1>0, <1>zero, <2>1, <2>2 DEF CheckTyped, Loki!InTry, Loki!Statuses
<1>2. CASE Loki!ComposeUp
  BY <1>0, <1>2, <1>zero DEF Loki!ComposeUp, Loki!Goto, Loki!Raise, CheckTyped, Loki!InTry
<1>3. CASE Loki!WaitFor
  <2>1. CASE ready' = ready + 1 /\ timer' = 0
    <3>1. ready' \in 0..3
      BY <1>0, <1>3, <2>1 DEF Loki!WaitFor, CheckTyped, LokiPlaces
    <3> QED
      BY <1>0, <1>zero, <1>3, <2>1, <3>1 DEF Loki!WaitFor, Loki!Goto, Loki!Raise, CheckTyped,
         Loki!InTry
  <2>2. CASE Loki!Raise /\ UNCHANGED <<ready, timer>>
    BY <1>0, <1>3, <2>2 DEF Loki!WaitFor, Loki!Raise, CheckTyped, Loki!InTry
  <2> QED
    BY <1>3, <2>1, <2>2 DEF Loki!WaitFor
<1>4. CASE Loki!Clear
  BY <1>0, <1>4 DEF Loki!Clear, Loki!Goto, Loki!Raise, CheckTyped, Loki!InTry
<1>5. CASE Loki!Push("benign", "sleep")
  BY <1>0, <1>5, <1>zero DEF Loki!Push, Loki!Goto, Loki!Raise, CheckTyped, Loki!InTry
<1>6. CASE Loki!BenignVerdict
  BY <1>0, <1>6 DEF Loki!BenignVerdict, Loki!Goto, Loki!Raise, CheckTyped, Loki!InTry, StackTyped
<1>7. CASE Loki!Push("attack", "poll")
  BY <1>0, <1>7, <1>zero DEF Loki!Push, Loki!Goto, Loki!Raise, CheckTyped, Loki!InTry
<1>8. CASE Loki!Poll
  BY <1>0, <1>8 DEF Loki!Poll, Loki!Goto, Loki!Raise, CheckTyped, Loki!InTry, StackTyped
<1>9. CASE Loki!Deadline
  BY <1>0, <1>9 DEF Loki!Deadline, Loki!Goto, Loki!Raise, CheckTyped, Loki!InTry
<1>10. CASE Loki!Collect
  BY <1>0, <1>10 DEF Loki!Collect, Loki!Goto, Loki!Raise, CheckTyped, Loki!InTry, StackTyped
<1>11. CASE Loki!ComposeDown
  BY <1>0, <1>11 DEF Loki!ComposeDown, CheckTyped, Loki!Statuses
<1>12. CASE Loki!WriteAlerts
  <2>1. [run |-> runs, names |-> alerts] \in Loki!AlertFiles
    BY <1>0, <1>12 DEF Loki!WriteAlerts, Loki!AlertFiles, CheckTyped, LokiPlaces
  <2> QED
    BY <1>0, <1>12, <2>1 DEF Loki!WriteAlerts, CheckTyped, LokiPlaces
<1>13. CASE Loki!WriteSummary
  <2>1. Loki!Summary \in Loki!Summaries
    <3>1. runs \in 1..MaxRuns
      BY <1>0, <1>13 DEF Loki!WriteSummary, CheckTyped, LokiPlaces
    <3> QED
      BY <1>0, <3>1 DEF Loki!Summary, Loki!Summaries, CheckTyped, StackTyped
  <2> QED
    BY <1>0, <1>13, <2>1 DEF Loki!WriteSummary, CheckTyped, Loki!Statuses, LokiPlaces
<1>14. CASE Loki!Stack
  <2>1. UNCHANGED <<Loki!checkVars, timer>>
    BY <1>0, <1>14, StackFacts, LokiTypes
  <2> QED
    BY <1>0, <2>1 DEF Loki!checkVars, CheckTyped
<1>15. CASE Loki!Tick
  BY <1>0, <1>15 DEF Loki!Tick, CheckTyped, Loki!InTry
<1>16. CASE Loki!Kill
  <2>1. files' = [files EXCEPT !.alerts = None] \/ files' = [files EXCEPT !.summary = None] \/ files' = files
    BY <1>16 DEF Loki!Kill
  <2> QED
    BY <1>0, <1>16, <2>1 DEF Loki!Kill, CheckTyped, LokiPlaces
<1>17. CASE Loki!NoDocker
  BY <1>0, <1>17 DEF Loki!NoDocker, CheckTyped, Loki!Statuses
<1> QED
  BY <1>1, <1>2, <1>3, <1>4, <1>5, <1>6, <1>7, <1>8, <1>9, <1>10, <1>11, <1>12, <1>13, <1>14,
     <1>15, <1>16, <1>17 DEF Loki!Next, Loki!Check, Loki!Docker

LEMMA StackTypedNext == LokiInv /\ Loki!Next => StackTyped'
<1> SUFFICES ASSUME LokiInv, Loki!Next PROVE StackTyped'
  OBVIOUS
<1>0. CheckTyped /\ StackTyped /\ LokiPlaces
  BY LokiTypes DEF LokiInv
<1>zero. 0 \in 0..AttackWait /\ 0 \in 0..3
  BY LokiConstants
<1> USE LokiConstants
<1>1. CASE Loki!Start
  <2>1. PICK names \in SUBSET LokiRules:
          /\ up \/ names = {}
          /\ inflight' = Loki!Flights(names, "leftover")
          /\ fired' = [c \in Loki!Causes |-> IF c = "leftover" THEN names ELSE {}]
    BY <1>1 DEF Loki!Start
  <2>2. inflight' \subseteq Flight /\ (up \/ inflight' = {})
    BY <2>1, FlightsFacts DEF Loki!Causes
  <2>3. fired' \in [Loki!Causes -> SUBSET LokiRules]
    BY <2>1
  <2> QED
    BY <1>0, <1>1, <2>2, <2>3 DEF Loki!Start, StackTyped
<1>2. CASE Loki!ComposeUp
  <2>1. up' \in BOOLEAN /\ (~up' => ~up) /\ UNCHANGED <<inflight, received, fired>>
    <3>1. (up' = up \/ up' = TRUE) /\ UNCHANGED <<inflight, received, fired>>
      BY <1>2 DEF Loki!ComposeUp
    <3>2. up \in BOOLEAN
      BY <1>0 DEF StackTyped
    <3>3. up' \in BOOLEAN
      BY <3>1, <3>2, Zenon
    <3>4. ~up' => ~up
      BY <3>1, Zenon
    <3> QED
      BY <3>1, <3>3, <3>4
  <2> QED
    BY <1>0, <2>1 DEF StackTyped
<1>3. CASE Loki!WaitFor \/ Loki!BenignVerdict \/ Loki!Poll \/ Loki!Deadline \/ Loki!Collect
           \/ Loki!WriteAlerts \/ Loki!WriteSummary \/ Loki!Kill \/ Loki!NoDocker
  BY <1>0, <1>3 DEF Loki!WaitFor, Loki!BenignVerdict, Loki!Poll, Loki!Deadline, Loki!Collect,
     Loki!WriteAlerts, Loki!WriteSummary, Loki!Kill, Loki!NoDocker, Loki!stackVars, StackTyped
<1>4. CASE Loki!Clear
  BY <1>0, <1>4 DEF Loki!Clear, Loki!ClearReceived, StackTyped
<1>5. CASE Loki!Push("benign", "sleep")
  BY <1>0, <1>5, PushFacts, LokiTypes DEF Loki!Push, Loki!Causes, Loki!InTry, StackTyped, LokiPlaces
<1>6. CASE Loki!Push("attack", "poll")
  BY <1>0, <1>6, PushFacts, LokiTypes DEF Loki!Push, Loki!Causes, Loki!InTry, StackTyped, LokiPlaces
<1>7. CASE Loki!ComposeDown
  BY <1>0, <1>7 DEF Loki!ComposeDown, StackTyped
<1>8. CASE Loki!Stack
  BY <1>0, <1>8, StackFacts, LokiTypes DEF StackTyped
<1>9. CASE Loki!Tick
  BY <1>0, <1>9, TickFacts, LokiTypes DEF Loki!Tick, StackTyped
<1> QED
  BY <1>1, <1>2, <1>3, <1>4, <1>5, <1>6, <1>7, <1>8, <1>9 DEF Loki!Next, Loki!Check, Loki!Docker

LEMMA LokiPlacesNext == LokiInv /\ Loki!Next => LokiPlaces'
<1> SUFFICES ASSUME LokiInv, Loki!Next PROVE LokiPlaces'
  OBVIOUS
<1>0. Loki!TypeOK /\ LokiPlaces
  BY DEF LokiInv
<1> USE DEF LokiPlaces, Loki!InTry, Before
<1>1. CASE Loki!Start
  <2>1. runs' > 0
    BY <1>0, <1>1, LokiConstants DEF Loki!Start, Loki!TypeOK
  <2>2. /\ pc' = "up" /\ failed' = FALSE /\ observed' = {} /\ ready' = 0
        /\ result' = "none" /\ verified' = "none" /\ UNCHANGED files
    BY <1>1 DEF Loki!Start
  <2> QED
    BY <1>0, <2>1, <2>2
<1>2. CASE Loki!ComposeUp
  <2>1. CASE up' /\ Loki!Goto("wait")
    <3>1. up' /\ pc' = "wait" /\ UNCHANGED <<failed, result, files, verified, ready, observed, runs>>
      BY <1>2, <2>1 DEF Loki!ComposeUp, Loki!Goto
    <3>2. ready = 0
      BY <1>0, <1>2 DEF Loki!ComposeUp, LokiPlaces
    <3> QED
      BY <1>0, <1>2, <3>1, <3>2 DEF Loki!ComposeUp
  <2>2. CASE Loki!Raise
    BY <1>0, <1>2, <2>2 DEF Loki!ComposeUp, Loki!Raise
  <2> QED
    BY <1>2, <2>1, <2>2 DEF Loki!ComposeUp
<1>3. CASE Loki!WaitFor
  BY <1>0, <1>3 DEF Loki!WaitFor, Loki!Goto, Loki!Raise, Loki!TypeOK, Loki!stackVars
<1>4. CASE Loki!Clear
  BY <1>0, <1>4 DEF Loki!Clear, Loki!Goto, Loki!Raise
<1>5. CASE Loki!Push("benign", "sleep")
  BY <1>0, <1>5 DEF Loki!Push, Loki!Goto, Loki!Raise
<1>6. CASE Loki!BenignVerdict
  BY <1>0, <1>6 DEF Loki!BenignVerdict, Loki!Goto, Loki!Raise, Loki!stackVars
<1>7. CASE Loki!Push("attack", "poll")
  BY <1>0, <1>7 DEF Loki!Push, Loki!Goto, Loki!Raise
<1>8. CASE Loki!Poll
  BY <1>0, <1>8 DEF Loki!Poll, Loki!Goto, Loki!Raise, Loki!stackVars
<1>9. CASE Loki!Deadline \/ Loki!Collect
  BY <1>0, <1>9 DEF Loki!Deadline, Loki!Collect, Loki!Goto, Loki!Raise, Loki!stackVars
<1>10. CASE Loki!ComposeDown
  BY <1>0, <1>10 DEF Loki!ComposeDown
<1>11. CASE Loki!WriteAlerts \/ Loki!WriteSummary
  BY <1>0, <1>11 DEF Loki!WriteAlerts, Loki!WriteSummary, Loki!stackVars
<1>12. CASE Loki!Stack
  BY <1>0, <1>12, StackFacts DEF Loki!checkVars
<1>13. CASE Loki!Tick
  BY <1>0, <1>13 DEF Loki!Tick
<1>14. CASE Loki!Kill
  BY <1>0, <1>14 DEF Loki!Kill, Loki!stackVars
<1>15. CASE Loki!NoDocker
  BY <1>0, <1>15 DEF Loki!NoDocker, Loki!stackVars
<1> QED
  BY <1>1, <1>2, <1>3, <1>4, <1>5, <1>6, <1>7, <1>8, <1>9, <1>10, <1>11, <1>12, <1>13, <1>14,
     <1>15 DEF Loki!Next, Loki!Check, Loki!Docker

LEMMA LokiPhasesNext == LokiInv /\ Loki!Next => LokiPhases'
<1> SUFFICES ASSUME LokiInv, Loki!Next PROVE LokiPhases'
  OBVIOUS
<1>0. Loki!TypeOK /\ CheckTyped /\ StackTyped /\ LokiPlaces /\ LokiPhases
  BY LokiTypes DEF LokiInv
<1> USE DEF LokiPhases
<1>1. CASE Loki!Start
  <2>1. PICK names \in SUBSET LokiRules:
          /\ inflight' = Loki!Flights(names, "leftover")
          /\ fired' = [c \in Loki!Causes |-> IF c = "leftover" THEN names ELSE {}]
    BY <1>1 DEF Loki!Start
  <2>2. Flying' \subseteq names /\ received' = {} /\ pc' = "up"
    BY <1>1, <2>1, FlightsFacts DEF Loki!Start, Flying, Loki!Causes
  <2>3. fired'["leftover"] = names
    BY <2>1 DEF Loki!Causes
  <2> QED
    BY <2>2, <2>3 DEF Under
<1>2. CASE Loki!ComposeUp
  BY <1>0, <1>2 DEF Loki!ComposeUp, Loki!Goto, Loki!Raise, LokiPhases, Under, Flying
<1>3. CASE Loki!WaitFor
  BY <1>0, <1>3 DEF Loki!WaitFor, Loki!Goto, Loki!Raise, LokiPhases, Under, Flying, Loki!stackVars
<1>4. CASE Loki!Clear
  <2>1. CASE pc = "clear" /\ Loki!Goto("benign")
    <3>1. Flying' \subseteq Flying /\ received' = {} /\ UNCHANGED fired /\ pc' = "benign"
      BY <1>4, <2>1 DEF Loki!Clear, Loki!ClearReceived, Loki!Goto, Flying
    <3> QED
      BY <1>0, <2>1, <3>1 DEF Under
  <2>2. CASE pc = "clear2" /\ Loki!Goto("attack")
    BY <1>0, <1>4, <2>2 DEF Loki!Clear, Loki!ClearReceived, Loki!Goto
  <2> QED
    BY <1>4, <2>1, <2>2 DEF Loki!Clear
<1>5. CASE Loki!Push("benign", "sleep")
  <2>1. PICK names \in SUBSET LokiRules: fired' = [fired EXCEPT !["benign"] = names] /\ Flying' = Flying \cup names
    BY <1>0, <1>5, PushFacts DEF Loki!Causes
  <2>2. InTime'
    BY <1>0, <1>5, PushFacts DEF Loki!Causes
  <2>3. fired'["benign"] = names /\ fired'["leftover"] = fired["leftover"]
    BY <1>0, <2>1 DEF StackTyped, Loki!Causes
  <2>4. pc = "benign" /\ pc' \in {"sleep", "down"} /\ received' = received
    BY <1>5 DEF Loki!Push, Loki!Goto, Loki!Raise
  <2> QED
    BY <1>0, <2>1, <2>2, <2>3, <2>4 DEF Under
<1>6. CASE Loki!BenignVerdict
  <2>1. inflight = {}
    <3> SUFFICES ASSUME NEW f \in inflight PROVE FALSE
      OBVIOUS
    <3>1. f.left + timer <= LokiDelay /\ f.left \in Nat /\ timer \in Nat /\ timer >= BenignWait
      BY <1>0, <1>6, LokiConstants DEF Loki!BenignVerdict, InTime, StackTyped, CheckTyped, Flight
    <3> QED
      BY <3>1, LokiConstants
  <2> QED
    BY <1>6, <2>1 DEF Loki!BenignVerdict, Loki!Goto, Loki!Raise, Loki!stackVars
<1>7. CASE Loki!Push("attack", "poll")
  <2>1. PICK names \in SUBSET LokiRules: fired' = [fired EXCEPT !["attack"] = names] /\ Flying' = Flying \cup names
    BY <1>0, <1>7, PushFacts DEF Loki!Causes
  <2>2. InTime'
    BY <1>0, <1>7, PushFacts DEF Loki!Causes
  <2>3. fired'["attack"] = names
    BY <1>0, <2>1 DEF StackTyped, Loki!Causes
  <2>4. /\ pc = "attack" /\ pc' \in {"poll", "down"} /\ received' = received /\ observed' = observed
        /\ inflight = {} /\ received = {} /\ observed = {}
    BY <1>0, <1>7 DEF Loki!Push, Loki!Goto, Loki!Raise, LokiPlaces, Before
  <2>5. Flying = {}
    BY <2>4 DEF Flying
  <2> QED
    BY <2>1, <2>2, <2>3, <2>4, <2>5 DEF Under
<1>8. CASE Loki!Poll
  BY <1>0, <1>8 DEF Loki!Poll, Loki!Goto, Loki!Raise, LokiPhases, Under, Flying, Loki!stackVars,
     InTime
<1>9. CASE Loki!Deadline \/ Loki!Collect
  BY <1>0, <1>9 DEF Loki!Deadline, Loki!Collect, Loki!Goto, Loki!Raise, LokiPhases, Under,
     Flying, Loki!stackVars, InTime
<1>10. CASE Loki!ComposeDown
  BY <1>0, <1>10 DEF Loki!ComposeDown
<1>11. CASE Loki!WriteAlerts \/ Loki!WriteSummary \/ Loki!Kill
  BY <1>0, <1>11 DEF Loki!WriteAlerts, Loki!WriteSummary, Loki!Kill
<1>12. CASE Loki!Stack
  <2>1. /\ inflight # {} /\ received \subseteq received' /\ received' \cup Flying' = received \cup Flying
        /\ InTime => InTime'
        /\ UNCHANGED <<pc, observed, fired>>
    BY <1>0, <1>12, StackFacts DEF Loki!checkVars
  <2>2. \A S: Under(S) => (received' \cup Flying' \subseteq S)
    BY <2>1 DEF Under
  <2> QED
    BY <1>0, <2>1, <2>2 DEF Under
<1>13. CASE Loki!Tick
  <2>1. /\ inflight = {} => inflight' = {}
        /\ Flying' = Flying /\ (InTime => InTime')
        /\ UNCHANGED <<observed, fired, received>>
    BY <1>0, <1>13, TickFacts DEF Loki!Tick
  <2>2. pc' = IF pc = "nap" THEN "poll" ELSE pc
    BY <1>13 DEF Loki!Tick
  <2> QED
    BY <1>0, <2>1, <2>2 DEF Under
<1>14. CASE Loki!NoDocker
  BY <1>0, <1>14 DEF Loki!NoDocker
<1> QED
  BY <1>1, <1>2, <1>3, <1>4, <1>5, <1>6, <1>7, <1>8, <1>9, <1>10, <1>11, <1>12, <1>13, <1>14 DEF
     Loki!Next, Loki!Check, Loki!Docker

(* A poll after the longest delay sees whatever the attack lines fired.    *)
LEMMA LokiWaitNext == LokiInv /\ Loki!Next => LokiWait'
<1> SUFFICES ASSUME LokiInv, Loki!Next PROVE LokiWait'
  OBVIOUS
<1>0. /\ Loki!TypeOK /\ CheckTyped /\ StackTyped /\ LokiPlaces /\ LokiPhases /\ LokiWait
      /\ timer \in Nat /\ LokiDelay + 1 < AttackWait
  BY LokiTypes, LokiConstants DEF LokiInv, CheckTyped
<1> USE LokiConstants DEF LokiWait
<1>1. CASE Loki!Start \/ Loki!ComposeUp \/ Loki!WaitFor \/ Loki!Clear
  BY <1>0, <1>1 DEF Loki!Start, Loki!ComposeUp, Loki!WaitFor, Loki!Clear, Loki!Goto, Loki!Raise
<1>2. CASE Loki!Push("benign", "sleep") \/ Loki!BenignVerdict
  BY <1>0, <1>2 DEF Loki!Push, Loki!BenignVerdict, Loki!Goto, Loki!Raise
<1>3. CASE Loki!Push("attack", "poll")
  BY <1>3 DEF Loki!Push, Loki!Goto, Loki!Raise
<1>4. CASE Loki!Poll
  <2>1. timer > LokiDelay => fired["attack"] \subseteq received
    <3> SUFFICES ASSUME timer > LokiDelay, NEW f \in inflight PROVE FALSE
      BY <1>0, <1>4 DEF Loki!Poll, LokiPhases, Flying
    <3>1. f.left + timer <= LokiDelay /\ f.left \in Nat
      BY <1>0, <1>4 DEF Loki!Poll, LokiPhases, InTime, StackTyped, Flight
    <3> QED
      BY <1>0, <3>1
  <2> QED
    BY <1>0, <1>4, <2>1 DEF Loki!Poll, Loki!Goto, Loki!Raise, Loki!stackVars
<1>5. CASE Loki!Deadline \/ Loki!Collect
  BY <1>0, <1>5 DEF Loki!Deadline, Loki!Collect, Loki!Goto, Loki!Raise
<1>6. CASE Loki!ComposeDown \/ Loki!WriteAlerts \/ Loki!WriteSummary \/ Loki!Kill \/ Loki!NoDocker
  BY <1>0, <1>6 DEF Loki!ComposeDown, Loki!WriteAlerts, Loki!WriteSummary, Loki!Kill, Loki!NoDocker
<1>7. CASE Loki!Stack
  BY <1>0, <1>7, StackFacts DEF Loki!checkVars
<1>8. CASE Loki!Tick
  BY <1>0, <1>8 DEF Loki!Tick
<1> QED
  BY <1>1, <1>2, <1>3, <1>4, <1>5, <1>6, <1>7, <1>8 DEF Loki!Next, Loki!Check, Loki!Docker

(* Nothing is concluded that the phase at hand could still change.         *)
LEMMA LokiConclusionsNext == LokiInv /\ Loki!Next => LokiConclusions'
<1> SUFFICES ASSUME LokiInv, Loki!Next PROVE LokiConclusions'
  OBVIOUS
<1>0. /\ Loki!TypeOK /\ CheckTyped /\ StackTyped /\ LokiPlaces /\ LokiPhases /\ LokiWait
      /\ LokiConclusions
  BY LokiTypes DEF LokiInv
<1> USE DEF Concluded, Closed, Judged
<1>1. CASE Loki!Start \/ Loki!ComposeUp \/ Loki!WaitFor
  BY <1>0, <1>1 DEF Loki!Start, Loki!ComposeUp, Loki!WaitFor, Loki!Goto, Loki!Raise,
     LokiConclusions
<1>2. CASE Loki!Clear
  BY <1>0, <1>2 DEF Loki!Clear, Loki!Goto, Loki!Raise, LokiConclusions
<1>3. CASE Loki!Push("benign", "sleep")
  BY <1>0, <1>3 DEF Loki!Push, Loki!Goto, Loki!Raise, LokiConclusions
<1>4. CASE Loki!BenignVerdict
  <2>1. inflight = {} /\ received \subseteq fired["leftover"] \cup fired["benign"]
    <3>1. /\ pc = "sleep" /\ timer >= BenignWait /\ InTime
          /\ Under(fired["leftover"] \cup fired["benign"])
      BY <1>0, <1>4 DEF Loki!BenignVerdict, LokiPhases
    <3>2. \A f \in inflight: f.left + timer <= LokiDelay /\ f.left \in Nat /\ timer \in Nat
      BY <1>0, <3>1, LokiConstants DEF InTime, StackTyped, CheckTyped, Flight
    <3> QED
      BY <3>1, <3>2, LokiConstants DEF Under
  <2>2. fired["benign"] \subseteq received
    BY <1>0, <1>4, <2>1 DEF Loki!BenignVerdict, LokiPhases, Flying
  <2> QED
    BY <1>0, <1>4, <2>1, <2>2 DEF Loki!BenignVerdict, Loki!Goto, Loki!Raise, Loki!stackVars,
       LokiConclusions
<1>5. CASE Loki!Push("attack", "poll")
  <2>1. PICK names \in SUBSET LokiRules: fired' = [fired EXCEPT !["attack"] = names]
    BY <1>5 DEF Loki!Push
  <2>2. fired'["benign"] = fired["benign"] /\ fired'["leftover"] = fired["leftover"]
    BY <1>0, <2>1 DEF StackTyped, Loki!Causes
  <2> QED
    BY <1>0, <1>5, <2>2 DEF Loki!Push, Loki!Goto, Loki!Raise, LokiConclusions
<1>6. CASE Loki!Poll
  BY <1>0, <1>6 DEF Loki!Poll, Loki!Goto, Loki!Raise, LokiConclusions, Loki!stackVars
<1>7. CASE Loki!Deadline
  <2>1. fired["attack"] \subseteq observed
    BY <1>0, <1>7, LokiConstants DEF Loki!Deadline, LokiWait, CheckTyped
  <2> QED
    BY <1>0, <1>7, <2>1 DEF Loki!Deadline, Loki!Goto, Loki!stackVars, LokiConclusions
<1>8. CASE Loki!Collect
  <2>1. observed \subseteq received /\ received \subseteq fired["attack"]
    BY <1>0, <1>8 DEF Loki!Collect, LokiPhases, Under
  <2> QED
    BY <1>0, <1>8, <2>1 DEF Loki!Collect, Loki!Goto, Loki!Raise, Loki!stackVars, LokiConclusions
<1>9. CASE Loki!ComposeDown
  BY <1>0, <1>9 DEF Loki!ComposeDown, LokiConclusions
<1>10. CASE Loki!WriteAlerts
  BY <1>0, <1>10 DEF Loki!WriteAlerts, LokiConclusions, Loki!stackVars, LokiPlaces
<1>11. CASE Loki!WriteSummary \/ Loki!Kill \/ Loki!NoDocker
  BY <1>0, <1>11 DEF Loki!WriteSummary, Loki!Kill, Loki!NoDocker, LokiConclusions, Loki!stackVars
<1>12. CASE Loki!Stack
  BY <1>0, <1>12, StackFacts DEF Loki!checkVars, LokiConclusions
<1>13. CASE Loki!Tick
  BY <1>0, <1>13 DEF Loki!Tick, LokiConclusions
<1> QED
  BY <1>1, <1>2, <1>3, <1>4, <1>5, <1>6, <1>7, <1>8, <1>9, <1>10, <1>11, <1>12, <1>13 DEF
     Loki!Next, Loki!Check, Loki!Docker

(* The verdict and the evidence follow from the conclusions of the run.    *)
LEMMA LokiVerdictsNext == LokiInv /\ Loki!Next => LokiVerdicts'
<1> SUFFICES ASSUME LokiInv, Loki!Next PROVE LokiVerdicts'
  OBVIOUS
<1>0. /\ Loki!TypeOK /\ CheckTyped /\ StackTyped /\ LokiPlaces /\ LokiConclusions /\ LokiVerdicts
  BY LokiTypes DEF LokiInv
<1>1. CASE Loki!Start
  BY <1>0, <1>1 DEF Loki!Start, LokiVerdicts, Loki!PassIsEarned, Loki!NoFalseAlarm,
     Loki!EvidenceEarned
<1>2. CASE Loki!ComposeUp \/ Loki!WaitFor \/ Loki!Clear \/ Loki!BenignVerdict \/ Loki!Poll
           \/ Loki!Deadline \/ Loki!Collect \/ Loki!ComposeDown
  <2>1. pc # "idle" /\ UNCHANGED files /\ result' \notin {"passed", "failed"} /\ UNCHANGED verified
    BY <1>0, <1>2 DEF Loki!ComposeUp, Loki!WaitFor, Loki!Clear, Loki!BenignVerdict, Loki!Poll,
       Loki!Deadline, Loki!Collect, Loki!ComposeDown, Loki!Goto, Loki!Raise, Loki!InTry, LokiPlaces
  <2> QED
    BY <1>0, <2>1 DEF LokiPlaces, LokiVerdicts, Loki!PassIsEarned, Loki!NoFalseAlarm,
       Loki!EvidenceEarned
<1>3. CASE Loki!Push("benign", "sleep") \/ Loki!Push("attack", "poll")
  <2>1. pc # "idle" /\ UNCHANGED files /\ result' \notin {"passed", "failed"} /\ UNCHANGED verified
    BY <1>0, <1>3 DEF Loki!Push, Loki!Goto, Loki!Raise, Loki!InTry, LokiPlaces
  <2> QED
    BY <1>0, <2>1 DEF LokiPlaces, LokiVerdicts, Loki!PassIsEarned, Loki!NoFalseAlarm,
       Loki!EvidenceEarned
<1>4. CASE Loki!WriteAlerts
  <2>1. files'.summary = files.summary /\ pc # "idle" /\ pc' # "idle" /\ UNCHANGED <<result,
                                                                                     verified>>
    BY <1>0, <1>4 DEF Loki!WriteAlerts, LokiPlaces
  <2> QED
    BY <1>0, <2>1 DEF LokiPlaces, LokiVerdicts, Loki!PassIsEarned, Loki!NoFalseAlarm,
       Loki!EvidenceEarned
<1>5. CASE Loki!WriteSummary
  <2>1. /\ files'.summary = Loki!Summary /\ files'.alerts = files.alerts
        /\ UNCHANGED <<fired, verified>> /\ pc = "write2" /\ verified = "none"
    BY <1>0, <1>5 DEF Loki!WriteSummary, Loki!stackVars, LokiPlaces
  <2>2. /\ Expected \cap fired["benign"] \subseteq false_positives
        /\ false_positives \subseteq fired["leftover"] \cup fired["benign"]
        /\ Expected \subseteq fired["attack"] => Expected \subseteq observed
        /\ observed \subseteq fired["attack"]
    BY <1>0, <2>1 DEF LokiConclusions, Concluded, Closed, Judged
  <2>3. Loki!PassIsEarned'
    BY <2>1, <2>2, <1>5 DEF Loki!WriteSummary, Loki!PassIsEarned, Loki!Earned
  <2>4. Loki!NoFalseAlarm'
    <3> SUFFICES ASSUME result' = "failed", fired["leftover"] = {}
                 PROVE  \E cause \in {"benign", "attack"}: fired[cause] \cap Expected # Loki!Cases(cause)
      BY <2>1 DEF Loki!NoFalseAlarm, Loki!Cases
    <3>1. false_positives # {} \/ ~(Expected \subseteq observed)
      BY <1>5 DEF Loki!WriteSummary
    <3>2. CASE false_positives # {}
      BY <1>0, <2>2, <3>2 DEF Loki!Cases, CheckTyped
    <3>3. CASE ~(Expected \subseteq observed)
      BY <2>2, <3>3 DEF Loki!Cases
    <3> QED
      BY <3>1, <3>2, <3>3
  <2>5. Loki!Accepted(Loki!Summary) => Loki!Earned(fired)
    BY <2>2 DEF Loki!Summary, Loki!Accepted, Loki!Earned
  <2> QED
    BY <2>1, <2>3, <2>4, <2>5 DEF LokiVerdicts, Loki!EvidenceEarned, Loki!Summary
<1>6. CASE Loki!Stack
  <2>1. UNCHANGED <<Loki!checkVars, fired>>
    BY <1>0, <1>6, StackFacts
  <2> QED
    BY <1>0, <2>1 DEF Loki!checkVars, LokiVerdicts, Loki!PassIsEarned, Loki!NoFalseAlarm,
       Loki!EvidenceEarned
<1>7. CASE Loki!Tick
  <2>1. UNCHANGED <<files, result, verified, fired>> /\ (pc = "idle" <=> pc' = "idle")
    BY <1>7 DEF Loki!Tick
  <2> QED
    BY <1>0, <2>1 DEF LokiVerdicts, Loki!PassIsEarned, Loki!NoFalseAlarm, Loki!EvidenceEarned
<1>8. CASE Loki!Kill
  <2>1. /\ files'.summary \in {files.summary, None} /\ result' = "killed"
        /\ UNCHANGED verified /\ verified = "none"
    BY <1>0, <1>8 DEF Loki!Kill, LokiPlaces
  <2> QED
    BY <1>0, <2>1 DEF LokiVerdicts, Loki!PassIsEarned, Loki!NoFalseAlarm, Loki!EvidenceEarned
<1>9. CASE Loki!NoDocker
  <2>1. /\ UNCHANGED <<files, result, fired, pc>>
        /\ verified' = "passed" => files.summary # None /\ Loki!Accepted(files.summary)
    BY <1>9 DEF Loki!NoDocker, Loki!stackVars
  <2> QED
    BY <1>0, <2>1 DEF LokiVerdicts, Loki!PassIsEarned, Loki!NoFalseAlarm, Loki!EvidenceEarned
<1> QED
  BY <1>1, <1>2, <1>3, <1>4, <1>5, <1>6, <1>7, <1>8, <1>9 DEF Loki!Next, Loki!Check, Loki!Docker

(* Alerts are written before the summary of the same run, and after that   *)
(* of every earlier one.                                                   *)
LEMMA LokiFilesNext == LokiInv /\ Loki!Next => LokiFiles'
<1> SUFFICES ASSUME LokiInv, Loki!Next PROVE LokiFiles'
  OBVIOUS
<1>0. CheckTyped /\ StackTyped /\ LokiPlaces /\ LokiConclusions /\ LokiFiles
  BY LokiTypes DEF LokiInv
<1>a. runs \in Nat /\ (files.summary # None => files.summary.run \in Nat)
  BY <1>0, LokiConstants DEF CheckTyped, Loki!Summaries
<1> USE DEF LokiFiles, Loki!EvidenceOfOneRun
<1>1. CASE Loki!Start
  <2>1. runs' = runs + 1 /\ UNCHANGED files /\ pc' = "up"
    BY <1>1 DEF Loki!Start
  <2> QED
    BY <1>0, <1>a, <2>1
<1>2. CASE Loki!ComposeUp \/ Loki!WaitFor \/ Loki!Clear \/ Loki!Push("benign", "sleep") \/ Loki!BenignVerdict
           \/ Loki!Push("attack", "poll") \/ Loki!Poll \/ Loki!Deadline \/ Loki!Collect \/ Loki!ComposeDown
  <2>1. pc # "idle" /\ UNCHANGED <<files, runs>> /\ result' \notin {"passed", "failed"}
    BY <1>0, <1>2 DEF Loki!ComposeUp, Loki!WaitFor, Loki!Clear, Loki!Push, Loki!BenignVerdict, Loki!Poll,
       Loki!Deadline, Loki!Collect, Loki!ComposeDown, Loki!Goto, Loki!Raise, Loki!InTry, LokiPlaces
  <2> QED
    BY <1>0, <1>a, <2>1
<1>3. CASE Loki!WriteAlerts
  <2>1. /\ files'.summary = files.summary /\ files'.alerts = [run |-> runs, names |-> alerts]
        /\ pc # "idle" /\ pc' # "idle" /\ UNCHANGED runs
    BY <1>0, <1>3 DEF Loki!WriteAlerts, LokiPlaces
  <2> QED
    BY <1>0, <1>a, <2>1
<1>4. CASE Loki!WriteSummary
  <2>1. /\ files'.summary = Loki!Summary /\ files'.alerts = files.alerts /\ pc = "write2" /\ UNCHANGED runs
    BY <1>0, <1>4 DEF Loki!WriteSummary, LokiPlaces
  <2>2. files.alerts = [run |-> runs, names |-> alerts] /\ observed \subseteq alerts
    BY <1>0, <2>1 DEF LokiConclusions, Closed
  <2>3. Loki!Summary.run = runs /\ Loki!Summary.observed = observed
    BY DEF Loki!Summary
  <2>4. runs \in 1..MaxRuns
    BY <1>0, <2>1, LokiConstants DEF LokiPlaces, CheckTyped
  <2>5. files.alerts \in Loki!AlertFiles /\ Loki!Summary \in Loki!Summaries
    BY <1>0, <2>2, <2>4 DEF Loki!AlertFiles, Loki!Summary, Loki!Summaries, CheckTyped, StackTyped
  <2>6. files'.alerts # None /\ files'.summary # None
    BY <2>1, <2>5, LokiConstants
  <2>7. /\ files'.summary.run = runs' /\ files'.alerts.run = runs' /\ pc' = "idle"
        /\ files'.summary.observed \subseteq files'.alerts.names
    BY <1>4, <2>1, <2>2, <2>3 DEF Loki!WriteSummary
  <2> QED
    BY <1>a, <2>1, <2>6, <2>7
<1>5. CASE Loki!Stack
  <2>1. UNCHANGED <<pc, files, result, runs>>
    BY <1>0, <1>5, StackFacts, LokiTypes DEF Loki!checkVars
  <2> QED
    BY <1>0, <2>1
<1>6. CASE Loki!Tick
  <2>1. UNCHANGED <<files, result, runs>> /\ (pc = "idle" <=> pc' = "idle")
    BY <1>6 DEF Loki!Tick
  <2> QED
    BY <1>0, <2>1
<1>7. CASE Loki!Kill
  <2>1. /\ files'.summary \in {files.summary, None} /\ files'.alerts \in {files.alerts, None}
        /\ pc # "idle" /\ pc' = "idle" /\ result' = "killed" /\ UNCHANGED runs
    BY <1>0, <1>7 DEF Loki!Kill, LokiPlaces
  <2> QED
    BY <1>0, <1>a, <2>1
<1>8. CASE Loki!NoDocker
  BY <1>0, <1>8 DEF Loki!NoDocker
<1> QED
  BY <1>1, <1>2, <1>3, <1>4, <1>5, <1>6, <1>7, <1>8 DEF Loki!Next, Loki!Check, Loki!Docker

LEMMA LokiNext == LokiInv /\ [Loki!Next]_lokiVars => LokiInv'
<1>1. LokiInv /\ Loki!Next => Loki!TypeOK'
  BY CheckTypedNext, StackTypedNext DEF Loki!TypeOK, CheckTyped, StackTyped, Flight
<1>2. LokiInv /\ Loki!Next => LokiInv'
  BY <1>1, LokiPlacesNext, LokiPhasesNext, LokiWaitNext, LokiConclusionsNext, LokiVerdictsNext,
     LokiFilesNext DEF LokiInv
<1>3. LokiInv /\ UNCHANGED lokiVars => LokiInv'
  <2> SUFFICES ASSUME LokiInv, UNCHANGED lokiVars PROVE LokiInv'
    OBVIOUS
  <2>1. Loki!TypeOK'
    BY DEF LokiInv, lokiVars, Loki!TypeOK
  <2>2. LokiPlaces' /\ LokiPhases' /\ LokiWait'
    BY DEF LokiInv, lokiVars, LokiPlaces, LokiPhases, LokiWait, Under, Flying, InTime
  <2>3. LokiConclusions' /\ LokiVerdicts' /\ LokiFiles'
    BY DEF LokiInv, lokiVars, LokiConclusions, Concluded, Closed, LokiVerdicts, LokiFiles,
       Loki!PassIsEarned, Loki!NoFalseAlarm, Loki!EvidenceEarned, Loki!EvidenceOfOneRun
  <2> QED
    BY <2>1, <2>2, <2>3 DEF LokiInv
<1> QED
  BY <1>2, <1>3

-----------------------------------------------------------------------------
(* run_emulation.py                                                        *)

InStep == {"command", "attacked", "settle"}
Executing == emuPc \in {"next"} \cup InStep
Writing == {"write", "write2", "write3"}

(* The locals at each place of the program.                                *)
EmuPlaces ==
    /\ emuPc = "idle" =>
         /\ plan = <<>> /\ step = 0 /\ results = None /\ raised = None
    /\ emuPc # "idle" => plan \in Plans /\ Emu!Valid(plan) /\ emuResult = "none"
    /\ Executing => DOMAIN raised = DOMAIN plan
    /\ emuPc \in InStep => step \in DOMAIN plan /\ plan[step].execute
    /\ emuPc \in {"evaluate"} \cup Writing /\ raised # None => step = Len(plan)
    /\ DOMAIN emuFiles = {"observations", "results", "report"}

(* Results are always the evaluation of the observations in memory.        *)
EmuResults == results = IF emuPc \in Writing THEN Emu!Evaluate(plan, observations) ELSE None

(* Whose files they are: one that this run has not written is of an        *)
(* earlier run.                                                            *)
EmuFiles ==
    LET o == emuFiles.observations  r == emuFiles.results  m == emuFiles.report
    IN  /\ o # None => o.run \in 0..emuRuns /\ (emuPc \notin {"idle", "write2", "write3"} => o.run < emuRuns)
        /\ r # None => r.run \in 0..emuRuns /\ (emuPc \notin {"idle", "write3"} => r.run < emuRuns)
        /\ m # None => m.run \in 0..emuRuns /\ (emuPc # "idle" => m.run < emuRuns)
        /\ emuPc \in {"write2", "write3"} => o = [run |-> emuRuns, steps |-> observations]
        /\ emuPc = "write3" => r = [run |-> emuRuns, of |-> plan, results |-> results]
        /\ Emu!ReplayReproduces

(* An alert was raised f.age ago; it gets its moment between that and      *)
(* AlertDelay later.  A step's action is at most MaxBusy into it, and what *)
(* is under way in its settle time was raised before it woke.              *)
EmuTimes ==
    /\ \A f \in flying: f.moment # None => now <= f.moment + f.age /\ f.moment + f.age <= now + AlertDelay
    /\ emuPc \in {"command", "attacked"} => now <= began + MaxBusy
    /\ emuPc = "settle" =>
         /\ woke <= began + MaxBusy
         /\ \A f \in flying: now <= f.age + woke
         /\ \A a \in file: a.moment <= woke + AlertDelay

(* A signal that does not come from the action of the step at work: it is  *)
(* of an earlier run or, if the settle time is short, an earlier step.     *)
Stale(s, i) == s \in leftover \/ (settle <= AlertDelay /\ \E j \in 1..i: s \in raised[j])

(* While a step is at work, the alerts from its beginning on are stale or  *)
(* those of its action, and each of the latter is under way or on file.    *)
EmuCauses ==
    /\ emuPc = "next" =>
         /\ \A f \in flying: Stale(f.signal, step)
         /\ \A a \in file: now <= a.moment => Stale(a.signal, step)
    /\ emuPc \in InStep =>
         /\ \A f \in flying: f.signal \in raised[step] \/ Stale(f.signal, step - 1)
         /\ \A a \in file: began <= a.moment => a.signal \in raised[step] \/ Stale(a.signal, step - 1)
    /\ emuPc \in {"attacked", "settle"} =>
         \A s \in raised[step]:
             \/ \E f \in flying: f.signal = s /\ began + f.age <= now
             \/ \E a \in file: a.signal = s /\ began <= a.moment

(* What an observation says of the action of its step.                     *)
Faithful(o, i) ==
    /\ o \in Emu!Observation
    /\ \A a \in o.alerts: o.started <= a.moment /\ a.moment <= o.finished =>
         /\ a.signal \in raised[i] \/ Stale(a.signal, i - 1)
         /\ a.moment <= o.started + MaxBusy + AlertDelay
    /\ settle > AlertDelay => \A s \in raised[i]: \E a \in o.alerts:
         a.signal = s /\ o.started <= a.moment /\ a.moment <= o.finished

(* The steps the run is through with, of those it executes.                *)
Done == {i \in DOMAIN plan: plan[i].execute /\ (i < step \/ (i = step /\ emuPc \notin InStep))}
EmuRecord ==
    emuPc # "idle" /\ (Executing \/ raised # None) =>
        /\ DOMAIN raised = DOMAIN plan
        /\ DOMAIN observations = {plan[i].id: i \in Done}
        /\ \A i \in Done: Faithful(observations[plan[i].id], i)
        /\ \A i \in DOMAIN plan \ Done: (i = step /\ emuPc \in {"attacked", "settle"}) \/ raised[i] = {}

EmuInv == Emu!TypeOK /\ EmuPlaces /\ EmuResults /\ EmuTimes /\ EmuCauses /\ EmuRecord /\ EmuFiles

(* What run_emulation.py is assumed to satisfy.                            *)
LEMMA EmuConstants ==
    /\ Settles \subseteq Nat /\ AlertDelay \in Nat /\ MaxBusy \in Nat /\ MaxRuns \in Nat
    /\ \A p \in Plans: Len(p) \in Nat /\ DOMAIN p = 1..Len(p)
    /\ None \notin Nat /\ None \notin Emu!Observation
BY EmulationHolds DEF Emu!EmulationAssumption

(* The type invariant in two parts, the program's and the detectors'.      *)
RunTyped ==
    /\ emuPc \in {"idle", "next", "command", "attacked", "settle", "evaluate", "write", "write2", "write3"}
    /\ emuRuns \in 0..MaxRuns /\ settle \in {0} \cup Settles
    /\ plan \in Plans \cup {<<>>} /\ step \in 0..Len(plan)
    /\ raised = None \/ DOMAIN raised = DOMAIN plan
    /\ leftover \subseteq Emu!Signals
    /\ emuResult \in {"none", "ok", "invalid", "usage", "raised", "killed"}

LabTyped ==
    /\ now \in Nat /\ began \in 0..now /\ woke \in 0..now
    /\ flying \subseteq [signal: Emu!Signals, age: 0..AlertDelay, moment: {None} \cup 0..now]
    /\ file \subseteq [signal: Emu!Signals, moment: 0..now]

LEMMA EmuTypes == Emu!TypeOK <=> RunTyped /\ LabTyped
BY DEF Emu!TypeOK, RunTyped, LabTyped

LEMMA LabFacts ==
    ASSUME LabTyped
    PROVE  /\ now \in Nat /\ began \in Nat /\ woke \in Nat /\ began <= now /\ woke <= now
           /\ \A f \in flying: /\ f \in [signal: Emu!Signals, age: 0..AlertDelay, moment: {None} \cup 0..now]
                               /\ f.signal \in Emu!Signals /\ f.age \in Nat /\ f.age <= AlertDelay
                               /\ f.moment # None => f.moment \in Nat /\ f.moment <= now
           /\ \A a \in file: a.signal \in Emu!Signals /\ a.moment \in Nat /\ a.moment <= now
BY EmuConstants DEF LabTyped

(* A plan's steps, and the signals they expect.                            *)
LEMMA PlanFacts ==
    ASSUME NEW p \in Plans
    PROVE  /\ Len(p) \in Nat /\ DOMAIN p = 1..Len(p)
           /\ \A i \in DOMAIN p: i \in Nat /\ i > 0 /\ Emu!SignalsOf(p[i]) \subseteq Emu!Signals
           /\ p \in Plans \cup {<<>>}
<1>1. \A i \in DOMAIN p: Emu!SignalsOf(p[i]) \subseteq Emu!Signals
  BY DEF Emu!Signals
<1> QED
  BY <1>1, EmuConstants

LEMMA EmptyPlan == DOMAIN <<>> = {} /\ Len(<<>>) = 0
OBVIOUS

(* What is stale stays so: a step's action changes what its step raised,   *)
(* and no earlier one.                                                     *)
LEMMA StaleStays ==
    ASSUME NEW s, NEW i \in Int, NEW k \in Nat, UNCHANGED <<leftover, settle>>,
           i <= k, \A j \in 1..i: raised'[j] = raised[j], Stale(s, i)
    PROVE  s \in leftover' \/ (settle' <= AlertDelay /\ \E j \in 1..k: s \in raised'[j])
<1>1. CASE s \in leftover
  BY <1>1
<1>2. CASE settle <= AlertDelay /\ \E j \in 1..i: s \in raised[j]
  <2>1. PICK j \in 1..i: s \in raised[j]
    BY <1>2
  <2>2. j \in 1..k /\ s \in raised'[j]
    BY <2>1
  <2> QED
    BY <1>2, <2>2
<1> QED
  BY <1>1, <1>2 DEF Stale

(* What ends a run leaves nothing of it but the files.                     *)
LEMMA ExitFacts ==
    ASSUME NEW status \in {"ok", "invalid", "usage", "raised", "killed"},
           EmuInv, Emu!Exit(status), UNCHANGED <<now, flying, file>>,
           emuRuns' \in 0..MaxRuns, DOMAIN emuFiles' = {"observations", "results", "report"}, EmuFiles'
    PROVE  EmuInv'
<1>1. /\ emuPc' = "idle" /\ emuResult' = status /\ settle' = 0 /\ plan' = <<>> /\ step' = 0 /\ began' = 0
      /\ woke' = 0 /\ observations' = <<>> /\ results' = None /\ raised' = None /\ leftover' = {}
  BY DEF Emu!Exit
<1>2. RunTyped /\ LabTyped /\ EmuTimes
  BY EmuTypes DEF EmuInv
<1>3. RunTyped'
  BY <1>1, <1>2, EmptyPlan DEF RunTyped
<1>4. LabTyped'
  BY <1>1, <1>2 DEF LabTyped
<1>5. Emu!TypeOK'
  BY <1>3, <1>4 DEF Emu!TypeOK, RunTyped, LabTyped
<1>6. EmuPlaces' /\ EmuResults' /\ EmuTimes' /\ EmuCauses' /\ EmuRecord'
  BY <1>1, <1>2 DEF EmuPlaces, EmuResults, EmuTimes, EmuCauses, EmuRecord, Executing, InStep, Writing
<1> QED
  BY <1>5, <1>6 DEF EmuInv

LEMMA EmuInit == Emu!Init => EmuInv
<1> SUFFICES ASSUME Emu!Init PROVE EmuInv
  OBVIOUS
<1>1. /\ emuPc = "idle" /\ emuResult = "none" /\ plan = <<>> /\ step = 0 /\ began = 0 /\ woke = 0 /\ now = 0
      /\ emuRuns = 0 /\ settle = 0 /\ observations = <<>> /\ results = None /\ raised = None /\ leftover = {}
      /\ flying = {} /\ file = {}
      /\ emuFiles = [observations |-> None, results |-> None, report |-> None]
  BY DEF Emu!Init
<1>2. RunTyped /\ LabTyped
  BY <1>1, EmptyPlan, EmuConstants DEF RunTyped, LabTyped
<1>3. EmuPlaces /\ EmuResults /\ EmuTimes /\ EmuCauses /\ EmuRecord
  BY <1>1 DEF EmuPlaces, EmuResults, EmuTimes, EmuCauses, EmuRecord, Executing, InStep, Writing
<1>4. EmuFiles
  BY <1>1 DEF EmuFiles, Emu!ReplayReproduces
<1> QED
  BY <1>2, <1>3, <1>4, EmuTypes DEF EmuInv

(* The files that a run has not come to write stay of earlier runs.        *)
LEMMA FilesStay ==
    ASSUME EmuInv, UNCHANGED <<emuFiles, emuRuns, observations, plan, results>>,
           emuPc' = emuPc \/ ({emuPc, emuPc'} \cap {"idle", "write2", "write3"} = {})
    PROVE  EmuFiles'
BY DEF EmuInv, EmuFiles, Emu!ReplayReproduces

(* A run that starts takes as leftover what is under way or not yet past.  *)
LEMMA MainNext ==
    ASSUME NEW p \in Plans, EmuInv, Emu!Main(p)
    PROVE  EmuInv'
<1>0. /\ RunTyped /\ LabTyped /\ EmuPlaces /\ EmuTimes /\ EmuFiles /\ UNCHANGED <<now, flying, file, emuFiles>>
      /\ emuPc = "idle" /\ emuRuns' = emuRuns + 1
      /\ DOMAIN emuFiles' = {"observations", "results", "report"}
  BY EmuTypes DEF EmuInv, Emu!Main, EmuPlaces
<1>1. emuRuns' \in 0..MaxRuns /\ emuRuns \in Nat /\ emuRuns' \in Nat
  BY <1>0, EmuConstants DEF Emu!Main, RunTyped
<1>f. ASSUME emuPc' \in {"idle", "next", "evaluate"} PROVE EmuFiles'
  <2>1. \A n \in 0..emuRuns: n \in 0..emuRuns' /\ n < emuRuns'
    BY <1>0, <1>1
  <2> QED
    BY <1>0, <1>f, <2>1 DEF EmuFiles, Emu!ReplayReproduces
<1>2. CASE \E status \in {"invalid", "ok", "usage", "raised"}: Emu!Exit(status)
  <2>1. EmuFiles'
    BY <1>2, <1>f DEF Emu!Exit
  <2> QED
    BY <1>0, <1>1, <1>2, <2>1, ExitFacts
<1>3. CASE /\ Emu!Valid(p) /\ plan' = p /\ emuResult' = "none"
           /\ \/ /\ emuPc' = "next" /\ settle' \in Settles /\ observations' = <<>>
                 /\ raised' = [i \in DOMAIN p |-> {}]
                 /\ leftover' = {f.signal: f \in flying} \cup {a.signal: a \in {b \in file: b.moment >= now}}
              \/ emuPc' = "evaluate" /\ UNCHANGED <<settle, raised, leftover>>
           /\ UNCHANGED <<step, began, woke, results>>
  <2>1. step = 0 /\ results = None /\ raised = None
    BY <1>0 DEF EmuPlaces
  <2>2. RunTyped'
    <3>1. leftover' \subseteq Emu!Signals
      BY <1>0, <1>3, LabFacts DEF RunTyped
    <3> QED
      BY <1>0, <1>1, <1>3, <2>1, <3>1, PlanFacts DEF RunTyped
  <2>3. LabTyped'
    BY <1>0, <1>3 DEF LabTyped
  <2>4. Emu!TypeOK'
    BY <2>2, <2>3 DEF Emu!TypeOK, RunTyped, LabTyped
  <2>5. EmuPlaces' /\ EmuResults' /\ EmuTimes'
    BY <1>0, <1>3, <2>1 DEF EmuPlaces, EmuResults, EmuTimes, Executing, InStep, Writing
  <2>c. EmuCauses'
    BY <1>0, <1>3, LabFacts DEF EmuCauses, Stale, InStep
  <2>6. EmuRecord'
    <3>1. Done' = {}
      BY <1>3, <2>1, PlanFacts DEF Done
    <3>2. CASE emuPc' = "next" /\ observations' = <<>> /\ raised' = [i \in DOMAIN p |-> {}]
      <4>1. DOMAIN observations' = {}
        BY <3>2, EmptyPlan
      <4>2. DOMAIN observations' = {plan'[i].id: i \in Done'}
        BY <3>1, <4>1
      <4> QED
        BY <1>3, <3>1, <3>2, <4>2 DEF EmuRecord
    <3>3. CASE emuPc' = "evaluate" /\ UNCHANGED raised
      BY <2>1, <3>3 DEF EmuRecord, Executing, InStep
    <3> QED
      BY <1>3, <3>2, <3>3
  <2>7. EmuFiles'
    BY <1>3, <1>f
  <2> QED
    BY <2>4, <2>5, <2>c, <2>6, <2>7 DEF EmuInv
<1> QED
  BY <1>2, <1>3 DEF Emu!Main

LEMMA EndNext ==
    ASSUME EmuInv, Emu!Raises \/ Emu!WriteReport \/ Emu!Kill
    PROVE  EmuInv'
<1>0. RunTyped /\ EmuPlaces /\ EmuFiles /\ EmuResults
  BY EmuTypes DEF EmuInv
<1>1. \E status \in {"ok", "raised", "killed"}: Emu!Exit(status)
  BY DEF Emu!Raises, Emu!WriteReport, Emu!Kill
<1>2. UNCHANGED <<now, flying, file, emuRuns>> /\ emuRuns' \in 0..MaxRuns /\ emuPc' = "idle"
  BY <1>0 DEF Emu!Raises, Emu!WriteReport, Emu!Kill, Emu!Exit, RunTyped
<1>3. \/ emuFiles' = emuFiles \/ emuFiles' = [emuFiles EXCEPT !.observations = None]
      \/ emuFiles' = [emuFiles EXCEPT !.results = None] \/ emuFiles' = [emuFiles EXCEPT !.report = None]
      \/ emuPc = "write3" /\ emuFiles' = [emuFiles EXCEPT !.report = [run |-> emuRuns, results |-> results]]
  BY DEF Emu!Raises, Emu!WriteReport, Emu!Kill
<1>4. DOMAIN emuFiles' = {"observations", "results", "report"}
  BY <1>0, <1>3 DEF EmuPlaces
<1>5. EmuFiles'
  <2>1. CASE emuFiles' = emuFiles \/ emuFiles' = [emuFiles EXCEPT !.observations = None]
             \/ emuFiles' = [emuFiles EXCEPT !.results = None] \/ emuFiles' = [emuFiles EXCEPT !.report = None]
    <3>1. /\ emuFiles'.observations \in {emuFiles.observations, None}
          /\ emuFiles'.results \in {emuFiles.results, None} /\ emuFiles'.report \in {emuFiles.report, None}
      BY <1>0, <2>1 DEF EmuPlaces
    <3> QED
      BY <1>0, <1>2, <3>1 DEF EmuFiles, Emu!ReplayReproduces
  <2>2. CASE emuPc = "write3" /\ emuFiles' = [emuFiles EXCEPT !.report = [run |-> emuRuns, results |-> results]]
    <3>1. /\ emuFiles'.observations = emuFiles.observations /\ emuFiles'.results = emuFiles.results
          /\ emuFiles'.report = [run |-> emuRuns, results |-> results]
          /\ emuRuns \in 0..emuRuns
      BY <1>0, <2>2 DEF EmuPlaces, RunTyped
    <3> QED
      BY <1>0, <1>2, <2>2, <3>1 DEF EmuFiles, Emu!ReplayReproduces
  <2> QED
    BY <1>3, <2>1, <2>2
<1> QED
  BY <1>0, <1>1, <1>2, <1>4, <1>5, ExitFacts

LEMMA NextStepNext == EmuInv /\ Emu!NextStep => EmuInv'
<1> SUFFICES ASSUME EmuInv, Emu!NextStep PROVE EmuInv'
  OBVIOUS
<1>0. /\ RunTyped /\ LabTyped /\ EmuPlaces /\ EmuResults /\ EmuTimes /\ EmuCauses /\ EmuRecord
      /\ emuPc = "next" /\ plan \in Plans /\ step \in Nat
      /\ UNCHANGED <<now, flying, file, raised, leftover, emuRuns, settle, plan, woke, observations, results,
                     emuFiles, emuResult>>
  BY EmuTypes, PlanFacts DEF EmuInv, Emu!NextStep, Emu!labVars, EmuPlaces, RunTyped
<1>1. CASE step = Len(plan) /\ emuPc' = "evaluate" /\ UNCHANGED <<step, began>>
  <2>1. RunTyped' /\ LabTyped'
    BY <1>0, <1>1 DEF RunTyped, LabTyped
  <2>2. EmuPlaces' /\ EmuResults' /\ EmuTimes' /\ EmuCauses'
    BY <1>0, <1>1 DEF EmuPlaces, EmuResults, EmuTimes, EmuCauses, Executing, InStep, Writing
  <2>3. Done' = Done
    BY <1>0, <1>1 DEF Done, InStep
  <2>4. EmuRecord'
    BY <1>0, <1>1, <2>3 DEF EmuRecord, Executing, InStep, Faithful, Stale
  <2>5. EmuFiles'
    BY <1>0, <1>1, FilesStay
  <2> QED
    BY <2>1, <2>2, <2>4, <2>5 DEF EmuInv, Emu!TypeOK, RunTyped, LabTyped
<1>2. CASE /\ step # Len(plan) /\ step' = step + 1
           /\ \/ plan[step'].execute /\ emuPc' = "command" /\ began' = now
              \/ ~plan[step'].execute /\ emuPc' = "next" /\ UNCHANGED began
  <2>1. step' \in DOMAIN plan /\ step' \in 0..Len(plan)
    BY <1>0, <1>2, PlanFacts DEF RunTyped
  <2>2. RunTyped'
    BY <1>0, <1>2, <2>1 DEF RunTyped
  <2>3. LabTyped'
    BY <1>0, <1>2 DEF LabTyped
  <2>4. EmuPlaces' /\ EmuResults'
    BY <1>0, <1>2, <2>1 DEF EmuPlaces, EmuResults, Executing, InStep, Writing
  <2>5. EmuTimes'
    BY <1>0, <1>2, LabFacts, EmuConstants DEF EmuTimes
  <2>c. EmuCauses'
    <3>1. \A s: Stale(s, step) => Stale(s, step') /\ Stale(s, step' - 1)
      <4>1. 1..step \subseteq 1..step' /\ step' - 1 = step
        BY <1>0, <1>2
      <4> QED
        BY <4>1 DEF Stale
    <3>2. \A s: Stale(s, step') /\ Stale(s, step' - 1) =>
            s \in leftover' \/ (settle' <= AlertDelay /\ \E j \in 1..step': s \in raised'[j])
      BY <1>0 DEF Stale
    <3>3. /\ \A f \in flying': Stale(f.signal, step) /\ \A a \in file': now <= a.moment => Stale(a.signal, step)
      BY <1>0 DEF EmuCauses
    <3>4. CASE emuPc' = "next"
      BY <1>0, <3>1, <3>3, <3>4 DEF EmuCauses, Stale, InStep
    <3>5. CASE emuPc' = "command" /\ began' = now
      BY <1>0, <3>1, <3>3, <3>5 DEF EmuCauses, Stale
    <3> QED
      BY <1>2, <3>4, <3>5
  <2>6. Done' = Done
    BY <1>0, <1>2, PlanFacts DEF Done, InStep
  <2>7. EmuRecord'
    BY <1>0, <1>2, <2>6 DEF EmuRecord, Executing, InStep, Faithful, Stale
  <2>8. EmuFiles'
    BY <1>0, <1>2, FilesStay
  <2> QED
    BY <2>2, <2>3, <2>4, <2>5, <2>c, <2>7, <2>8 DEF EmuInv, Emu!TypeOK, RunTyped, LabTyped
<1> QED
  BY <1>1, <1>2 DEF Emu!NextStep

LEMMA AttackNext == EmuInv /\ Emu!Attack => EmuInv'
<1> SUFFICES ASSUME EmuInv, Emu!Attack PROVE EmuInv'
  OBVIOUS
<1>0. /\ RunTyped /\ LabTyped /\ EmuPlaces /\ EmuResults /\ EmuTimes /\ EmuCauses /\ EmuRecord
      /\ emuPc = "command" /\ emuPc' = "attacked" /\ plan \in Plans /\ step \in DOMAIN plan
      /\ DOMAIN raised = DOMAIN plan
      /\ UNCHANGED <<now, emuRuns, settle, plan, step, began, woke, file, leftover, observations, results,
                     emuFiles, emuResult>>
  BY EmuTypes DEF EmuInv, Emu!Attack, EmuPlaces, InStep, Executing
<1>1. PICK signals \in SUBSET Emu!SignalsOf(plan[step]):
        /\ raised' = [raised EXCEPT ![step] = signals]
        /\ flying' = flying \cup [signal: signals, age: {0}, moment: {None}]
  BY <1>0 DEF Emu!Attack
<1>2. signals \subseteq Emu!Signals /\ raised'[step] = signals /\ DOMAIN raised' = DOMAIN plan
  BY <1>0, <1>1, PlanFacts
<1>3. \A f \in flying' \ flying: /\ f.signal \in signals /\ f.age = 0 /\ f.moment = None
                                 /\ f \in [signal: signals, age: {0}, moment: {None}]
  BY <1>1
<1>4. \A s \in signals: \E f \in flying': f.signal = s /\ f.age = 0
  <2> SUFFICES ASSUME NEW s \in signals PROVE \E f \in flying': f.signal = s /\ f.age = 0
    OBVIOUS
  <2>1. [signal |-> s, age |-> 0, moment |-> None] \in flying'
    BY <1>1
  <2> QED
    BY <2>1
<1>5. RunTyped'
  BY <1>0, <1>2 DEF RunTyped
<1>6. LabTyped'
  <2>1. 0 \in 0..AlertDelay
    BY EmuConstants
  <2>2. flying' \subseteq [signal: Emu!Signals, age: 0..AlertDelay, moment: {None} \cup 0..now]
    BY <1>0, <1>2, <1>3, <2>1 DEF LabTyped
  <2> QED
    BY <1>0, <2>2 DEF LabTyped
<1>7. EmuPlaces' /\ EmuResults'
  BY <1>0, <1>2 DEF EmuPlaces, EmuResults, Executing, InStep, Writing
<1>8. EmuTimes'
  BY <1>0, <1>3 DEF EmuTimes
<1>k. \A i \in 1..step: \A s: Stale(s, i - 1) =>
        s \in leftover' \/ (settle' <= AlertDelay /\ \E j \in 1..(i - 1): s \in raised'[j])
  <2> SUFFICES ASSUME NEW i \in 1..step, NEW s, Stale(s, i - 1)
               PROVE  s \in leftover' \/ (settle' <= AlertDelay /\ \E j \in 1..(i - 1): s \in raised'[j])
    OBVIOUS
  <2>1. i - 1 \in Nat /\ step \in Nat
    BY <1>0, PlanFacts
  <2>2. \A j \in 1..(i - 1): raised'[j] = raised[j]
    BY <1>0, <1>1, <2>1
  <2> QED
    BY <1>0, <2>1, <2>2, StaleStays
<1>9. EmuCauses'
  <2>0. step \in 1..step /\ raised[step] = {}
    <3>1. step \notin Done
      BY <1>0, PlanFacts DEF Done, InStep
    <3>2. step \in 1..step
      BY <1>0, PlanFacts
    <3> QED
      BY <1>0, <3>1, <3>2 DEF EmuRecord, Executing, InStep
  <2>1. \A s: s \in raised[step] \/ Stale(s, step - 1) =>
          s \in leftover' \/ (settle' <= AlertDelay /\ \E j \in 1..(step - 1): s \in raised'[j])
    BY <1>k, <2>0
  <2>2. /\ \A f \in flying: f.signal \in raised[step] \/ Stale(f.signal, step - 1)
        /\ \A a \in file: began <= a.moment => a.signal \in raised[step] \/ Stale(a.signal, step - 1)
    BY <1>0 DEF EmuCauses, InStep
  <2>3. began + 0 <= now
    BY <1>0, LabFacts
  <2> QED
    BY <1>0, <1>2, <1>3, <1>4, <2>1, <2>2, <2>3 DEF EmuCauses, Stale
<1>10. EmuRecord'
  <2>1. Done' = Done /\ step \notin Done /\ \A i \in Done: i \in 1..step /\ i # step
    BY <1>0, PlanFacts DEF Done, InStep
  <2>2. \A i \in DOMAIN plan: i # step => raised'[i] = raised[i]
    BY <1>0, <1>1
  <2>3. /\ DOMAIN observations = {plan[i].id: i \in Done}
        /\ \A i \in Done: Faithful(observations[plan[i].id], i)
        /\ \A i \in DOMAIN plan \ Done: i = step \/ raised[i] = {}
    BY <1>0 DEF EmuRecord, Executing, InStep
  <2>4. \A i \in Done: Faithful(observations[plan[i].id], i)'
    <3> SUFFICES ASSUME NEW i \in Done PROVE Faithful(observations[plan[i].id], i)'
      OBVIOUS
    <3>1. raised'[i] = raised[i] /\ \A s: Stale(s, i - 1) =>
             s \in leftover' \/ (settle' <= AlertDelay /\ \E j \in 1..(i - 1): s \in raised'[j])
      BY <1>k, <2>1, <2>2 DEF Done
    <3>2. Faithful(observations[plan[i].id], i) /\ UNCHANGED <<observations, plan, settle>>
      BY <1>0, <2>3
    <3> QED
      BY <3>1, <3>2 DEF Faithful, Stale
  <2>5. \A i \in DOMAIN plan \ Done: i = step \/ raised'[i] = {}
    BY <2>2, <2>3
  <2>6. DOMAIN raised' = DOMAIN plan /\ emuPc' \in InStep
    BY <1>0, <1>2 DEF InStep
  <2> QED
    BY <1>0, <2>1, <2>3, <2>4, <2>5, <2>6 DEF EmuRecord
<1>11. EmuFiles'
  BY <1>0, FilesStay
<1> QED
  BY <1>5, <1>6, <1>7, <1>8, <1>9, <1>10, <1>11 DEF EmuInv, Emu!TypeOK, RunTyped, LabTyped

LEMMA CommandEndsNext == EmuInv /\ Emu!CommandEnds => EmuInv'
<1> SUFFICES ASSUME EmuInv, Emu!CommandEnds PROVE EmuInv'
  OBVIOUS
<1>0. /\ RunTyped /\ LabTyped /\ EmuPlaces /\ EmuResults /\ EmuTimes /\ EmuCauses /\ EmuRecord
      /\ emuPc = "attacked" /\ emuPc' = "settle" /\ woke' = now
      /\ UNCHANGED <<now, flying, file, raised, leftover, emuRuns, settle, plan, step, began, observations,
                     results, emuFiles, emuResult>>
  BY EmuTypes DEF EmuInv, Emu!CommandEnds, Emu!labVars
<1>1. RunTyped' /\ LabTyped'
  BY <1>0 DEF RunTyped, LabTyped
<1>2. EmuPlaces' /\ EmuResults' /\ EmuCauses'
  BY <1>0 DEF EmuPlaces, EmuResults, EmuCauses, Executing, InStep, Writing, Stale
<1>3. EmuTimes'
  BY <1>0, LabFacts, EmuConstants DEF EmuTimes
<1>4. Done' = Done
  BY <1>0 DEF Done, InStep
<1>5. EmuRecord'
  BY <1>0, <1>4 DEF EmuRecord, Executing, InStep, Faithful, Stale
<1>6. EmuFiles'
  BY <1>0, FilesStay
<1> QED
  BY <1>1, <1>2, <1>3, <1>5, <1>6 DEF EmuInv, Emu!TypeOK, RunTyped, LabTyped

(* By the end of a settle time that outlasts the detectors, the file has   *)
(* every alert of the step and of those before, and all are past.          *)
LEMMA ObserveNext == EmuInv /\ Emu!Observe => EmuInv'
<1> SUFFICES ASSUME EmuInv, Emu!Observe PROVE EmuInv'
  OBVIOUS
<1>0. /\ RunTyped /\ LabTyped /\ EmuPlaces /\ EmuResults /\ EmuTimes /\ EmuCauses /\ EmuRecord
      /\ emuPc = "settle" /\ emuPc' = "next" /\ now >= woke + settle
      /\ UNCHANGED <<now, flying, file, raised, leftover, emuRuns, settle, plan, step, began, woke, results,
                     emuFiles, emuResult>>
  BY EmuTypes DEF EmuInv, Emu!Observe, Emu!labVars
<1>1. /\ plan \in Plans /\ step \in DOMAIN plan /\ step \in Nat /\ step > 0 /\ plan[step].execute
      /\ Emu!UniqueIds(plan) /\ settle \in Nat
  BY <1>0, PlanFacts, EmuConstants DEF EmuPlaces, InStep, Emu!Valid, RunTyped
<1> DEFINE new == [started |-> began, finished |-> now, alerts |-> file]
<1>2. observations' = [id \in DOMAIN observations \cup {plan[step].id} |->
                         IF id = plan[step].id THEN new ELSE observations[id]]
  BY DEF Emu!Observe
<1>3. settle > AlertDelay => flying = {}
  <2> SUFFICES ASSUME settle > AlertDelay, NEW f \in flying PROVE FALSE
    OBVIOUS
  <2>1. now <= f.age + woke /\ f.age \in Nat /\ f.age <= AlertDelay /\ now \in Nat /\ woke \in Nat
    BY <1>0, LabFacts DEF EmuTimes
  <2> QED
    BY <1>0, <1>1, <2>1, EmuConstants
<1>4. settle > AlertDelay => \A a \in file: a.moment < now
  <2> SUFFICES ASSUME settle > AlertDelay, NEW a \in file PROVE a.moment < now
    OBVIOUS
  <2>1. a.moment <= woke + AlertDelay /\ a.moment \in Nat /\ now \in Nat /\ woke \in Nat
    BY <1>0, LabFacts DEF EmuTimes
  <2> QED
    BY <1>0, <1>1, <2>1, EmuConstants
<1>c. /\ \A f \in flying: f.signal \in raised[step] \/ Stale(f.signal, step - 1)
      /\ \A a \in file: began <= a.moment => a.signal \in raised[step] \/ Stale(a.signal, step - 1)
  BY <1>0 DEF EmuCauses, InStep
<1>5. Faithful(new, step)
  <2>1. new \in Emu!Observation
    <3>1. file \subseteq Emu!Alert
      BY <1>0 DEF LabTyped, Emu!Alert
    <3> QED
      BY <1>0, <3>1, LabFacts DEF Emu!Observation
  <2>2. \A a \in file: a.moment <= began + MaxBusy + AlertDelay
    <3> SUFFICES ASSUME NEW a \in file PROVE a.moment <= began + MaxBusy + AlertDelay
      OBVIOUS
    <3>1. a.moment <= woke + AlertDelay /\ woke <= began + MaxBusy
      BY <1>0 DEF EmuTimes
    <3> QED
      BY <1>0, <3>1, LabFacts, EmuConstants
  <2>3. settle > AlertDelay => \A s \in raised[step]: \E a \in file: a.signal = s /\ began <= a.moment /\ a.moment <= now
    BY <1>0, <1>3, LabFacts DEF EmuCauses
  <2> QED
    BY <1>c, <2>1, <2>2, <2>3 DEF Faithful
<1>6. RunTyped' /\ LabTyped'
  BY <1>0 DEF RunTyped, LabTyped
<1>7. EmuPlaces' /\ EmuResults' /\ EmuTimes'
  BY <1>0 DEF EmuPlaces, EmuResults, EmuTimes, Executing, InStep, Writing
<1>s. EmuCauses'
  <2>1. CASE settle > AlertDelay
    BY <1>0, <1>3, <1>4, <2>1, LabFacts DEF EmuCauses, InStep
  <2>2. CASE ~(settle > AlertDelay)
    <3>1. settle <= AlertDelay
      BY <1>1, <2>2, EmuConstants
    <3>2. \A s: s \in raised[step] \/ Stale(s, step - 1) =>
            s \in leftover \/ \E j \in 1..step: s \in raised[j]
      <4>1. step \in 1..step /\ 1..(step - 1) \subseteq 1..step
        BY <1>1
      <4> QED
        BY <4>1 DEF Stale
    <3>3. \A a \in file: now <= a.moment => began <= a.moment
      BY <1>0, LabFacts
    <3> QED
      BY <1>0, <1>c, <3>1, <3>2, <3>3 DEF EmuCauses, Stale, InStep
  <2> QED
    BY <2>1, <2>2
<1>8. Done' = Done \cup {step} /\ step \notin Done
  BY <1>0, <1>1, PlanFacts DEF Done, InStep
<1>9. EmuRecord'
  <2>1. /\ DOMAIN raised = DOMAIN plan
        /\ DOMAIN observations = {plan[i].id: i \in Done}
        /\ \A i \in Done: Faithful(observations[plan[i].id], i)
        /\ \A i \in DOMAIN plan \ Done: i = step \/ raised[i] = {}
    BY <1>0 DEF EmuRecord, Executing, InStep
  <2>2. DOMAIN observations' = {plan[i].id: i \in Done'}
    BY <1>2, <1>8, <2>1
  <2>3. \A i \in Done: plan[i].id # plan[step].id /\ plan[i].id \in DOMAIN observations
    BY <1>1, <1>8, <2>1 DEF Emu!UniqueIds, Done
  <2>4. \A i \in Done': Faithful(observations'[plan[i].id], i)
    <3> SUFFICES ASSUME NEW i \in Done' PROVE Faithful(observations'[plan[i].id], i)
      OBVIOUS
    <3>1. CASE i = step
      BY <1>2, <1>5, <3>1
    <3>2. CASE i \in Done
      <4>1. observations'[plan[i].id] = observations[plan[i].id]
        BY <1>2, <2>3, <3>2
      <4> QED
        BY <2>1, <3>2, <4>1
    <3> QED
      BY <1>8, <3>1, <3>2
  <2>5. \A i \in DOMAIN plan \ Done': raised[i] = {}
    BY <1>8, <2>1
  <2> QED
    BY <1>0, <2>1, <2>2, <2>4, <2>5 DEF EmuRecord, Faithful, Stale
<1>10. EmuFiles'
  <2>1. UNCHANGED <<emuFiles, emuRuns>> /\ emuPc = "settle" /\ emuPc' = "next" /\ EmuFiles
    BY <1>0 DEF EmuInv
  <2> QED
    BY <2>1 DEF EmuFiles, Emu!ReplayReproduces
<1> QED
  BY <1>6, <1>7, <1>s, <1>9, <1>10 DEF EmuInv, Emu!TypeOK, RunTyped, LabTyped

LEMMA WriteNext ==
    ASSUME EmuInv, Emu!EvaluateAll \/ Emu!WriteObservations \/ Emu!WriteResults
    PROVE  EmuInv'
<1>0. /\ RunTyped /\ LabTyped /\ EmuPlaces /\ EmuResults /\ EmuTimes /\ EmuRecord /\ EmuFiles
      /\ \/ emuPc = "evaluate" /\ emuPc' = "write" /\ results' = Emu!Evaluate(plan, observations) /\ UNCHANGED emuFiles
         \/ emuPc = "write" /\ emuPc' = "write2" /\ UNCHANGED results
              /\ emuFiles' = [emuFiles EXCEPT !.observations = [run |-> emuRuns, steps |-> observations]]
         \/ emuPc = "write2" /\ emuPc' = "write3" /\ UNCHANGED results
              /\ emuFiles' = [emuFiles EXCEPT !.results = [run |-> emuRuns, of |-> plan, results |-> results]]
      /\ UNCHANGED <<now, flying, file, raised, leftover, emuRuns, settle, plan, step, began, woke, observations,
                     emuResult>>
  BY EmuTypes DEF EmuInv, Emu!EvaluateAll, Emu!WriteObservations, Emu!WriteResults, Emu!labVars
<1>1. RunTyped' /\ LabTyped'
  BY <1>0 DEF RunTyped, LabTyped
<1>2. EmuPlaces' /\ EmuTimes' /\ EmuCauses' /\ EmuResults'
  BY <1>0 DEF EmuPlaces, EmuTimes, EmuCauses, EmuResults, Executing, InStep, Writing
<1>4. Done' = Done
  BY <1>0 DEF Done, InStep
<1>5. EmuRecord'
  BY <1>0, <1>4 DEF EmuRecord, Executing, InStep, Faithful, Stale
<1>6. EmuFiles'
  <2>0. emuRuns \in 0..emuRuns /\ DOMAIN emuFiles = {"observations", "results", "report"}
    BY <1>0 DEF RunTyped, EmuPlaces
  <2>1. CASE UNCHANGED emuFiles /\ emuPc = "evaluate" /\ emuPc' = "write"
    BY <1>0, <2>1 DEF EmuFiles, Emu!ReplayReproduces
  <2>2. CASE emuPc = "write" /\ emuPc' = "write2"
    <3>1. /\ emuFiles'.observations = [run |-> emuRuns, steps |-> observations]
          /\ emuFiles'.results = emuFiles.results /\ emuFiles'.report = emuFiles.report
      BY <1>0, <2>0, <2>2
    <3> QED
      BY <1>0, <2>0, <2>2, <3>1 DEF EmuFiles, Emu!ReplayReproduces
  <2>3. CASE emuPc = "write2" /\ emuPc' = "write3"
    <3>1. /\ emuFiles'.results = [run |-> emuRuns, of |-> plan, results |-> results] /\ UNCHANGED results
          /\ emuFiles'.observations = emuFiles.observations /\ emuFiles'.report = emuFiles.report
          /\ results = Emu!Evaluate(plan, observations)
      BY <1>0, <2>0, <2>3 DEF EmuResults, Writing
    <3> QED
      BY <1>0, <2>0, <2>3, <3>1 DEF EmuFiles, Emu!ReplayReproduces
  <2> QED
    BY <1>0, <2>1, <2>2, <2>3
<1> QED
  BY <1>1, <1>2, <1>5, <1>6 DEF EmuInv, Emu!TypeOK, RunTyped, LabTyped

(* The detectors and the clock leave the program's record alone.           *)
LEMMA RecordStays ==
    ASSUME EmuInv, UNCHANGED <<emuPc, emuRuns, settle, plan, step, began, woke, observations, results,
                               emuFiles, raised, leftover, emuResult>>
    PROVE  RunTyped' /\ EmuPlaces' /\ EmuResults' /\ EmuRecord' /\ EmuFiles'
<1>1. RunTyped /\ EmuPlaces /\ EmuResults /\ EmuRecord
  BY EmuTypes DEF EmuInv
<1>2. RunTyped' /\ EmuPlaces' /\ EmuResults'
  BY <1>1 DEF RunTyped, EmuPlaces, EmuResults, Executing
<1>3. Done' = Done
  BY DEF Done
<1>4. EmuFiles'
  BY FilesStay
<1> QED
  BY <1>1, <1>2, <1>3, <1>4 DEF EmuRecord, Executing, Faithful, Stale

LEMMA StampNext == ASSUME EmuInv, NEW f \in flying, Emu!Stamp(f) PROVE EmuInv'
<1> DEFINE g == [f EXCEPT !.moment = now]
<1>0. /\ LabTyped /\ EmuTimes /\ EmuCauses
      /\ flying' = (flying \ {f}) \cup {g} /\ f.moment = None
      /\ UNCHANGED <<emuPc, now, emuRuns, settle, plan, step, began, woke, file, observations, results,
                     emuFiles, raised, leftover, emuResult>>
  BY EmuTypes DEF EmuInv, Emu!Stamp
<1>1. RunTyped' /\ EmuPlaces' /\ EmuResults' /\ EmuRecord' /\ EmuFiles'
  BY <1>0, RecordStays
<1>2. /\ g.signal = f.signal /\ g.age = f.age /\ g.moment = now /\ f.age \in Nat /\ f.age <= AlertDelay
      /\ g \in [signal: Emu!Signals, age: 0..AlertDelay, moment: {None} \cup 0..now]
      /\ now \in Nat /\ began \in Nat /\ woke \in Nat /\ began <= now
  <2>1. f \in [signal: Emu!Signals, age: 0..AlertDelay, moment: {None} \cup 0..now]
    BY <1>0, LabFacts
  <2>2. now \in 0..now
    BY <1>0, LabFacts
  <2> QED
    BY <1>0, <2>1, <2>2, LabFacts
<1>3. LabTyped'
  BY <1>0, <1>2 DEF LabTyped
<1>4. EmuTimes'
  <2>1. now <= g.moment + g.age /\ g.moment + g.age <= now + AlertDelay
    BY <1>2, EmuConstants
  <2>2. f \in flying
    OBVIOUS
  <2> HIDE DEF g
  <2> QED
    BY <1>0, <1>2, <2>1, <2>2 DEF EmuTimes
<1>5. EmuCauses'
  BY <1>0, <1>2 DEF EmuCauses, Stale
<1> QED
  BY <1>1, <1>3, <1>4, <1>5 DEF EmuInv, Emu!TypeOK, RunTyped, LabTyped

LEMMA FlushNext == ASSUME EmuInv, NEW f \in flying, Emu!Flush(f) PROVE EmuInv'
<1> DEFINE b == [signal |-> f.signal, moment |-> f.moment]
<1>0. /\ LabTyped /\ EmuTimes /\ EmuCauses
      /\ flying' = flying \ {f} /\ f.moment # None /\ file' = file \cup {b}
      /\ UNCHANGED <<emuPc, now, emuRuns, settle, plan, step, began, woke, observations, results, emuFiles,
                     raised, leftover, emuResult>>
  BY EmuTypes DEF EmuInv, Emu!Flush
<1>1. RunTyped' /\ EmuPlaces' /\ EmuResults' /\ EmuRecord' /\ EmuFiles'
  BY <1>0, RecordStays
<1>2. /\ b.signal = f.signal /\ b.moment = f.moment /\ b \in [signal: Emu!Signals, moment: 0..now]
      /\ now \in Nat /\ began \in Nat /\ woke \in Nat /\ f.age \in Nat /\ f.moment \in Nat
  BY <1>0, LabFacts
<1>t. now <= f.moment + f.age /\ f.moment + f.age <= now + AlertDelay
  BY <1>0 DEF EmuTimes
<1>3. LabTyped'
  BY <1>0, <1>2 DEF LabTyped
<1>4. EmuTimes'
  <2>1. emuPc = "settle" => b.moment <= woke + AlertDelay
    <3>1. emuPc = "settle" => now <= f.age + woke
      BY <1>0 DEF EmuTimes
    <3> QED
      BY <1>2, <1>t, <3>1, EmuConstants
  <2> HIDE DEF b
  <2> QED
    BY <1>0, <2>1 DEF EmuTimes
<1>5. EmuCauses'
  <2>1. began + f.age <= now => began <= b.moment
    BY <1>2, <1>t
  <2>2. emuPc = "next" => Stale(b.signal, step)
    BY <1>0, <1>2 DEF EmuCauses
  <2>3. emuPc \in InStep => b.signal \in raised[step] \/ Stale(b.signal, step - 1)
    BY <1>0, <1>2 DEF EmuCauses
  <2>4. b \in file' /\ b.signal = f.signal
    BY <1>0
  <2> HIDE DEF b
  <2> QED
    BY <1>0, <2>1, <2>2, <2>3, <2>4 DEF EmuCauses, Stale
<1> QED
  BY <1>1, <1>3, <1>4, <1>5 DEF EmuInv, Emu!TypeOK, RunTyped, LabTyped

LEMMA EmuTickNext == EmuInv /\ Emu!Tick => EmuInv'
<1> SUFFICES ASSUME EmuInv, Emu!Tick PROVE EmuInv'
  OBVIOUS
<1> DEFINE Older(f) == [f EXCEPT !.age = @ + 1]
<1>0. /\ LabTyped /\ EmuTimes /\ EmuCauses
      /\ flying' = {Older(f): f \in flying} /\ now' = now + 1
      /\ \A f \in flying: f.age < AlertDelay
      /\ emuPc \in {"command", "attacked"} => now < began + MaxBusy
      /\ UNCHANGED <<emuPc, emuRuns, settle, plan, step, began, woke, file, observations, results,
                     emuFiles, raised, leftover, emuResult>>
  BY EmuTypes DEF EmuInv, Emu!Tick
<1>1. RunTyped' /\ EmuPlaces' /\ EmuResults' /\ EmuRecord' /\ EmuFiles'
  BY <1>0, RecordStays
<1>2. \A f \in flying:
        /\ Older(f).signal = f.signal /\ Older(f).age = f.age + 1 /\ Older(f).moment = f.moment
        /\ f.age \in Nat
        /\ Older(f) \in [signal: Emu!Signals, age: 0..AlertDelay, moment: {None} \cup 0..now']
  <2> SUFFICES ASSUME NEW f \in flying
               PROVE  /\ Older(f).signal = f.signal /\ Older(f).age = f.age + 1 /\ Older(f).moment = f.moment
                      /\ f.age \in Nat
                      /\ Older(f) \in [signal: Emu!Signals, age: 0..AlertDelay, moment: {None} \cup 0..now']
    OBVIOUS
  <2>1. f \in [signal: Emu!Signals, age: 0..AlertDelay, moment: {None} \cup 0..now] /\ f.age \in Nat
    BY <1>0, LabFacts
  <2>2. f.age + 1 \in 0..AlertDelay /\ 0..now \subseteq 0..now'
    BY <1>0, <2>1, LabFacts, EmuConstants
  <2> QED
    BY <2>1, <2>2
<1>3. LabTyped'
  <2>1. now' \in Nat /\ began' \in 0..now' /\ woke' \in 0..now'
    BY <1>0, LabFacts
  <2>2. flying' \subseteq [signal: Emu!Signals, age: 0..AlertDelay, moment: {None} \cup 0..now']
    BY <1>0, <1>2
  <2>3. file' \subseteq [signal: Emu!Signals, moment: 0..now']
    <3>1. 0..now \subseteq 0..now'
      BY <1>0, LabFacts
    <3> QED
      BY <1>0, <3>1 DEF LabTyped
  <2> QED
    BY <2>1, <2>2, <2>3 DEF LabTyped
<1>n. now \in Nat /\ began \in Nat /\ woke \in Nat
  BY <1>0, LabFacts
<1>4. EmuTimes'
  <2>1. ASSUME NEW f \in flying
        PROVE  /\ Older(f).moment # None =>
                    /\ now' <= Older(f).moment + Older(f).age
                    /\ Older(f).moment + Older(f).age <= now' + AlertDelay
               /\ emuPc = "settle" => now' <= Older(f).age + woke
    <3>1. f.moment # None => /\ now <= f.moment + f.age /\ f.moment + f.age <= now + AlertDelay
                             /\ f.moment \in Nat
      BY <1>0, LabFacts DEF EmuTimes
    <3>2. emuPc = "settle" => now <= f.age + woke
      BY <1>0 DEF EmuTimes
    <3>3. Older(f).age = f.age + 1 /\ Older(f).moment = f.moment /\ f.age \in Nat /\ now' = now + 1
      BY <1>0, <1>2
    <3> HIDE DEF Older
    <3> QED
      BY <1>n, <3>1, <3>2, <3>3, EmuConstants
  <2>2. emuPc \in {"command", "attacked"} => now' <= began + MaxBusy
    BY <1>0, <1>n, EmuConstants
  <2> HIDE DEF Older
  <2> QED
    BY <1>0, <2>1, <2>2 DEF EmuTimes
<1>5. EmuCauses'
  <2>1. \A g \in flying': \E f \in flying: g = Older(f)
    BY <1>0
  <2>2. \A f \in flying: Older(f) \in flying'
    BY <1>0
  <2>3. \A g \in flying': \E f \in flying: g.signal = f.signal
    BY <1>2, <2>1
  <2>4. \A f \in flying: \E g \in flying': g.signal = f.signal /\ (began + f.age <= now => began + g.age <= now')
    <3> SUFFICES ASSUME NEW f \in flying
                 PROVE \E g \in flying': g.signal = f.signal /\ (began + f.age <= now => began + g.age <= now')
      OBVIOUS
    <3>1. /\ Older(f) \in flying' /\ Older(f).signal = f.signal
          /\ (began + f.age <= now => began + Older(f).age <= now')
      BY <1>0, <1>2, <1>n, <2>2
    <3> QED
      BY <3>1
  <2>5. \A a \in file: now' <= a.moment => now <= a.moment
    BY <1>0, LabFacts
  <2>6. emuPc = "next" =>
          /\ \A g \in flying': Stale(g.signal, step)
          /\ \A a \in file: now' <= a.moment => Stale(a.signal, step)
    BY <1>0, <2>3, <2>5 DEF EmuCauses
  <2>7. emuPc \in InStep =>
          /\ \A g \in flying': g.signal \in raised[step] \/ Stale(g.signal, step - 1)
          /\ \A a \in file: began <= a.moment => a.signal \in raised[step] \/ Stale(a.signal, step - 1)
    BY <1>0, <2>3 DEF EmuCauses
  <2>8. emuPc \in {"attacked", "settle"} =>
          \A s \in raised[step]:
              \/ \E g \in flying': g.signal = s /\ began + g.age <= now'
              \/ \E a \in file: a.signal = s /\ began <= a.moment
    <3> SUFFICES ASSUME emuPc \in {"attacked", "settle"}, NEW s \in raised[step]
                 PROVE  \/ \E g \in flying': g.signal = s /\ began + g.age <= now'
                        \/ \E a \in file: a.signal = s /\ began <= a.moment
      OBVIOUS
    <3>1. CASE \E f \in flying: f.signal = s /\ began + f.age <= now
      BY <2>4, <3>1
    <3>2. CASE \E a \in file: a.signal = s /\ began <= a.moment
      BY <3>2
    <3> QED
      BY <1>0, <3>1, <3>2 DEF EmuCauses
  <2> QED
    BY <1>0, <2>6, <2>7, <2>8 DEF EmuCauses, Stale
<1> QED
  BY <1>1, <1>3, <1>4, <1>5 DEF EmuInv, Emu!TypeOK, RunTyped, LabTyped

LEMMA EmuNext == EmuInv /\ [Emu!Next]_emuVars => EmuInv'
<1>1. EmuInv /\ Emu!Next => EmuInv'
  <2> SUFFICES ASSUME EmuInv, Emu!Next PROVE EmuInv'
    OBVIOUS
  <2>1. CASE \E p \in Plans: Emu!Main(p)
    BY <2>1, MainNext
  <2>2. CASE Emu!Run
    BY <2>2, NextStepNext, ObserveNext, WriteNext, EndNext DEF Emu!Run
  <2>3. CASE Emu!Command
    BY <2>3, AttackNext, CommandEndsNext DEF Emu!Command
  <2>4. CASE Emu!Raises \/ Emu!Kill
    BY <2>4, EndNext
  <2>5. CASE Emu!Lab
    BY <2>5, StampNext, FlushNext DEF Emu!Lab
  <2>6. CASE Emu!Tick
    BY <2>6, EmuTickNext
  <2> QED
    BY <2>1, <2>2, <2>3, <2>4, <2>5, <2>6 DEF Emu!Next
<1>2. EmuInv /\ UNCHANGED emuVars => EmuInv'
  <2> SUFFICES ASSUME EmuInv, UNCHANGED emuVars PROVE EmuInv'
    OBVIOUS
  <2>1. Emu!TypeOK'
    BY DEF EmuInv, emuVars, Emu!TypeOK
  <2>2. EmuTimes' /\ EmuCauses'
    BY DEF EmuInv, emuVars, EmuTimes, EmuCauses, Stale
  <2>3. EmuPlaces' /\ EmuResults' /\ EmuRecord' /\ EmuFiles'
    BY RecordStays DEF emuVars
  <2> QED
    BY <2>1, <2>2, <2>3 DEF EmuInv
<1> QED
  BY <1>1, <1>2

(* What the evaluation says of one expectation.                            *)
Observed(p, obs, i) == IF p[i].id \in DOMAIN obs THEN obs[p[i].id] ELSE None

LEMMA Evaluated ==
    ASSUME NEW p, NEW obs, NEW i \in DOMAIN p, NEW k \in DOMAIN p[i].expectations
    PROVE  Emu!Evaluate(p, obs).steps[i][k]
             = Emu!Expectation(p[i].expectations[k], Observed(p, obs, i))
BY DEF Emu!Evaluate, Observed

LEMMA MinFacts == ASSUME NEW S \in SUBSET Nat, S # {} PROVE Emu!Min(S) \in S
<1> DEFINE Below == {x \in Nat \X Nat: x[1] < x[2]}
<1>1. IsWellFoundedOn(Below, Nat)
  BY NatLessThanWellFounded DEF OpToRel
<1>2. \E n \in S: \A l \in S: ~(<<l, n>> \in Below)
  <2> HIDE DEF Below
  <2> QED
    BY <1>1, WFMin
<1>3. \E n \in S: \A l \in S: n <= l
  <2>1. PICK n \in S: \A l \in S: ~(<<l, n>> \in Below)
    BY <1>2
  <2>2. ASSUME NEW l \in S PROVE n <= l
    <3>1. n \in Nat /\ l \in Nat /\ ~(l < n)
      BY <2>1
    <3> QED
      BY <3>1
  <2> QED
    BY <2>2
<1> QED
  BY <1>3 DEF Emu!Min

(* The results of a run, told from what its steps raised.                  *)
LEMMA ReportFacts ==
    ASSUME EmuInv, results # None, raised # None,
           NEW i \in DOMAIN plan, NEW k \in DOMAIN plan[i].expectations
    PROVE  /\ results.steps[i][k].detected =>
                plan[i].expectations[k].signal \in raised[i] \/ Stale(plan[i].expectations[k].signal, i - 1)
           /\ settle > AlertDelay /\ plan[i].expectations[k].signal \in raised[i] =>
                results.steps[i][k].detected
           /\ results.steps[i][k].detected => results.steps[i][k].mttd \in 0..(MaxBusy + AlertDelay)
<1> DEFINE e == plan[i].expectations[k]
           r == results.steps[i][k]
           obs == Observed(plan, observations, i)
           m == IF obs = None THEN {} ELSE Emu!Matching(obs.alerts, e.signal, obs.started, obs.finished)
<1>0. /\ emuPc \in Writing /\ results = Emu!Evaluate(plan, observations)
      /\ Emu!UniqueIds(plan) /\ EmuRecord
  BY DEF EmuInv, EmuResults, EmuPlaces, Emu!Valid, Writing
<1>1. r = Emu!Expectation(e, obs)
  BY <1>0, Evaluated
<1>2. /\ r.detected = (m # {})
      /\ r.mttd = IF m = {} THEN None ELSE Emu!Min({a.moment: a \in m}) - obs.started
  BY <1>1 DEF Emu!Expectation
<1>3. /\ DOMAIN observations = {plan[j].id: j \in Done}
      /\ \A j \in Done: Faithful(observations[plan[j].id], j)
      /\ \A j \in DOMAIN plan \ Done: raised[j] = {}
  BY <1>0 DEF EmuRecord, InStep, Writing
<1>4. CASE i \in Done
  <2>1. obs = observations[plan[i].id] /\ Faithful(obs, i)
    BY <1>3, <1>4 DEF Observed
  <2>2. obs # None /\ obs.started \in Nat /\ obs.alerts \subseteq Emu!Alert
    BY <2>1, EmuConstants DEF Faithful, Emu!Observation
  <2>3. \A a: a \in m <=> /\ a \in obs.alerts /\ a.signal = e.signal
                          /\ obs.started <= a.moment /\ a.moment <= obs.finished
    BY <2>2 DEF Emu!Matching
  <2>4. /\ m # {} => e.signal \in raised[i] \/ Stale(e.signal, i - 1)
        /\ settle > AlertDelay /\ e.signal \in raised[i] => m # {}
    BY <2>1, <2>3 DEF Faithful
  <2>5. m # {} => Emu!Min({a.moment: a \in m}) - obs.started \in 0..(MaxBusy + AlertDelay)
    <3> SUFFICES ASSUME m # {}
                 PROVE  Emu!Min({a.moment: a \in m}) - obs.started \in 0..(MaxBusy + AlertDelay)
      OBVIOUS
    <3> DEFINE moments == {a.moment: a \in m}
    <3>1. moments \in SUBSET Nat /\ moments # {}
      BY <2>2, <2>3 DEF Emu!Alert
    <3>3. Emu!Min(moments) \in moments
      <4> HIDE DEF moments
      <4> QED
        BY <3>1, MinFacts
    <3>4. PICK a \in m: Emu!Min(moments) = a.moment
      BY <3>3
    <3>5. /\ a.moment \in Nat /\ obs.started <= a.moment
          /\ a.moment <= obs.started + MaxBusy + AlertDelay
      BY <2>1, <2>2, <2>3 DEF Faithful, Emu!Alert
    <3> QED
      BY <2>2, <3>4, <3>5, EmuConstants
  <2> QED
    BY <1>2, <2>4, <2>5
<1>5. CASE i \notin Done
  <2>1. plan[i].id \notin DOMAIN observations
    BY <1>0, <1>3, <1>5 DEF Emu!UniqueIds, Done
  <2>2. obs = None /\ m = {} /\ raised[i] = {}
    BY <1>3, <1>5, <2>1 DEF Observed
  <2> QED
    BY <1>2, <2>2
<1> QED
  BY <1>4, <1>5

LEMMA EmuReports == EmuInv => DetectionCaused
<1> SUFFICES ASSUME EmuInv PROVE Emu!DetectionCaused /\ Emu!NothingMissed /\ Emu!MttdPlausible
  BY DEF DetectionCaused
<1>1. Emu!DetectionCaused
  BY ReportFacts DEF Emu!DetectionCaused, Emu!Reported, Stale
<1>2. Emu!NothingMissed
  BY ReportFacts DEF Emu!NothingMissed, Emu!Reported
<1>3. Emu!MttdPlausible
  BY ReportFacts DEF Emu!MttdPlausible, Emu!Reported
<1> QED
  BY <1>1, <1>2, <1>3

-----------------------------------------------------------------------------
(* The three programs together: a step of one leaves the others alone.     *)
IInv == LokiInv /\ LabInv /\ EmuInv

LEMMA ProgramSteps ==
    [Next]_vars => [Loki!Next]_lokiVars /\ [Lab!Next]_labVars /\ [Emu!Next]_emuVars
BY DEF Next, Smoke, InLab, Emulate, vars

LEMMA InitIInv == Init => IInv
BY LokiInit, LabInit, EmuInit DEF Init, IInv

LEMMA NextIInv == IInv /\ [Next]_vars => IInv'
BY ProgramSteps, LokiNext, LabNext, EmuNext DEF IInv

(* The inductive invariant holds throughout, for any rules, streams, plans *)
(* and settle times, and any waits and delays within the assumptions that  *)
(* the three components name.                                              *)
THEOREM Invariance == Spec => []IInv
<1> QED
  BY InitIInv, NextIInv, PTL DEF Spec

(* The state of each program is well typed: no alert is under way in a     *)
(* stack that is down, no moment lies in the future.                       *)
THEOREM TypeCorrect == Spec => []TypeOK
<1>1. IInv => TypeOK
  BY DEF IInv, LokiInv, LabInv, EmuInv, TypeOK
<1> QED
  BY <1>1, Invariance, PTL

(* loki_check.py: the smoke test passes only what its own attack lines     *)
(* fired and its benign lines did not, and fails no stack that does what   *)
(* the cases say, whatever is late, left over or killed.                   *)
THEOREM VerdictCorrect == Spec => []VerdictDeserved
<1>1. IInv => VerdictDeserved
  BY DEF IInv, LokiInv, LokiVerdicts, VerdictDeserved
<1> QED
  BY <1>1, Invariance, PTL

(* loki_check.py --no-docker: a summary it accepts was earned by the run   *)
(* that wrote it.  Wherever a run was killed, files of one run agree, of   *)
(* two runs the summary is the older, and a verdict leaves two of its own. *)
THEOREM EvidenceCorrect == Spec => []EvidenceEarned
<1>1. IInv => EvidenceEarned
  BY DEF IInv, LokiInv, LokiVerdicts, LokiFiles, EvidenceEarned
<1> QED
  BY <1>1, Invariance, PTL

(* lab_loki_check.py: rules recorded as firing fired at one moment, and    *)
(* the two files of a run with a verdict agree.                            *)
THEOREM FiringCorrect == Spec => []FiringTogether
<1>1. IInv => FiringTogether
  BY DEF IInv, LabInv, LabEvidence, FiringTogether
<1> QED
  BY <1>1, Invariance, PTL

(* run_emulation.py: whatever is late or of an earlier run, a detection is *)
(* of its own step or still under way from an earlier run, or of an        *)
(* earlier step if the settle time is no longer than a detector may take;  *)
(* if it is longer, what a step raised is detected; and times to detect    *)
(* are those that the delays of command and detector allow.                *)
THEOREM DetectionCorrect == Spec => []DetectionCaused
<1>1. IInv => DetectionCaused
  BY EmuReports DEF IInv
<1> QED
  BY <1>1, Invariance, PTL

(* lab_loki_check.py: the samples reach back to the lines that made the    *)
(* rules fire: if all fired together, a stream without a sample has lines  *)
(* of the second that is running, and no other in the window.              *)
THEOREM SamplesCorrect == Spec => SamplesReachBack
<1>1. IInv /\ [Next]_vars =>
        [seen = LabRules => \A s \in asked' \ (asked \cup samples'): s \in fresh /\ age[s] = Window]_(Lab!vars)
  <2> SUFFICES ASSUME LabInv, Lab!Next, seen = LabRules, NEW s \in asked' \ (asked \cup samples')
               PROVE  s \in fresh /\ age[s] = Window
    BY ProgramSteps DEF IInv, labVars, Lab!vars, Lab!labVars
  <2>1. s \in Streams /\ Lab!Sample(s)
    BY DEF Lab!Next, Lab!Check, Lab!Lab, Lab!Start, Lab!GetFails, Lab!Poll, Lab!Sample, Lab!WriteSummary,
           Lab!WriteEvents, Lab!Traffic, Lab!Evaluate, Lab!Tick, Lab!Kill, Lab!Exit
  <2>2. s \in Streams /\ age[s] = Window
    BY <2>1 DEF Lab!Sample
  <2>3. labPc = "sample" /\ labTimer \in 0..Wait
    BY <2>1 DEF Lab!Sample, LabInv, Lab!TypeOK
  <2>4. s \in fresh \/ age[s] <= Lookback + labTimer
    BY <2>2, <2>3 DEF LabInv, LabPlaces
  <2> QED
    BY <2>2, <2>3, <2>4, LabConstants
<1> QED
  BY <1>1, Invariance, PTL DEF Spec, SamplesReachBack, Lab!SamplesReachBack

(* run_emulation.py: a run that comes to its end leaves three files of its *)
(* own, and one that executed leaves observations only when each step it   *)
(* executes was observed.                                                  *)
LEMMA EvidenceStep ==
    ASSUME EmuInv, Emu!Next
    PROVE  /\ emuPc = "write3" /\ emuResult' = "ok" =>
                \A f \in {"observations", "results", "report"}: emuFiles'[f].run = emuRuns
           /\ emuFiles'.observations \notin {emuFiles.observations, None} /\ raised # None =>
                DOMAIN emuFiles'.observations.steps = {plan[i].id: i \in {j \in DOMAIN plan: plan[j].execute}}
<1>0. EmuPlaces /\ EmuResults /\ EmuRecord /\ EmuFiles /\ DOMAIN emuFiles = {"observations", "results", "report"}
  BY DEF EmuInv, EmuPlaces
<1>1. CASE Emu!WriteReport
  BY <1>0, <1>1 DEF Emu!WriteReport, EmuFiles
<1>2. CASE Emu!WriteObservations
  <2>1. emuFiles'.observations.steps = observations /\ emuPc = "write"
    BY <1>0, <1>2 DEF Emu!WriteObservations
  <2>2. ASSUME raised # None PROVE DOMAIN observations = {plan[i].id: i \in {j \in DOMAIN plan: plan[j].execute}}
    <3>1. step = Len(plan) /\ plan \in Plans /\ DOMAIN observations = {plan[i].id: i \in Done}
      BY <1>0, <2>1, <2>2 DEF EmuPlaces, EmuRecord, Writing
    <3>2. Done = {j \in DOMAIN plan: plan[j].execute}
      BY <2>1, <3>1, PlanFacts DEF Done, InStep
    <3> QED
      BY <3>1, <3>2
  <2> QED
    BY <2>1, <2>2
<1>3. CASE Emu!Kill
  BY <1>0, <1>3 DEF Emu!Kill, Emu!Exit
<1>4. CASE Emu!WriteResults
  BY <1>0, <1>4 DEF Emu!WriteResults
<1>5. CASE emuFiles' = emuFiles /\ (emuPc # "write3" \/ emuResult' # "ok")
  BY <1>5
<1>6. Emu!WriteReport \/ Emu!WriteResults \/ Emu!WriteObservations \/ Emu!Kill
        \/ (emuFiles' = emuFiles /\ (emuPc # "write3" \/ emuResult' # "ok"))
  BY <1>0 DEF Emu!Next, Emu!Run, Emu!Command, Emu!Lab, Emu!Main, Emu!NextStep, Emu!Attack, Emu!CommandEnds,
     Emu!Raises, Emu!Observe, Emu!EvaluateAll, Emu!Stamp, Emu!Flush, Emu!Tick, EmuPlaces
<1> QED
  BY <1>1, <1>2, <1>3, <1>4, <1>5, <1>6

(* run_emulation.py: results on file are the evaluation of the             *)
(* observations beside them, and the report shows them, if they are of one *)
(* run; a kill between the writes leaves the file written first newer.     *)
THEOREM ReplayCorrect == Spec => ReplayReproduces
<1>1. IInv' => [Emu!ReplayReproduces']_vars
  BY DEF IInv, EmuInv, EmuFiles
<1>2. IInv /\ [Next]_vars =>
        [emuPc = "write3" /\ emuResult' = "ok" =>
           \A f \in {"observations", "results", "report"}: emuFiles'[f].run = emuRuns]_(Emu!vars)
  BY ProgramSteps, EvidenceStep DEF IInv, emuVars, Emu!vars, Emu!labVars
<1>3. IInv /\ [Next]_vars =>
        [emuFiles'.observations \notin {emuFiles.observations, None} /\ raised # None =>
           DOMAIN emuFiles'.observations.steps
             = {plan[i].id: i \in {j \in DOMAIN plan: plan[j].execute}}]_(Emu!vars)
  BY ProgramSteps, EvidenceStep DEF IInv, emuVars, Emu!vars, Emu!labVars
<1> QED
  BY <1>1, <1>2, <1>3, Invariance, PTL DEF Spec, ReplayReproduces, Emu!WholeResults, Emu!OnlyWholeRuns
=============================================================================
