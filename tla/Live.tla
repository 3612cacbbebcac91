-------------------------------- MODULE Live --------------------------------
(***************************************************************************)
(* The three programs that drive a live system, one of them in each        *)
(* behaviour: the Loki smoke test, the lab check and the emulation runner. *)
(***************************************************************************)
CONSTANTS
    LokiRules, Expected, ReadyWait, BenignWait, AttackWait, LokiDelay,   \* loki_check.py
    LabRules, Streams, StreamOf, Wait, Lookback, Window,                 \* lab_loki_check.py
    Plans, Techniques, Detects, Settles, AlertDelay, MaxBusy,            \* run_emulation.py
    MaxRuns, None

VARIABLES
    program,
    pc, failed, timer, up, ready, inflight, received, fired, false_positives, observed, alerts,
    files, result, verified, runs,
    labPc, labTimer, labRuns, scheme, fresh, age, firing, seen, samples, asked, labFiles, labResult,
    together,
    emuPc, now, emuRuns, settle, plan, step, began, woke, flying, file, observations, results,
    emuFiles, raised, leftover, emuResult

lokiVars == <<pc, failed, timer, up, ready, inflight, received, fired, false_positives, observed,
              alerts, files, result, verified, runs>>
labVars == <<labPc, labTimer, labRuns, scheme, fresh, age, firing, seen, samples, asked,
             labFiles, labResult, together>>
emuVars == <<emuPc, now, emuRuns, settle, plan, step, began, woke, flying, file, observations,
             results, emuFiles, raised, leftover, emuResult>>
vars == <<program, lokiVars, labVars, emuVars>>

Loki == INSTANCE LokiCheck WITH Rules <- LokiRules, MaxDelay <- LokiDelay

Lab == INSTANCE LabCheck WITH
    Rules <- LabRules,
    pc <- labPc, timer <- labTimer, runs <- labRuns, observed <- seen, files <- labFiles,
    result <- labResult

Emu == INSTANCE Emulation WITH
    MaxDelay <- AlertDelay,
    pc <- emuPc, runs <- emuRuns, inflight <- flying, files <- emuFiles, result <- emuResult

ASSUME LokiHolds == Loki!LokiAssumption
ASSUME LabHolds == Lab!LabAssumption
ASSUME EmulationHolds == Emu!EmulationAssumption

Init ==
    /\ Loki!Init /\ Lab!Init /\ Emu!Init
    /\ \/ program = "loki_check" /\ scheme = "http"
       \/ program = "lab_loki_check"
       \/ program = "run_emulation" /\ scheme = "http"

Smoke(A) == program = "loki_check" /\ A /\ UNCHANGED <<program, labVars, emuVars>>
InLab(A) == program = "lab_loki_check" /\ A /\ UNCHANGED <<program, lokiVars, emuVars>>
Emulate(A) == program = "run_emulation" /\ A /\ UNCHANGED <<program, lokiVars, labVars>>

Next == Smoke(Loki!Next) \/ InLab(Lab!Next) \/ Emulate(Emu!Next)

Spec ==
    /\ Init /\ [][Next]_vars
    /\ WF_vars(Smoke(Loki!Check)) /\ WF_vars(Smoke(Loki!Stack)) /\ WF_vars(Smoke(Loki!Tick))
    /\ WF_vars(InLab(Lab!Check)) /\ WF_vars(InLab(Lab!Tick))
    /\ WF_vars(Emulate(Emu!Run)) /\ WF_vars(Emulate(Emu!Lab)) /\ WF_vars(Emulate(Emu!Tick))
-----------------------------------------------------------------------------
(* Each program's state is well typed.                                     *)
TypeOK == Loki!TypeOK /\ Lab!TypeOK /\ Emu!TypeOK

(* loki_check.py: a pass was earned by the alerts of its own run, and a    *)
(* stack that does what the cases say is not blamed.                       *)
VerdictDeserved == Loki!PassIsEarned /\ Loki!NoFalseAlarm

(* loki_check.py --no-docker: a summary that is accepted was written by a  *)
(* run that earned it; files of one run agree, of two runs the summary is  *)
(* the older, and a verdict leaves two files of its own run.               *)
EvidenceEarned == Loki!EvidenceEarned /\ Loki!EvidenceOfOneRun

(* lab_loki_check.py: rules recorded as firing fired together, and a run   *)
(* leaves a summary and samples that agree.                                *)
FiringTogether == Lab!FiringTogether /\ Lab!FilesAgree

(* lab_loki_check.py: if all rules fired together, a stream without a      *)
(* sample has no line in the window but of the second that is running.     *)
SamplesReachBack == Lab!SamplesReachBack

(* run_emulation.py: a detection is of its own step, or of a signal still  *)
(* under way from an earlier run; only a settle time no longer than the    *)
(* detectors may take lets in earlier steps and misses what was raised.    *)
(* Times to detect are possible ones.                                      *)
DetectionCaused == Emu!DetectionCaused /\ Emu!NothingMissed /\ Emu!MttdPlausible

(* run_emulation.py: a replay of the saved observations gives the saved    *)
(* results and report, if the files are of one run, whatever was killed    *)
(* between the writes; a run that ends leaves three files of its own, and  *)
(* one that raised leaves no observations.                                 *)
ReplayReproduces == [][Emu!ReplayReproduces']_vars /\ Emu!WholeResults /\ Emu!OnlyWholeRuns

(* Every run of each program ends, unless docker compose or a step's       *)
(* command, for which the code sets no time limit, never returns.          *)
EveryRunEnds == Loki!Ends /\ Lab!Ends /\ Emu!Ends
=============================================================================
