SPECIFICATION Spec
CONSTANTS
    r1 = r1
    r2 = r2
    s1 = s1
    s2 = s2
    None = None
    LokiRules <- MCRules
    Expected <- MCExpected
    ReadyWait = 1
    BenignWait = 2
    AttackWait = 3
    LokiDelay = 1
    LabRules <- MCRules
    Streams <- MCStreams
    StreamOf <- MCStreamOf
    Wait = 1
    Lookback = 1
    Window = 3
    Plans <- MCPlans
    Techniques <- MCTechniques
    Detects <- MCDetects
    Settles <- MCSettles
    AlertDelay = 1
    MaxBusy = 0
    MaxRuns = 2
INVARIANTS
    TypeOK
    VerdictDeserved
    EvidenceEarned
    FiringTogether
    DetectionCaused
PROPERTIES
    SamplesReachBack
    ReplayReproduces
    EveryRunEnds
CHECK_DEADLOCK FALSE
