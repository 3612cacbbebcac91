SPECIFICATION Spec
CONSTANTS
    None = None
    Raw = Raw
    BaseEvents <- MCBaseEvents
    BaseRules <- MCBaseRules
    Addresses <- MCAddresses
    Zones <- MCZones
    Conduits <- MCConduits
    ConEvents <- MCConEvents
    ConEdits = 3
    Samples <- MCSamples
    EvRules <- MCEvRules
    EvEdits = 2
    MeRules <- MCMeRules
    MeLabels <- MCMeLabels
    Techniques <- MCTechniques
    MeEdits = 2
    TelInputs <- MCTelInputs
    MatRules <- MCMatRules
    MatEvents <- MCMatEvents
    MaxRuns = 2
INVARIANTS
    TypeOK
    AlertsExact
    VerdictSound
    GreenMeansCurrent
    EvidenceOfThisRun
    ReportsTrue
PROPERTIES
    CollectorHonest
    MoreKnownIsQuieter
CHECK_DEADLOCK FALSE
