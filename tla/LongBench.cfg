\* Both runs of one seed, two attempts each, five trials, two calibration
\* samples per bit, three faults.
SPECIFICATION FairSpec
CONSTANTS
    Offsets <- OneOffset
    Per = 2
    Spare = 1
    Trials = 5
    Roles = {"sender", "probe", "background"}
    Rounds = 1
    StartSeed = 1
    MaxFaults = 3
    Retries = 2
INVARIANTS
    TypeOK
    CompleteMeansAll
    WedgedOnlyForCause
    
PROPERTIES
    ReportsPreserved
    ScriptEnds
