\* Every module with at most two memories around the page limit, every fault.
SPECIFICATION FairSpec
CONSTANTS
    Kind = "lab"
    MaxPages = 1
    Fuel = 2
    SmokeTest = FALSE
    PageBound = 2
    StatePages = 1
    None = None
INVARIANTS
    TypeOK
    ParsedOnlyInSandbox
    VerdictJust
PROPERTIES
    RunnerEnds
