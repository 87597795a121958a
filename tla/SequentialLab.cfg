\* The script with both jobs of one seed, over all scenarios.
SPECIFICATION Spec
CONSTANTS
    Scenarios <- AllScenarios
    SessionSlots = 2
    Rounds = 1
    StartSeed = 1
INVARIANTS
    TypeOK
    PlanBalanced
    AcceptanceJust
    ChannelDecodes
    NullStratified
