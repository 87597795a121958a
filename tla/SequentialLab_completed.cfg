\* The script is run again after a failure.
SPECIFICATION Spec
CONSTANTS
    Scenarios <- FaultyScenario
    SessionSlots = 2
    Rounds = 1
    StartSeed = 1
INVARIANTS
    CompletedMeansReports
