\* Two scenarios on a server with two sessions, each with room for two chunks
\* and a rest.
SPECIFICATION FairSpec
CONSTANTS
    Scenarios <- TwoScenarios
    SessionSlots = 2
    StateBytes = 5
    ChunkBytes = 2
INVARIANTS
    Conservation
    Verified
    FailsOnlyOnLoss
PROPERTIES
    BenchEnds
