\* Three requests, one slot, two places, under fairness.
SPECIFICATION FairSpec
CONSTANTS
    r1 = r1
    r2 = r2
    r3 = r3
    r4 = r4
    Requests <- ThreeRequests
    MaxParallelWorkers = 1
    MaxPendingRuns = 2
    SlotTicks = 1
PROPERTIES
    EveryRunEnds
    ImplementsFairness
