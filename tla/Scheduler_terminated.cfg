\* One slot, so that a second run can start while the first runner dies.
SPECIFICATION Spec
CONSTANTS
    r1 = r1
    r2 = r2
    r3 = r3
    r4 = r4
    Requests <- ThreeRequests
    MaxParallelWorkers = 1
    MaxPendingRuns = 2
    SlotTicks = 1
INVARIANTS
    TerminatedByRelease
