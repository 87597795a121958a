\* Four requests, two slots, four places: both slots are owned at once while
\* two more runs queue for a permit.
SPECIFICATION Spec
CONSTANTS
    r1 = r1
    r2 = r2
    r3 = r3
    r4 = r4
    Requests <- FourRequests
    MaxParallelWorkers = 2
    MaxPendingRuns = 4
    SlotTicks = 2
SYMMETRY RequestSymmetry
INVARIANTS
    TypeOK
    Accounting
    RunnersHoldSlots
PROPERTIES
    NoOvertaking
    ImplementsPromise
