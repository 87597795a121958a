\* Two requests of any kind, under fairness, with release padding.
SPECIFICATION FairSpec
CONSTANTS
    r1 = r1
    r2 = r2
    r3 = r3
    NoInput = NoInput
    Requests <- TwoRequests
    SessionSlots = 2
    MaxPending = 2
    StateBytes = 1
    MaxChunkBytes = 1
    CutoffTicks = 1
    ReleaseTicks = 2
    Kinds = {"turn", "chunk", "reset"}
    MaxSequence = 1
INVARIANTS
    CountersExact
PROPERTIES
    EveryTaskEnds
    ImplementsLog
