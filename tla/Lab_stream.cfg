\* Chunks and resets of two sessions: right and wrong sequence numbers, sessions
\* that two chunks fill and a third does not fit in, no release padding.
SPECIFICATION Spec
CONSTANTS
    r1 = r1
    r2 = r2
    r3 = r3
    NoInput = NoInput
    Requests <- ThreeRequests
    SessionSlots = 2
    MaxPending = 2
    StateBytes = 2
    MaxChunkBytes = 1
    CutoffTicks = 1
    ReleaseTicks = 0
    Kinds = {"chunk", "reset"}
    MaxSequence = 2
SYMMETRY RequestSymmetry
INVARIANTS
    TypeOK
    Accounting
    SerializedRunners
    SessionExact
    CopyIsFresh
PROPERTIES
    ImplementsLog
