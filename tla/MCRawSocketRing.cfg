\* A ring of six frames and seven arrivals.
CONSTANTS
    BlockNr = 3
    BlockFrames = 2
    MaxArrivals = 7

SPECIFICATION FairSpec

INVARIANTS
    ExclusiveOwnership
    CursorInBlock
    RingFifo
    NoStandoff
PROPERTIES
    DropOnlyWhenRingFull
    StopEndsLoop
    AcceptedIsDelivered
