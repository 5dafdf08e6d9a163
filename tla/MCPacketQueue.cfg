\* Two producers, two consumers and close(): more threads than room.
CONSTANTS
    Producers = {p1, p2}
    Consumers = {c1, c2}
    Closer = closer
    NoThread = NoThread
    MaxSize = 2
    MaxPushes = 2

SPECIFICATION FairSpec

INVARIANTS
    TypeOK
    Fifo
    NoLostFrameWakeup
    NoLostRoomWakeup
    CloseWakesSleepers
    EndMeansDrained
PROPERTIES
    PushReturns
    CloseEndsConsumers
    ImplementsChannel
