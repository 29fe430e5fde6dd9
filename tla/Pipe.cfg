CONSTANTS
    Edge = {e1}
    Chunk = {x, y, z}
    Descriptor = {d1, d2}
    Capacity = 2
    Maximum <- TwoChunks
    MaxIo = 2
    MaxReads = 1
    Root <- EveryEdge
    None = None
SPECIFICATION FairSpec
INVARIANTS TypeOK NoLostWakeup AcknowledgedIsKept GoodEndIsComplete
PROPERTIES ImplementsPipe NothingHangs
CHECK_DEADLOCK FALSE
