CONSTANTS
    Path = {p}
    Upload = {u1}
    Caller = {c1}
    Drain = {d1}
    Ttl = 1
    VerifyLease = 1
    Grace = 1
    Retention = 1
    ReadLease = 1
    Batch = 2
    BackoffCap = 2
    MaxTime = 4
    LastOp = 0
    MaxVersion = 1
    MaxPuts = 1
    MaxArms = 4
    MaxFaults = 1
    MaxCrashes = 0
    None = None
    Inline = Inline
    NoRow = NoRow
    Subtrees <- NoSubtrees
    HostTimes <- HostAtThree
SPECIFICATION FairSpec
PROPERTIES ReservationsEnd GarbageIsCollected
CHECK_DEADLOCK FALSE
