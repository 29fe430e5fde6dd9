CONSTANTS
    Path = {p, q}
    Upload = {u1}
    Caller = {c1}
    Drain = {d1, d2}
    Ttl = 1
    VerifyLease = 1
    Grace = 1
    Retention = 1
    ReadLease = 1
    Batch = 1
    BackoffCap = 2
    MaxTime = 3
    LastOp = 0
    MaxVersion = 2
    MaxPuts = 1
    MaxArms = 1
    MaxFaults = 1
    MaxCrashes = 1
    None = None
    Inline = Inline
    NoRow = NoRow
    Subtrees <- AllPaths
    HostTimes <- NoHost
SPECIFICATION Spec
SYMMETRY DrainsAndPathsInterchangeable
INVARIANTS TypeOK LeasedBodyRetained NoOrphanBody AlarmCovers
PROPERTIES NoStalePublish ImplementsContract
CHECK_DEADLOCK FALSE
