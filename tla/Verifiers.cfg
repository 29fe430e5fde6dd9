CONSTANTS
    Path = {p}
    Upload = {u1, u2}
    Caller = {c1, c2}
    Drain = {d1}
    Ttl = 2
    VerifyLease = 1
    Grace = 1
    Retention = 1
    ReadLease = 1
    Batch = 1
    BackoffCap = 2
    MaxTime = 3
    LastOp = 0
    MaxVersion = 1
    MaxPuts = 1
    MaxArms = 1
    MaxFaults = 0
    MaxCrashes = 0
    None = None
    Inline = Inline
    NoRow = NoRow
    Subtrees <- NoSubtrees
    HostTimes <- NoHost
SPECIFICATION Spec
SYMMETRY Interchangeable
INVARIANTS NoDanglingReference
PROPERTIES PublishedIsFinal
CHECK_DEADLOCK FALSE
