SPECIFICATION GuardSpec
CONSTANTS
  Paths <- PathsDef
  Sizes <- SizesDef
  Targets <- TargetsDef
  Limits <- LimitsDef
  Requests <- GuardedRequest
  MAX_SYMLINK_HOPS = 2
  MaxSteps = 5
  MaxInFlight = 2
  Calls = {c1}
  Absent = Absent
PROPERTY GuardSound
CHECK_DEADLOCK FALSE
