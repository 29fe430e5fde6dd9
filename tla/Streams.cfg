SPECIFICATION StreamSpec
CONSTANTS
  Paths <- PathsDef
  Sizes <- SizesDef
  Targets <- TargetsDef
  Limits <- LimitsDef
  Requests <- RequestsDef
  MAX_SYMLINK_HOPS = 2
  MaxSteps = 4
  MaxInFlight = 2
  Calls = {c1, c2}
  Absent = Absent
INVARIANTS
  StreamsTypeOK
  BudgetExact
  TreeShape
PROPERTIES
  NoLostUpdate
SYMMETRY CallSymmetry
CHECK_DEADLOCK FALSE
