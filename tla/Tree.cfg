SPECIFICATION IndexSpec
CONSTANTS
  Paths <- PathsDef
  Sizes <- SizesDef
  Targets = {}
  Limits <- LimitsDef
  MAX_SYMLINK_HOPS = 2
  MaxSteps = 5
  PageSize = 2
  Maximum = 3
  Absent = Absent
INVARIANTS
  TreeShape
  NlinkExact
  UsageExact
  RefusesOnlyGrowth
  StaleIsAhead
PROPERTIES
  InodesNeverReused
  TokensNeverRepeat
  EveryChangeIsAnnounced
  GrowthWithinLimits
CHECK_DEADLOCK FALSE
