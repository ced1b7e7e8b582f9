SPECIFICATION Spec
CONSTANTS
  NodeLimit = 4
  Power = 2
  MaxIterations = 3
  Width <- NarrowEnough
  NearPairNodeLimit = 3
  HashBase = 5
  HashRange = 8
  TextHash <- CoarseHash
  Significand = 3
  LargestFloat = 20
  LargestCount = 15
  ReachabilityNodeLimit = 5
  ReachabilityWorkLimit = 60
  WeightScale = 11
  BroadCommitCap = 3
  DaySeconds = 2
  MassInputs <- MassCases
  UsageInputs <- UsageCases
INVARIANT
  UnusedIsUnnamed
CHECK_DEADLOCK FALSE
