SPECIFICATION OrdersSpec
CONSTANTS
  One = 6
  Scale = 4
  Absolute = 4
  Relative = 1
  Unit = 4
  EnumerationLimit = 2
  Problems <- ProblemsHere
  ProfilePairs <- PairsHere
  PlanSpecs <- SpecsHere
  Top = 20
INVARIANTS
  ProbesComparedRight
  PoliciesExact
  ProfilesValid
  OrdersRight
  PlansSound
CHECK_DEADLOCK FALSE
