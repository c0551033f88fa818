SPECIFICATION Spec
CONSTANTS
  Capacity = 3
  MaxDemands = 2
  FillSizes <- MCFillSizes
  FillCap = 2
  MaxFills = 2
  Hops <- MCHops
INVARIANT TypeOK
INVARIANT OccupancyExact
INVARIANT OccupancyBound
INVARIANT FillAccounting
INVARIANT CallbacksMatch
