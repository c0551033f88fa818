SPECIFICATION FairSpec
CONSTANTS
  Capacity = 2
  MaxDemands = 1
  FillSizes <- MCFillSizesOfSmall
  FillCap = 2
  MaxFills = 2
  Hops <- MCHops
PROPERTY IsFillService
PROPERTY RoomAgain
