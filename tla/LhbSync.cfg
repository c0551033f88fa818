SPECIFICATION Spec
CONSTANTS
  NumHalves = 2
  HalfLines = 2
  Interleave = 2
  MaxOutstanding = 2
  Enabled = TRUE
  Async = FALSE
  ReadLatency = 2
  LineTime = 1
  SramLatency = 1
  Hop = 1
  Tensors <- MCWideTensors
  Demands <- MCWideDemands
  MaxHints = 3
INVARIANT NoDrainedHalfStays
PROPERTY RangeStableWhileInUse
INVARIANT HalfHoldsItsShare
