SPECIFICATION Spec
CONSTANTS
  NumHalves = 3
  HalfLines = 2
  Interleave = 1
  MaxOutstanding = 2
  Enabled = TRUE
  Async = TRUE
  ReadLatency = 2
  LineTime = 1
  SramLatency = 1
  Hop = 1
  Tensors <- MCLongTensors
  Demands <- MCLongDemands
  MaxHints = 2
INVARIANT TypeOK
INVARIANT HitIsComplete
INVARIANT FillsMatchHalves
INVARIANT PendingIsInFlight
INVARIANT EngineWithinCap
INVARIANT FillsAccountedFor
PROPERTY RangeStableWhileInUse
