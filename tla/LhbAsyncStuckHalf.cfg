SPECIFICATION FairSpec
CONSTANTS
  NumHalves = 2
  HalfLines = 2
  Interleave = 1
  MaxOutstanding = 2
  Enabled = TRUE
  Async = TRUE
  ReadLatency = 2
  LineTime = 1
  SramLatency = 1
  Hop = 1
  Tensors <- MCTensors
  Demands <- MCFewDemands
  MaxHints = 2
PROPERTY DrainedHalfSwaps
