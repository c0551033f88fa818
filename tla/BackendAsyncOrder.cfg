SPECIFICATION Spec
CONSTANTS
  NumHalves = 2
  HalfLines = 2
  Interleave = 1
  MaxOutstanding = 2
  Enabled = TRUE
  Async = TRUE
  ReadLatency = 2
  LineTime = 1
  SramLatency = 1
  Hop = 1
  Requests <- MCMixed
  Schedule <- MCSchedule
  MaxHintsQueued = 1
  WritePolicy = "Reject"
  RequestQueueSize = 3
  ReturnQueueSize = 2
  HbmLatency = 1
  HbmTransfer = 1
  HbmDepth = 2
  HbfTransfer = 1
  HbfDepth = 2
INVARIANT AsyncDoneOrdered
