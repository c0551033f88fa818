SPECIFICATION FairSpec
CONSTANTS
  NumHalves = 2
  HalfLines = 2
  Interleave = 1
  MaxOutstanding = 2
  Enabled = TRUE
  Async = TRUE
  ReadLatency = 2
  LineTime = 1
  SramLatency = 1
  Hop = 0
  Requests <- MCReads
  Schedule <- MCSchedule
  MaxHintsQueued = 1
  WritePolicy = "Reject"
  RequestQueueSize = 2
  ReturnQueueSize = 1
  HbmLatency = 1
  HbmTransfer = 1
  HbmDepth = 2
  HbfTransfer = 1
  HbfDepth = 2
INVARIANT TypeOK
INVARIANT WaitersOnFill
INVARIANT ExactlyOnePlace
INVARIANT QueueBounds
PROPERTY IsFairMemoryPort
PROPERTY AcceptsAgain
PROPERTY FillsLand
