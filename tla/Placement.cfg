SPECIFICATION SystemSpec
CONSTANTS
  MaxAddr = 127
  Configs <- MCConfigs
  Requests <- MCRequests
  Models <- MCModels
  ModelsWith <- MCModelsWith
INVARIANT SystemTypeOK
INVARIANT StatsAgree
INVARIANT HbfStaysReadOnly
INVARIANT OneHome
INVARIANT TraceHasPlaces
INVARIANT LayoutDecodes
INVARIANT LayoutIsTheModel
INVARIANT WithinThrottle
INVARIANT HintedALeadAhead
INVARIANT StreamsInOrder
PROPERTY HintsGoOut
