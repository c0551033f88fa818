SPECIFICATION SystemSpec
CONSTANTS
  MaxAddr = 127
  Configs <- MCConfigs
  Requests <- MCRequests
  Models <- MCModels
  ModelsWith <- MCModelsWith
INVARIANT TraceMatchesHints
