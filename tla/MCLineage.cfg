SPECIFICATION Spec
CONSTANTS
  Namespaces <- MCNamespaces
  Names <- MCNames
  Fields <- MCFields
  Schemes <- MCSchemes
  Null = Null
  Batches <- MCBatches
  Requests <- MCRequests
  MAX_DEPTH = 3
  MAX_LIMIT = 5
  I32_MAX = 7
  MaxRebuilds = 1
INVARIANTS
  AnswerBetweenSnapshots
  AnswerHangsTogether
  TraceIsDirected
  TraceEndsAtSources
  NodeIdsReadBack
  TargetsResolve
