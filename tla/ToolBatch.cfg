SPECIFICATION FairSpec
CONSTANTS
  NumCalls = 3
  MaxPauses = 2
  MaxPosts = 2
  Batch <- MCBatch
INVARIANTS ExclusiveRunsAlone AnsweredInOrder OnlyWaitsYield FinishedWorkIsReported
PROPERTIES NoStartWhilePaused SteeringReachesTools AbortEndsBatch SteeringEndsBatch
CHECK_DEADLOCK FALSE
