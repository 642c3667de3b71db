SPECIFICATION FairSpec
CONSTANTS
  Agent = {"A"}
  MaxJob = 2
  MaxFailure = 1
  MaxEpoch = 1
  Env <- MCOwnIds
INVARIANTS NoResultLost DeliveredOnce NoStrandedDelivery RowIsTimed AutoIdNamesOneJob
PROPERTY ResultReachesOwner
CHECK_DEADLOCK FALSE
