SPECIFICATION TreeSpec
CONSTANTS
  Agent <- MCAgent
  Root = "root"
  ChildrenOf <- MCChildrenOf
  Turns <- MCTurns
  Client <- MCClient
  LimitInput <- MCLimitInput
INVARIANT SlotPerLiveRequest
PROPERTIES EverySpawnedAgentFinishes
\* every agent finishes, then nothing is left to do
CHECK_DEADLOCK FALSE
