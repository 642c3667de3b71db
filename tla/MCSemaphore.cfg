SPECIFICATION Spec
CONSTANTS
  c1 = c1
  c2 = c2
  c3 = c3
  c4 = c4
  Client <- MCClient
  LimitInput <- MCLimitInput
INVARIANTS QueueIsWaiters CountsHolders NoIdleSlot
PROPERTIES FirstComeFirstServed ImplementsSlotPool
