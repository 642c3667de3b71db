SPECIFICATION FairSpec
CONSTANTS
  c1 = c1
  c2 = c2
  k1 = k1
  Caller = {c1, c2}
  Releaser = {k1}
  MaxRef = 2
  MaxSession = 2
  Env <- MCNoRemoval
INVARIANTS AttachedIsLive NoOrphanSession IdleIsTimed
PROPERTIES DeadStaysDead NeverHandsOutDisposing EveryCallSettles
