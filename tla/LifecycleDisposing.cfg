SPECIFICATION Spec
CONSTANTS
  c1 = c1
  c2 = c2
  k1 = k1
  Caller = {c1, c2}
  Releaser = {k1}
  MaxRef = 2
  MaxSession = 2
  Env <- MCRemoval
PROPERTIES NeverHandsOutDisposing
