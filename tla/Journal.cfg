SPECIFICATION Spec
CONSTANTS
  MaxEntry = 3
  MaxAlien = 1
  MaxFile = 3
  MaxTrouble = 2
  MaxRecovery = 1
INVARIANTS TypeOK CurrentIsDurable BatchAtomic
PROPERTIES ForeignKept SealedWritesNothing
CHECK_DEADLOCK FALSE
