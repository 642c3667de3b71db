SPECIFICATION Spec
CONSTANTS
  p1 = p1
  p2 = p2
  NoProc = NoProc
  Proc <- MCProc
  Cooldown = 3
  Delay = 1
  Flight = 1
  MaxTime = 4
  MaxEpisode = 2
  MaxCredit = 2
  MaxGrant = 1
SYMMETRY Symmetric
INVARIANTS OneRequestUnderWay NoOvertakenSpend RecoveredOnce
CHECK_DEADLOCK FALSE
