SPECIFICATION FairSpec
CONSTANTS
  r1 = r1
  r2 = r2
  NoRun = NoRun
  Run <- MCRun
  MaxMsg = 2
  MaxFaults = 1
  MaxEdits = 1
PROPERTY QueuedIsSettled
