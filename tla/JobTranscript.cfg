SPECIFICATION Spec
CONSTANTS
  Agent = {"A"}
  MaxJob = 1
  MaxFailure = 1
  MaxEpoch = 1
  Env <- MCPlain
PROPERTIES OwnTranscriptOnly
CHECK_DEADLOCK FALSE
