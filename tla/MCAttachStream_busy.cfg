SPECIFICATION FairSpec
CONSTANTS
  Buffer = 6
  PtyInput = 1
  MaxKeys = 2
  MaxOutput = 1
  Split = FALSE
  AgentReads = FALSE
CHECK_DEADLOCK FALSE
PROPERTY DetachCloses
