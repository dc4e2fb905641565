SPECIFICATION Spec
CONSTANTS
  Buffer = 4
  PtyInput = 1
  MaxKeys = 1
  MaxOutput = 1
  Split = TRUE
  AgentReads = TRUE
CHECK_DEADLOCK FALSE
INVARIANT FramesStayWhole
