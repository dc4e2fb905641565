SPECIFICATION FairSpec
CONSTANTS
  Buffer = 2
  PtyInput = 1
  MaxKeys = 3
  MaxOutput = 3
  Split = FALSE
  AgentReads = TRUE
CHECK_DEADLOCK FALSE
INVARIANT LostMeansLost
PROPERTY EveryChunkPrinted
