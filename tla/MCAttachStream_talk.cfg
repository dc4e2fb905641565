SPECIFICATION FairSpec
CONSTANTS
  Buffer = 6
  PtyInput = 1
  MaxKeys = 2
  MaxOutput = 3
  Split = TRUE
  AgentReads = TRUE
CHECK_DEADLOCK FALSE
INVARIANTS TypeOK KeysDelivered OutputDelivered
PROPERTIES GoneReleases DetachWorks
