SPECIFICATION FairSpec
CONSTANTS
  Clients = {c1, c2}
  RingBytes = 2
  PtyBytes = 2
  MaxOutput = 3
CHECK_DEADLOCK FALSE
INVARIANTS TypeOK StreamSound
PROPERTIES ImplementsFeed RequestsAnswered StreamsEnd AgentNeverStuck
