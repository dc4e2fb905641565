\* Each of the three is violated: tlc -continue reports them all.
SPECIFICATION Spec
CONSTANTS
  Clients = {c1}
  RingBytes = 2
  PtyBytes = 2
  MaxOutput = 2
CHECK_DEADLOCK FALSE
INVARIANT ExitCodeTruthful
PROPERTIES ViewOfDead AttachedIsTold
