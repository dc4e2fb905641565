SPECIFICATION Spec
CONSTANTS
  Names = {n1}
  Ids = {i1, i2}
  Conns = {c1, c2}
  NoName = NoName
  NoId = NoId
  PDeathSig = TRUE
  ResourceErrors = TRUE
  Reporters = {}
CHECK_DEADLOCK FALSE
SYMMETRY Symmetry
INVARIANTS IndexConsistent InboxFresh TypeOK AttachExclusive RmSound DeadIsGone
PROPERTIES CleanSparesRunning KillAfterTerm
