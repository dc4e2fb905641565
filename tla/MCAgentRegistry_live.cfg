SPECIFICATION FairSpec
CONSTANTS
  Names = {n1}
  Ids = {i1}
  Conns = {c1, c2}
  NoName = NoName
  NoId = NoId
  PDeathSig = TRUE
  ResourceErrors = FALSE
  Reporters = {i1}
CHECK_DEADLOCK FALSE
PROPERTIES RmCompletes ExitNoticed StopCompletes
