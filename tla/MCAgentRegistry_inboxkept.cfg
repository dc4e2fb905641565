SPECIFICATION Spec
CONSTANTS
  Names = {n1}
  Ids = {i1, i2}
  Conns = {c1, c2}
  NoName = NoName
  NoId = NoId
  PDeathSig = TRUE
  ResourceErrors = FALSE
  Reporters = {}
CHECK_DEADLOCK FALSE
PROPERTY InboxKept
