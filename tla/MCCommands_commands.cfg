SPECIFICATION FairSpec
CONSTANTS
  Clients = {c1, c2}
  Commands <- Everything
  Names <- OneName
  Self = "self"
  Configs <- AnyFile
  NoTemplate = NoTemplate
  Builds = {"none", "own", "older"}
  MaxCommands = 2
  Crashes = TRUE
CHECK_DEADLOCK FALSE
INVARIANT TypeOK
PROPERTIES ReportsAreTrue RestartReplaces CommandsEnd
