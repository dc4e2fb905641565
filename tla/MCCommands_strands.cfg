SPECIFICATION Spec
CONSTANTS
  Clients = {c1}
  Commands <- AttachOnly
  Names <- OneName
  Self = "self"
  Configs <- Refusable
  NoTemplate = NoTemplate
  Builds = {"none", "own"}
  MaxCommands = 1
  Crashes = FALSE
CHECK_DEADLOCK FALSE
PROPERTY RunStrandsNothing
