SPECIFICATION Spec
CONSTANTS
  Clients = {c1}
  Commands <- HookOnly
  Names <- OneName
  Self = "self"
  Configs <- SoundOnly
  NoTemplate = NoTemplate
  Builds = {"none"}
  MaxCommands = 1
  Crashes = FALSE
CHECK_DEADLOCK FALSE
PROPERTY HookStartsNothing
