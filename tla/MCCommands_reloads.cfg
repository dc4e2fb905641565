SPECIFICATION Spec
CONSTANTS
  Clients = {c1, c2}
  Commands <- RestartOnly
  Names <- OneName
  Self = "self"
  Configs <- SoundOnly
  NoTemplate = NoTemplate
  Builds = {"older"}
  MaxCommands = 2
  Crashes = FALSE
CHECK_DEADLOCK FALSE
PROPERTY RestartReloads
