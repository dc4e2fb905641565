SPECIFICATION Spec
CONSTANTS
  Clients = {c1, c2}
  Commands <- Contended
  Names <- OneName
  Self = "self"
  Configs <- SoundOnly
  NoTemplate = NoTemplate
  Builds = {"none", "own"}
  MaxCommands = 4
  Crashes = FALSE
CHECK_DEADLOCK FALSE
INVARIANT HalvesMeet
