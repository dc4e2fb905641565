SPECIFICATION Spec
CONSTANTS
  Daemons = {d1, d2}
  Clients = {c1, c2}
  Commands = {"use"}
  Nobody = Nobody
  Stale = Stale
  CommandBound = 2
  Crashes = FALSE
  Timeouts = FALSE
CHECK_DEADLOCK FALSE
INVARIANT SingleInstance
