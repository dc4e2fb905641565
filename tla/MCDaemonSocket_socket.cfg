SPECIFICATION FairSpec
CONSTANTS
  Daemons = {d1, d2, d3}
  Clients = {c1, c2}
  Commands = {"use", "stop", "restart"}
  Nobody = Nobody
  Stale = Stale
  CommandBound = 3
  Crashes = TRUE
  Timeouts = TRUE
CHECK_DEADLOCK FALSE
INVARIANTS TypeOK NoLeftover
PROPERTIES StopStops UseSucceeds
