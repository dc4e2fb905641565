SPECIFICATION Spec
CONSTANTS
  Senders = {s1}
  Readers = {r1}
  MaxPosts = 2
  MaxReads = 1
  MaxWipes = 1
  Crashes = FALSE
  Outlives = TRUE
CHECK_DEADLOCK FALSE
INVARIANT UnreadIsEmitted
