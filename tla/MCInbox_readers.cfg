SPECIFICATION FairSpec
CONSTANTS
  Senders = {s1, s2}
  Readers = {r1, r2}
  MaxPosts = 2
  MaxReads = 3
  MaxWipes = 1
  Crashes = TRUE
  Outlives = FALSE
CHECK_DEADLOCK FALSE
INVARIANTS TypeOK SavedMeansPrinted PrintedIsPrefix
PROPERTY EveryMessageRead
