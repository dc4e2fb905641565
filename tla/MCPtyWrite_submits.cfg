SPECIFICATION Spec
CONSTANTS
  s1 = s1
  s2 = s2
  t1 = t1
  Senders = {s1, s2}
  Typists = {t1}
  Removers = {r1}
  None = none
  Script <- Scripts
  PoolThreads = 2
  PtyRoom = 1
CHECK_DEADLOCK FALSE
INVARIANT SubmitsOwnText
