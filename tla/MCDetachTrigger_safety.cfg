SPECIFICATION Spec
CONSTANTS
  Specs <- Keys
  Sent <- Terminal
  Other = 120
  MaxRead = 3
  MaxTyped = 6
CHECK_DEADLOCK FALSE
INVARIANTS TypeOK MatchSound
