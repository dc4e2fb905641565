SPECIFICATION Spec
CONSTANTS
  Specs <- Keys
  Sent <- Terminal
  Other = 120
  MaxRead = 1
  MaxTyped = 4
CHECK_DEADLOCK FALSE
INVARIANT EveryKeyForwarded
