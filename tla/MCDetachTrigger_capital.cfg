SPECIFICATION Spec
CONSTANTS
  Specs <- CapitalOnly
  Sent <- Capital
  Other = 120
  MaxRead = 3
  MaxTyped = 6
CHECK_DEADLOCK FALSE
INVARIANT CutsDoNotShow
