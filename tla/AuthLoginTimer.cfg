SPECIFICATION Spec
CONSTANTS
  MaxLogins = 2
  MaxPages = 1
CHECK_DEADLOCK FALSE
INVARIANT PageWaits
