SPECIFICATION Spec
CONSTANTS
  MaxLogins = 1
  MaxPages = 1
CHECK_DEADLOCK FALSE
INVARIANT NoCallBlocksForever
