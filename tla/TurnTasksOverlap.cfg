\* Three operations: a turn, one that waits or replaces it, and one more.
CONSTANTS
  Loop = loop
  Guardian = guardian
  MaxOps = 3
  MaxTurns = 3
SPECIFICATION Spec
INVARIANTS SlotWasFree
