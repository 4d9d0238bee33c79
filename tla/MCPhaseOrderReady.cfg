\* Two checkpoints in a row.
CONSTANTS
  PhaseLimit = 4
  EdgeLimit = 4
  MaxArrows = 4
SPECIFICATION Spec
INVARIANT ReadyMeansAccepted
CHECK_DEADLOCK FALSE
