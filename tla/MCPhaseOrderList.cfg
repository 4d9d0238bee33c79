\* A list of phases without arrows.
CONSTANTS
  PhaseLimit = 4
  EdgeLimit = 4
  MaxArrows = 4
SPECIFICATION Spec
INVARIANT ListProgramsStillRun
CHECK_DEADLOCK FALSE
