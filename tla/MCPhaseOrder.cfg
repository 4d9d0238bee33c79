\* A program with all its arrows is not extended further.
CONSTANTS
  PhaseLimit = 4
  EdgeLimit = 4
  MaxArrows = 4
SPECIFICATION Spec
INVARIANTS StableOrder RejectsLoopsAndLooseParts ShownAsRun
CHECK_DEADLOCK FALSE
