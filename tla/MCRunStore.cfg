\* A run that is over and deleted, or a process killed too often, stops.
CONSTANTS
  Deleters = {d1, d2, d3}
  MaxRestarts = 2
SYMMETRY DeleterSymmetry
SPECIFICATION Spec
INVARIANT DeletedIsGone
PROPERTY NeverFoundAgain
CHECK_DEADLOCK FALSE
