\* A run that is over and deleted, or a process killed too often, stops.
CONSTANTS
  Deleters = {d1}
  MaxRestarts = 1
SPECIFICATION Spec
INVARIANT PersistedSurvives
CHECK_DEADLOCK FALSE
