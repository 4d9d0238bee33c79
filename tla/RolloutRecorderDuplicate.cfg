CONSTANTS
  Capacity = 2
  MaxItems = 2
  MaxBarriers = 2
  MaxFaults = 2
  MaxStarts = 2
SPECIFICATION Spec
INVARIANTS OrdinalsDiffer
\* Callers may stop calling.
CHECK_DEADLOCK FALSE
