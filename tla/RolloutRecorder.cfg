CONSTANTS
  Capacity = 2
  MaxItems = 2
  MaxBarriers = 2
  MaxFaults = 3
  MaxStarts = 3
SPECIFICATION FairSpec
INVARIANTS TypeOK OrdinalsInOrder
PROPERTIES ImplementsLog BarriersAnswered
\* Callers may stop calling.
CHECK_DEADLOCK FALSE
