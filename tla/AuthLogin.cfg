SPECIFICATION FairSpec
CONSTANTS
  MaxLogins = 2
  MaxPages = 1
CHECK_DEADLOCK FALSE
INVARIANTS TypeOK OneLoginServes CompletionKept
PROPERTIES OnlyNewerStops LoginsSettle
