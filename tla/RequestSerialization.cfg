\* With finitely many requests the system stops; EveryRequestEnds says when.
CONSTANTS
  Requests = {r1, r2, r3}
  Keys = {k1}
  Connections = {c1}
  NoKey = NoKey
  NoConnection = NoConnection
SPECIFICATION FairSpec
INVARIANTS InOrder DrainedIsQuiet NobodyStranded
PROPERTY EveryRequestEnds
CHECK_DEADLOCK FALSE
