\* Once every id is used and every thread idle there is nothing left to do.
CONSTANTS
  Threads = {t1, t2}
  Workflows = {w1, w2, w3}
  Programs = {p1, p2}
  MaxCrashes = 1
SPECIFICATION Spec
INVARIANTS LibraryIsWhole LineageIsSound
PROPERTIES Immutable LockIsReleased
CHECK_DEADLOCK FALSE
