\* Four operations: an interruption lets a reservation be taken over by a turn
\* that is gone when the reserving loop goes on.
CONSTANTS
  Loop = loop
  Guardian = guardian
  MaxOps = 4
  MaxTurns = 3
SPECIFICATION Spec
INVARIANTS ReservationHolds
