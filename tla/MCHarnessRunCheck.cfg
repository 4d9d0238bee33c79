\* A run that registers for its turn too late may stop (MCHarnessRunEarly.cfg).
CONSTANTS
  Runner = runner
  Stoppers = {h1}
  MaxApprovals = 1
  Programs <- MCPrograms
  ServerMayExit = FALSE
SPECIFICATION Spec
INVARIANT InterruptedCheckStops
CHECK_DEADLOCK FALSE
