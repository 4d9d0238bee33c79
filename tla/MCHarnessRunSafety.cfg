\* The run may be stranded here (see MCHarnessRunEarly.cfg), so it may stop.
CONSTANTS
  Runner = runner
  Stoppers = {h1}
  MaxApprovals = 1
  Programs <- MCPrograms
  ServerMayExit = TRUE
SPECIFICATION FairSpec
INVARIANTS TypeOK DecisionOnlyWhilePending FlagMeansInterruptSent ReceiptIsSound
PROPERTIES RunEnds StopIsAnswered
CHECK_DEADLOCK FALSE
