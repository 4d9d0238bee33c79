\* Two approvals, of the turn or of other threads.  A run that registers too late
\* (see MCHarnessRunEarly.cfg) may stop.
CONSTANTS
  Runner = runner
  Stoppers = {h1}
  MaxApprovals = 2
  Programs <- MCPrograms
  ServerMayExit = TRUE
SPECIFICATION Spec
INVARIANTS TurnProtocol TurnLeavesNoApproval PanelIsLive
PROPERTY ImplementsLifecycle
CHECK_DEADLOCK FALSE
