\* An arrow tool whose source was deleted.
CONSTANTS
  PhaseLimit = 3
  EdgeLimit = 4
  Templates <- MCTemplates
  Kinds = {"work", "checkpoint"}
  MaxNodes = 3
  MaxChanges = 4
SPECIFICATION Spec
INVARIANT NoLoops
