\* A copy past the limit.
CONSTANTS
  PhaseLimit = 3
  EdgeLimit = 4
  Templates <- MCTemplates
  Kinds = {"work", "checkpoint"}
  MaxNodes = 4
  MaxChanges = 2
SPECIFICATION Spec
INVARIANT WithinLimit
