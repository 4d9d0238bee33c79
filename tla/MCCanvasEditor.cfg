\* Every sequence of three edits and requests.
CONSTANTS
  PhaseLimit = 3
  EdgeLimit = 4
  Templates <- MCTemplates
  Kinds = {"work", "checkpoint"}
  MaxNodes = 4
  MaxChanges = 3
SPECIFICATION Spec
INVARIANT ProgramStaysSound
PROPERTY DeletionKeepsDependencies
