CONSTANTS
  Dirs <- MCDirs
  Files = {"f"}
  None = None
  MaxCalls = 4
  MaxChanges = 1
SPECIFICATION Spec
INVARIANTS
  DeletesWhatWasConfirmed
  UrlIsPath
PROPERTIES
  LoadingEnds
CHECK_DEADLOCK FALSE
