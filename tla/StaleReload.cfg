CONSTANTS
  Dirs <- MCDirs
  Files = {"f"}
  None = None
  MaxCalls = 4
  MaxChanges = 0
SPECIFICATION Spec
PROPERTIES
  ReloadKeepsPath
CHECK_DEADLOCK FALSE
