CONSTANTS
  MaxU64 = 3
  MaxSize = 2
  Times <- MCTimes
  Second = 2
  MaxVersions = 2
  Others <- MCOthers
  None = None
  Garbage = Garbage
  Unreadable = Unreadable
  AnyTag = AnyTag
  Empty = Empty
SPECIFICATION Spec
INVARIANTS TypeOK ResumeIsOneVersion CompleteIsWhole
PROPERTIES ServesWhatIsAsked LogTellsTransfer
CHECK_DEADLOCK FALSE
