CONSTANTS
  Names <- MCNames
  OsNames <- MCOsNames
  Groups <- MCGroups
  Globs <- MCGlobs
  DoubleStar = "**"
  SegmentMatch <- MCSegmentMatch
  Decoded <- MCDecoded
  Slash = Slash
  DotDot = DotDot
  Trees <- MCTrees
  NameRank <- MCNameRank
  MaxUnlinks = 1
  MaxBlind = 1
  Startups <- MCStartups
  GroupsOf <- MCGroupsOf
  FileNames <- MCFileNames
  DefaultFiles <- MCDefaultFiles
  IsJson = {"config.json"}
  IsYaml = {"config.yaml"}
  Empty = Empty
  Dot = "."
  Absent = Absent
SPECIFICATION Spec
INVARIANTS
  TypeOK
  NothingHiddenSilently
  ReportIsOrdered
  ServedWithoutSession
PROPERTIES
  StartupEnds
CHECK_DEADLOCK FALSE
