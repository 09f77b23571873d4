CONSTANTS
  Lister = r1
  D = D
  A1 = A1
  R1 = R1
  S1 = S1
  L1 = L1
  O1 = O1
  P1 = P1
  E1 = E1
  Names <- MCNames
  OsNames <- MCOsNames
  Groups <- MCGroups
  Globs = {"s", "**"}
  DoubleStar = "**"
  SegmentMatch <- MCSegmentMatch
  Decoded <- MCDecoded
  Slash = Slash
  DotDot = DotDot
  Dot = "."
  Blank = Blank
  TrimStart <- MCTrimStart
  TrimEnd <- MCTrimEnd
  Backslashed = {"a|"}
  Reqs = {r1, r2}
  Requests <- MCListRequests
  BadPath = BadPath
  UpPath = UpPath
  Access <- MCListAccess
  Render <- MCRender
  DotNames = {}
  ShowHidden = FALSE
  Root <- MCRoot
  Locs <- MCListLocs
  Files = {D, A1, R1, S1, L1, O1, P1, E1}
  Kind <- MCKind
  Target <- MCTarget
  Ino <- MCIno
  RootDir = RootDir
  None = None
  Missing = Missing
  Broken = Broken
  MaxHops = 2
  Shares <- MCListShares
  EnvLocs <- MCListEnvLocs
  Workers = 1
  Faults = TRUE
SPECIFICATION Spec
INVARIANTS
  TypeOK
  ListingComplete
  ListingAgreesWithDelete
  RowReopens
PROPERTIES
  EventuallyAnswered
