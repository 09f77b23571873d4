CONSTANTS
  Lister = None
  D = D
  A1 = A1
  R1 = R1
  S1 = S1
  L1 = L1
  O1 = O1
  P1 = P1
  E1 = E1
  Names <- MCNames
  OsNames <- MCOsNames
  Groups <- MCGroups
  Globs = {"d", "s", "**"}
  DoubleStar = "**"
  SegmentMatch <- MCDotSegmentMatch
  Decoded <- MCDecoded
  Slash = Slash
  DotDot = DotDot
  Dot = "."
  Blank = Blank
  TrimStart <- MCTrimStart
  TrimEnd <- MCTrimEnd
  Backslashed = {"a|"}
  Reqs = {r1, r2}
  Requests <- MCDotRequests
  BadPath = BadPath
  UpPath = UpPath
  Access <- MCDotAccess
  Render <- MCRender
  DotNames = {}
  ShowHidden = FALSE
  Root <- MCRoot
  Locs <- MCLocs
  Files = {D, A1, R1, S1, L1, O1, P1}
  Kind <- MCKind
  Target <- MCTarget
  Ino <- MCIno
  RootDir = RootDir
  None = None
  Missing = Missing
  Broken = Broken
  MaxHops = 2
  Shares <- MCShares
  EnvLocs = {}
  Workers = 2
  Faults = FALSE
SPECIFICATION Spec
INVARIANT
  DeniesHoldDecoded
