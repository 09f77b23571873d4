CONSTANTS
  Names <- MCNames
  OsNames <- MCNames
  Groups <- MCGroups
  Globs <- MCGlobs
  DoubleStar <- MCDoubleStar
  SegmentMatch <- MCSegmentMatch
  Decoded <- MCDecoded
  Slash = Slash
  DotDot = DotDot
  Dot = "."
  Configs <- MCConfigs
  MaxDepth = 4
  Bytes <- MCBytes
  Star = "*"
  Question = "?"
  Chars <- MCChars
  Encoding <- MCEncoding
  GrownBytes = {"61", "c3"}
  WalkGlobs = {"tv", "n*", "**"}
  WalkNames = {"tv", "nfo"}
  MaxPattern = 4
  MaxSubject = 4
SPECIFICATION MCSpec
INVARIANTS
  DecodedDenialHides
  GlobIsExact
  WildcardsTakeCharacters
  WalkIsGitignore
PROPERTIES
  DenialInherited
  JoiningKeepsDenials
  GapsAreDenials
CHECK_DEADLOCK FALSE
