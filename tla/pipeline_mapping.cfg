SPECIFICATION PipelineSpec

CONSTANTS
  NaN = NaN  Blank = Blank  None = None
  kwA = kwA  kwAAgain = kwAAgain  kwB = kwB  kwBPadded = kwBPadded  kwC = kwC  kwD = kwD  kwE = kwE
  odd = odd  dash = dash
  five = five  nine = nine  minus = minus  url1 = url1  url2 = url2
  na = na  nb = nb  nc = nc  nd = nd  ne = ne
  Requests <- MCRequests
  EFFECTIVE_MAX_UPLOAD_BYTES = 5
  MAX_UPLOAD_BYTES = 4
  ChunkBytes = 2
  FramingSlack = 1
  MAX_XLSX_UNCOMPRESSED_BYTES = 8
  MAX_ROWS = 7
  HEAVY_JOB_ROW_LIMIT = 6
  COLUMN_ALIASES <- MCAliases
  StripHeader <- MCStripHeader
  NormHeader <- MCNormHeader
  StripCell <- MCStripCell
  NormalizeText <- MCNormalizeText
  ParseNumber <- MCParseNumber
  JUNK_STRINGS <- MCJunk
  Patterns <- MCPatterns
  Modifiers <- MCModifiers
  TopicRoot <- MCTopicRoot
  Levels <- MCLevels
  SemanticWeight = 6
  LexicalWeight = 4
  Threshold = 30
  NeighborK = 1
  PairBlock = 2
  MinClusterSize = 2
  SplitOnIntent = TRUE
  SplitOnModifiers = FALSE
  Labels <- MCLabels

INVARIANT MappingWins

CHECK_DEADLOCK FALSE
