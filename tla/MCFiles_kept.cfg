SPECIFICATION FilesSpec
CONSTANTS
  v = v
  w = w
  p1 = p1
  p2 = p2
  Values = {v, w}
  Blank = Blank
  Unwritten = Unwritten
  MaxRow = 3
  PayloadBits <- Widths
  CharBits = 2
  CountBits = 4
  ByteBits = 8
  Data <- Pushed
  MaxLines = 2
  MaxObjects = 2
  MaxItems = 1
  Foreign = Foreign
  Severities <- Levels
  Silences <- Silenced
  MaxBreaks = 1
  MaxLogLines = 4
  Beginnings <- Logs
  Chars = {0, 3}
  Given <- Scalars
  MaxLength = 3
  Openings <- Heads
  MaxBits = 11
  Pids = {p1, p2}
SYMMETRY PidSymmetry
CHECK_DEADLOCK FALSE
INVARIANTS
  TypeOK
  AckedReachable
  CopyIsExact
  ReadsBack
  SavedOrRefused
  CleanMeansSaved
PROPERTIES
  NumbersAreLines
