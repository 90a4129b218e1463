SPECIFICATION Spec
CONSTANTS
  p1 = p1
  p2 = p2
  p3 = p3
  Procs = {p1, p2}
  NoOne = NoOne
  FileLock = TRUE
  MaxRow = 2
SYMMETRY ProcSymmetry
CHECK_DEADLOCK FALSE
PROPERTIES
  OpenFileNotBlanked
