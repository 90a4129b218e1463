SPECIFICATION Spec
CONSTANTS
  v = v
  w = w
  p1 = p1
  p2 = p2
  Values = {v, w}
  Blank = Blank
  Unwritten = Unwritten
  MaxRow = 3
  Pids = {p1, p2}
SYMMETRY PidSymmetry
CHECK_DEADLOCK FALSE
INVARIANTS
  NoStrayAppend
