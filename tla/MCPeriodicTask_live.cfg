SPECIFICATION FairSpec
CONSTANTS
  c1 = c1
  c2 = c2
  c3 = c3
  Callers = {c1, c2, c3}
  Intervals = {10, 20}
  MaxChanges = 2
INVARIANTS
  NoTickAfterStop
  JoinedOnce
  IntervalNotLost
  StopNotLost
PROPERTIES
  StopEndsTask
  StopReturns
  KeepsTicking
