SPECIFICATION Spec
CONSTANTS
  t1 = t1
  t2 = t2
  Threads = {t1, t2}
  NF = 1
  Values = {0, 1}
  Zero = 0
  Absent = Absent
  Entries <- OneField
  Nothing = Nothing
  Corrupt = Corrupt
  Checksum = TRUE
  SyncEach = TRUE
  FullSync = FALSE
  SkipRebuild = FALSE
  LiveRebuild = TRUE
  Readers = {}
  MaxRow = 2
SYMMETRY ThreadSymmetry
INVARIANTS
  IndexCurrent
