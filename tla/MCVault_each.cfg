SPECIFICATION Spec
CONSTANTS
  t1 = t1
  t2 = t2
  Threads = {t1, t2}
  NF = 2
  Values = {0, 1}
  Zero = 0
  Absent = Absent
  Entries <- TwoFields
  Nothing = Nothing
  Corrupt = Corrupt
  Checksum = TRUE
  SyncEach = TRUE
  FullSync = TRUE
  SkipRebuild = TRUE
  LiveRebuild = FALSE
  Readers = {}
  MaxRow = 2
SYMMETRY ThreadSymmetry
INVARIANTS
  RowsNeverShared
  AckedOnFile
  PromisedDurable
  IndexCurrent
PROPERTIES
  IndexAdvances
  ImplementsLog
