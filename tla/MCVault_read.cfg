SPECIFICATION Spec
CONSTANTS
  t1 = t1
  t2 = t2
  Threads = {t1, t2}
  NF = 1
  Values = {0, 1}
  Zero = 0
  Absent = Absent
  Entries <- OneField
  Nothing = Nothing
  Corrupt = Corrupt
  Checksum = TRUE
  SyncEach = FALSE
  FullSync = TRUE
  SkipRebuild = FALSE
  LiveRebuild = TRUE
  Readers = {t1, t2}
  MaxRow = 2
SYMMETRY ThreadSymmetry
INVARIANTS
  ReadsAreWhole
  PromisedDurable
  IndexSound
