SPECIFICATION FairSpec
CONSTANTS
  t1 = t1
  t2 = t2
  t3 = t3
  a = a
  b = b
  Threads = {t1, t2, t3}
  Items = {a}
  NoItem = NoItem
  Batches <- Pairs
  Sizes = {3}
  Limits = {1}
  MayThrow = FALSE
  MaxCount = 2
INVARIANTS
  NoLostWakeup
PROPERTIES
  NulloptOnlyWhenDrained
  CloseReleases
  ConsumersProgress
