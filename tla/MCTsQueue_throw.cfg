SPECIFICATION Spec
CONSTANTS
  t1 = t1
  t2 = t2
  t3 = t3
  a = a
  b = b
  Threads = {t1, t2, t3}
  Items = {a}
  NoItem = NoItem
  Batches <- Pairs
  Sizes = {}
  Limits = {1}
  MayThrow = TRUE
  MaxCount = 3
INVARIANTS
  NoLostWakeup
