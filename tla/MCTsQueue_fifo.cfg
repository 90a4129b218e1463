SPECIFICATION Spec
CONSTANTS
  t1 = t1
  t2 = t2
  t3 = t3
  a = a
  b = b
  Threads = {t1, t2}
  Items = {a, b}
  NoItem = NoItem
  Batches <- SmallBatches
  Sizes = {1, 3}
  Limits = {1}
  MayThrow = TRUE
  MaxCount = 4
SYMMETRY ThreadSymmetry
INVARIANTS
  RingExact
PROPERTIES
  ImplementsQueue
