SPECIFICATION ContainersSpec
CONSTANTS
  th1 = th1
  th2 = th2
  Threads = {th1, th2}
  A = A
  B = B
  Objects = {A, B}
  k1 = k1
  k2 = k2
  Keys = {k1, k2}
  Values = {1, 2}
  MapCalls <- TheMapCalls
  StackCalls <- TheStackCalls
  MaxDepth = 2
  Words <- SomeWords
  MaxCount = 2
  lookupGrid <- Grid
  Symbols <- Characters
  tolower <- Folded
  DictionaryWords <- ADictionary
  Strings <- Typed
  Sensitivities = {0, 2, 3}
  MaxWords = 2
  ByteBits = 2
  MaxBits = 5
  MaxBytes = 2
  Nil = Nil
  NoThread = NoThread
  Off = Off
INVARIANTS
  CallsAreAtomic
  WaitsEnd
  SortedAndBalanced
  BalancedAndSorted
  HoldsItsWords
  DecodesBack
  NoShorterCode
  BitsAreHeld
  FixIsHonest
