CONSTANTS
  n1 = n1
  n2 = n2
  s1 = s1
  None = None
  TestList <- SingletonBetween
  Singletons = {s1}
  InitialSize = 2
  Sizes = {0, 1}
  Operations = {"softStop", "forceTest", "resize"}
  MaxOperations = 2
  MaxWorkers = 4
  EarlyCalls = TRUE
  GateEnabled = TRUE
  Failing = {n2}
  Crashable = {}
  Unstartable = {}
SPECIFICATION FairSpecTestsEnd
INVARIANTS
  EveryTestSettled
  NoTestLost
PROPERTIES
  EveryTestEnds
  SoftStopEnds
