CONSTANTS
  n1 = n1
  n2 = n2
  s1 = s1
  None = None
  TestList <- NormalThenSingleton
  Singletons = {s1}
  InitialSize = 2
  Sizes = {}
  Operations = {"softStop", "cancel", "stop", "forceStop"}
  MaxOperations = 3
  MaxWorkers = 8
  EarlyCalls = FALSE
  GateEnabled = FALSE
  Failing = {n1}
  Crashable = {}
  Unstartable = {n1}
SPECIFICATION FairSpec
INVARIANTS
  StopReachesEveryWorker
  ResetSettlesEveryTest
PROPERTIES
  StopEnds
