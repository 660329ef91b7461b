CONSTANTS
  n1 = n1
  n2 = n2
  s1 = s1
  None = None
  TestList <- NormalThenSingleton
  Singletons = {s1}
  InitialSize = 2
  Sizes = {1}
  Operations = {"resize"}
  MaxOperations = 1
  MaxWorkers = 6
  EarlyCalls = FALSE
  GateEnabled = FALSE
  Failing = {n1}
  Crashable = {}
  Unstartable = {}
SPECIFICATION Spec
INVARIANTS
  QueueServed
