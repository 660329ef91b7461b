CONSTANTS
  n1 = n1
  n2 = n2
  s1 = s1
  None = None
  TestList <- SingletonLast
  Singletons = {s1}
  InitialSize = 2
  Sizes = {}
  Operations = {"softStop", "cancel"}
  MaxOperations = 2
  MaxWorkers = 6
  EarlyCalls = FALSE
  GateEnabled = FALSE
  Failing = {n2}
  Crashable = {}
  Unstartable = {}
SPECIFICATION Spec
INVARIANTS
  NoTestLost
