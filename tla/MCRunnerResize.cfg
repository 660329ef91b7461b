CONSTANTS
  n1 = n1
  n2 = n2
  s1 = s1
  None = None
  TestList <- NormalThenSingleton
  Singletons = {s1}
  InitialSize = 2
  Sizes = {1, 2}
  Operations = {"softStop", "cancel", "resize"}
  MaxOperations = 3
  MaxWorkers = 9
  EarlyCalls = FALSE
  GateEnabled = FALSE
  Failing = {n1}
  Crashable = {s1}
  Unstartable = {n1}
SPECIFICATION Spec
INVARIANTS
  OneOwner
  NoOvercommit
  StoppedNeverRan
PROPERTIES
  ImplementsDispatch
  ResultsStick
