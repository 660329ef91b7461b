CONSTANTS
  t1 = t1
  t2 = t2
  t3 = t3
  t4 = t4
  Threads <- MCThreads
SPECIFICATION FairSpec
INVARIANTS
  CountersMatchSlots
PROPERTIES
  ImplementsExclusiveAccess
  NormalsDoNotStarveSingletons
