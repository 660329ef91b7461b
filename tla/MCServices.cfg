CONSTANTS
  Pids = {p1, p2, p3}
  MaxBirths = 3
  Workers = {w1, w2}
  NumberOfTests = 3
  MaxCancels = 2
  TestModules = {m1, m2, m3}
  Marked = {m2}
  PipeCapacity = 3
  Values = {0, 1, 3}
  Paths = {"a", "b"}
  MaxEdits = 4
  Aspects <- FourAspects
  Seed <- FirstTwo
SPECIFICATION ServicesSpec
INVARIANTS
  
  SeenOrphansReaped
  GuardStopsOnce
  DiscoveryComplete
  ShownIsStored
PROPERTIES
  ResultDespiteMonitor
  PoolFollowsSettings
CHECK_DEADLOCK FALSE
