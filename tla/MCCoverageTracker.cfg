CONSTANTS
  Tests = {t1, t2}
  MaxRuns = 2
SPECIFICATION Spec

  
PROPERTIES
  CoverageCatchesUp
