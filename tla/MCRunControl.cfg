CONSTANTS
  MaxRuns = 2
SPECIFICATION FairSpec
INVARIANTS
  OneRunAtATime
  WindowTakesRunAlong
PROPERTIES
  CoverageNotPulled
  ControlsComeBack
  NotLockedOut
