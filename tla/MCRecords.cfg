CONSTANTS
  Tests <- Pair
  Coverage <- Lines
  MaxRuns = 3
  SingletonsAt <- Marks
  Suites <- Sometimes
  Habits <- Everybody
  AspectLists <- Efficiently
  Takes <- Varying
  Outcomes = {"OK", "crash", "OK_then_TERMINATED"}
  DirtyRuns = FALSE
  MaxTree = 2
  FirstRows <- Earlier
  Endings = {"OK"}
  RunsTicked = 2
  RunLimit = 2
  RunsShown = 2
  LogSize = 1
  TabClicks = 2
  PaneClicks = 2
SPECIFICATION RecordsSpec
INVARIANTS
  
  ResumeKeepsPasses
  LastPassIsGenuine
  OrderFollowsAspects
  
  
  TabsShowTick
  PaneShowsChosen
CHECK_DEADLOCK FALSE
