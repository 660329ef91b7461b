CONSTANTS
  m1 = m1
  m2 = m2
  m3 = m3
  TestModules = {m1, m2, m3}
  Marked = {m2}
  PipeCapacity = 2
SPECIFICATION Spec
PROPERTIES
  ControlsRecover
CHECK_DEADLOCK FALSE
