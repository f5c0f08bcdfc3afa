SPECIFICATION Spec
CONSTANTS
  q1 = q1
  q2 = q2
  q3 = q3
  m1 = m1
  m2 = m2
  Asks <- MCAsks
  Models <- MCModels
  DefaultModel = m1
  Window = 3
  Scenarios <- Racing
PROPERTIES
  TurnsStay
CHECK_DEADLOCK FALSE
