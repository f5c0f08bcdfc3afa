SPECIFICATION Spec
CONSTANTS
  q1 = q1
  q2 = q2
  q3 = q3
  m1 = m1
  m2 = m2
  Asks <- MCAsks
  Models <- MCModels
  DefaultModel = m1
  Window = 1
  Scenarios <- MCScenarios
INVARIANTS
  IInv
  OneAnswer
  LiveEqualsReload
  ModelAsRun
  Remembered
  OneCorrection
CHECK_DEADLOCK FALSE
