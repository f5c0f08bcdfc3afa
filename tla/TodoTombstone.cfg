\* A Task that another Device removed, removed here as well.
SPECIFICATION Spec
CONSTANTS
  t1 = t1
  t2 = t2
  t3 = t3
  t4 = t4
  t5 = t5
  s1 = s1
  Tasks = {t1, t2, t3, t4, t5}
  Sections = {s1}
  Callers = {c1, c2}
  NoRow = NoRow
  NoTask = NoTask
  NoSection = NoSection
  NoRule = NoRule
  NoDate = NoDate
  MaxDepth = 4
  Scenes <- Deleted
PROPERTY
  LateMutationsAreNoOps
CHECK_DEADLOCK FALSE
