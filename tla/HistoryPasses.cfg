\* Two overlapping mounts, two Entries, somebody's write, a mishap, a Restore.
SPECIFICATION Spec
CONSTANTS
  Entries <- TwoEntries
  TaskIds = {t1, t2, t3}
  Theirs = Theirs
  None = None
  Gone = Gone
  MaxMounts = 2
  MaxMishaps = 1
  MaxWrites = 2
  MaxRestores = 1
SYMMETRY Interchangeable
CHECK_DEADLOCK FALSE
INVARIANTS
  ReferencesHaveTasks
  CheckboxesPromoted
