\* The flag outlives a Restore of bodies that were never promoted.
SPECIFICATION Spec
CONSTANTS
  Entries <- TwoEntries
  TaskIds = {t1, t2, t3}
  Theirs = Theirs
  None = None
  Gone = Gone
  MaxMounts = 2
  MaxMishaps = 1
  MaxWrites = 0
  MaxRestores = 1
SYMMETRY Interchangeable
CHECK_DEADLOCK FALSE
INVARIANT RestoredIsBackfilled
