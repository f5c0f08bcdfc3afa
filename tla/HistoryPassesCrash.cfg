\* A Task minted twice: the backfill stops between its upsert and its edit.
SPECIFICATION Spec
CONSTANTS
  Entries <- TwoEntries
  TaskIds = {t1, t2, t3}
  Theirs = Theirs
  None = None
  Gone = Gone
  MaxMounts = 2
  MaxMishaps = 1
  MaxWrites = 1
  MaxRestores = 1
SYMMETRY Interchangeable
CHECK_DEADLOCK FALSE
INVARIANT OneTaskPerCheckbox
