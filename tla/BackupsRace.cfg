\* What restore.ts says of a Restore, for Events.
SPECIFICATION Spec
CONSTANTS
  d1 = d1
  d2 = d2
  x = x
  y = y
  tasks = tasks
  events = events
  kv = kv
  Devices = {d1, d2}
  Ids = {x, y}
  Bodies = {b1, b2}
  Blank = Blank
  NoRow = NoRow
  Order <- InSyncOrder
  TableOrder <- ByName
  Kv = kv
  NoFile = NoFile
  AppendOnly = {events}
  Bumped = {tasks}
  BatchSize = 1
  Bounds <- Raced
INVARIANTS
  RestoreReconciles
