\* Restored, merged or simply synced, with failures in between.
SPECIFICATION FairSpec
CONSTANTS
  d1 = d1
  d2 = d2
  x = x
  y = y
  tasks = tasks
  events = events
  kv = kv
  Devices = {d1, d2}
  Ids = {x, y}
  Bodies = {b1, b2}
  Blank = Blank
  NoRow = NoRow
  Order <- InSyncOrder
  TableOrder <- ByName
  Kv = kv
  NoFile = NoFile
  AppendOnly = {events}
  Bumped = {tasks}
  BatchSize = 1
  Bounds <- Scenes
INVARIANTS
  IInv
  CursorsCover
  RestoreIsTheBackup
  MergeLosesNothing
PROPERTIES
  StreamsConverge
