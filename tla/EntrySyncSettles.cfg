\* One Device with a backlog it keeps adding to, and a failure.
SPECIFICATION FairSpec
CONSTANTS
  Devices = {d1}
  Ids = {e1, e2}
  Bodies = {b1}
  Blank = Blank
  NoRow = NoRow
  BatchSize = 1
  MaxClock = 4
  MaxFails = 1
  MaxUpgrades = 0
PROPERTIES
  SyncEnds
  Converges
