\* Two Entries and batches of one: backlogs, full pages, skipped seqs.
SPECIFICATION Spec
CONSTANTS
  Devices = {d1, d2}
  Ids = {e1, e2}
  Bodies = {b1}
  Blank = Blank
  NoRow = NoRow
  BatchSize = 1
  MaxClock = 2
  MaxFails = 0
  MaxUpgrades = 0
SYMMETRY Interchangeable
INVARIANTS
  NoSilentLoss
  LogInv
PROPERTIES
  PushesAreAtomic
