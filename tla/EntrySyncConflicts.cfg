\* One Entry edited and deleted on two Devices with unrelated clocks.
SPECIFICATION Spec
CONSTANTS
  Devices = {d1, d2}
  Ids = {e1}
  Bodies = {b1, b2}
  Blank = Blank
  NoRow = NoRow
  BatchSize = 1
  MaxClock = 2
  MaxFails = 1
  MaxUpgrades = 1
SYMMETRY Interchangeable
INVARIANTS
  NoSilentLoss
  CursorCovers
  EpochCovers
PROPERTIES
  ConfirmedDeleteIsFinal
  PushesAreAtomic
