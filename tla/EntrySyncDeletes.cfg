\* A deletion made while a sync is in flight.
SPECIFICATION Spec
CONSTANTS
  Devices = {d1, d2}
  Ids = {e1}
  Bodies = {b1, b2}
  Blank = Blank
  NoRow = NoRow
  BatchSize = 1
  MaxClock = 2
  MaxFails = 0
  MaxUpgrades = 0
PROPERTIES
  DeleteIsFinal
