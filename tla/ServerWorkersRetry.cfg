\* A Period that fails once while a later one of the same scan is written.
SPECIFICATION Spec
CONSTANTS
  e1 = e1
  e2 = e2
  e3 = e3
  e4 = e4
  b1 = b1
  b2 = b2
  p1 = p1
  p2 = p2
  Ids = {e1, e2, e3, e4}
  Bodies = {b1, b2}
  Blank = Blank
  NoRow = NoRow
  NoVector = NoVector
  Patchers = {p1, p2}
  Hosts <- MCBacklog
  ScanBatch = 1
  MaxAttempts = 2
  ChannelSize = 1
  Periods = {1, 2, 3, 4}
  PeriodOf <- MCPeriodOf
  TickBudget = 2
  MaxTries = 2
  Asks = {}
  MaxRestarts = 0
PROPERTIES
  FailedPeriodStaysDue
CHECK_DEADLOCK FALSE
