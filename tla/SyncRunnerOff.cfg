\* The Server URL cleared between two requests of one run.
SPECIFICATION Spec
CONSTANTS
  Urls = {u1, u2}
  Off = Off
  Callers = {tick, send}
  Tick = tick
  NoAttempt = NoAttempt
  MaxRequests = 2
  MaxSaves = 2
INVARIANT RequestsNeedAServer
