\* Overlapping callers, a Server URL edited mid-run, failures anywhere.
SPECIFICATION FairSpec
CONSTANTS
  Urls = {u1, u2}
  Off = Off
  Callers = {tick, send}
  Tick = tick
  NoAttempt = NoAttempt
  MaxRequests = 2
  MaxSaves = 2
INVARIANT IInv
PROPERTIES
  EveryCallServed
  StatusCatchesUp
