\* A caller between the loop's last check and the finally callback.
SPECIFICATION Spec
CONSTANTS
  Urls = {u1, u2}
  Off = Off
  Callers = {tick, send}
  Tick = tick
  NoAttempt = NoAttempt
  MaxRequests = 2
  MaxSaves = 0
INVARIANT NoCallLeftBehind
