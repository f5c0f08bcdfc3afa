\* Two requests over two ids: every order of lock, upserts, commit, read, failure.
SPECIFICATION FairSpec
CONSTANTS
  Ids = {e1, e2}
  Bodies = {b1, b2}
  Blank = Blank
  NoRow = NoRow
  Reqs = {r1, r2}
  NoReq = NoReq
  Pushes <- MCPushes
  BatchSize = 1
  MaxSeq = 2
INVARIANT IInv
PROPERTIES
  NoLateArrival
  Atomic
  EveryRequestEnds
