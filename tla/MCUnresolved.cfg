\* An item that fails, or whose focus cannot be created, is never taken up again.
\* Once the work is done nothing happens any more.
SPECIFICATION FairSpec
CONSTANTS
  WorkIds = {i1, i2}
  NoId = NoId
  f1 = f1
  f2 = f2
  k1 = k1
  Faculties <- MCFaculties
  Keys <- MCKeys
  NoKey = NoKey
  Requests <- MCRequests
  MaxAttempts = 2
  Faults = {"fs"}
  Planes = {w1, w2}
  Registered = {f1, f2}
  MaxConcurrent = 1
  HookResults = {"completed", "failed"}
  ClientMoves <- NoMoves
  Stoppable = {}
  MaxFaults = 1
PROPERTIES
  WorkIsResolved
CHECK_DEADLOCK FALSE
