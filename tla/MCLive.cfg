\* Statements of submissions may fail, planes do not; hooks that succeed, every faculty known;
\* one of two planes may be shut down.
\* Once all work is done, the planes poll an empty queue, which changes nothing.
SPECIFICATION FairSpec
CONSTANTS
  WorkIds = {i1, i2}
  NoId = NoId
  f1 = f1
  f2 = f2
  k1 = k1
  Faculties <- MCFaculties
  Keys <- MCKeys
  NoKey = NoKey
  Requests <- MCRequests
  MaxAttempts = 2
  Faults = {"db"}
  Planes = {w1, w2}
  Registered = {f1, f2}
  MaxConcurrent = 1
  HookResults = {"completed"}
  ClientMoves <- NoMoves
  Stoppable = {w2}
  MaxFaults = 0
PROPERTIES
  QueuedIsRetired
  ShutdownStops
  SubmissionsAnswered
CHECK_DEADLOCK FALSE
