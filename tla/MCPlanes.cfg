\* Two planes, two submissions, two failures, clients that retry and requeue.
\* Failures can strand every item, so the system may come to a stop.
SPECIFICATION JsonSpec
CONSTANTS
  WorkIds = {i1, i2}
  NoId = NoId
  f1 = f1
  f2 = f2
  k1 = k1
  Faculties <- MCFaculties
  Keys <- MCKeys
  NoKey = NoKey
  Requests <- MCRequests
  MaxAttempts = 2
  Faults = {"db", "fs", "crash"}
  Planes = {w1, w2}
  Registered = {f1}
  MaxConcurrent = 1
  HookResults = {"completed", "failed"}
  ClientMoves <- MCRetries
  Stoppable = {}
  MaxFaults = 2
INVARIANTS
  TypeOK
  AtMostOneFocus
  FocusOwnsItem
  NothingLost
  OneItemPerFault
  OneDirPerFault
  OutcomeTellsAttempts
  JsonTellsAttempts
PROPERTIES
  ImplementsWorkOnce
SYMMETRY Symmetric
CHECK_DEADLOCK FALSE
