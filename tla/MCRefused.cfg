\* A submission is refused when the item it duplicates is resolved meanwhile.
\* Once the work is done nothing happens any more.
SPECIFICATION Spec
CONSTANTS
  WorkIds = {i1, i2}
  NoId = NoId
  f1 = f1
  f2 = f2
  k1 = k1
  Faculties <- MCFaculties
  Keys <- MCKeys
  NoKey = NoKey
  Requests <- MCOneSlot
  MaxAttempts = 2
  Faults = {}
  Planes = {w1, w2}
  Registered = {f1, f2}
  MaxConcurrent = 1
  HookResults = {"completed"}
  ClientMoves <- NoMoves
  Stoppable = {}
  MaxFaults = 0
INVARIANTS
  DuplicatesAreMerged
CHECK_DEADLOCK FALSE
