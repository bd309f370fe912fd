\* A client cancels items and declares running ones failed, so the planes' own updates may miss
\* and a leaked slot can meet more work.
\* Failures can strand every item, so the system may come to a stop.
SPECIFICATION Spec
CONSTANTS
  WorkIds = {i1, i2}
  NoId = NoId
  f1 = f1
  f2 = f2
  k1 = k1
  Faculties <- MCFaculties
  Keys <- MCKeys
  NoKey = NoKey
  Requests <- MCOneSlot
  MaxAttempts = 2
  Faults = {"db", "fs", "crash"}
  Planes = {w1, w2}
  Registered = {f1}
  MaxConcurrent = 1
  HookResults = {"completed", "failed"}
  ClientMoves <- MCRescues
  Stoppable = {}
  MaxFaults = 1
INVARIANTS
  ActiveCountsFoci
PROPERTIES
  StoreBehaviour
  StrandedStays
SYMMETRY Symmetric
CHECK_DEADLOCK FALSE
