\* Three submissions for one slot, items driven by arbitrary clients.
\* Clients stop submitting and the items come to rest, so deadlock is not an error.
SPECIFICATION StoreSpec
CONSTANTS
  WorkIds = {i1, i2, i3}
  NoId = NoId
  f1 = f1
  f2 = f2
  k1 = k1
  Faculties <- MCFaculties
  Keys <- MCKeys
  NoKey = NoKey
  Requests <- MCOneSlot
  MaxAttempts = 1
  Faults = {"db"}
INVARIANTS
  StoreTypeOK
  DedupUnique
  MergedIntoOriginal
  ResolvedIffTerminal
PROPERTIES
  TerminalRowsFrozen
SYMMETRY Symmetric
CHECK_DEADLOCK FALSE
