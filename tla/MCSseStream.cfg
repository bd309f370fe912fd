\* Every body, every way to cut it, characters included.
\* The body comes to an end.
SPECIFICATION Spec
CONSTANTS
  Bodies <- MCBodies
INVARIANTS
  SseTypeOK
  EventsFollowBytes
CHECK_DEADLOCK FALSE
