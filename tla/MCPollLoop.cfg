\* Three items of any kind, hooks shorter and longer than the visibility timeout.
SPECIFICATION FairSpec
CONSTANTS
  Items = {1, 2, 3}
  Timings <- MCTimings
  Durations = {1, 5}
  MaxConcurrent = 1
  MaxFaults = 1
INVARIANTS
  PollTypeOK
  IdleIsBounded
PROPERTIES
  QueuedIsRead
