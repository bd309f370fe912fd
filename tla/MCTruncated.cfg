\* The body ends without [DONE]: what was pending is missing in the response.
\* Every call ends, so the system comes to a stop.
SPECIFICATION StreamSpec
CONSTANTS
  Messages <- MCShort
  Hiccups = {"truncated"}
INVARIANTS
  ResponseAggregates
CHECK_DEADLOCK FALSE
