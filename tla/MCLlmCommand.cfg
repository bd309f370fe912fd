\* Streamed: complete, refused, truncated and broken streams, and an event that is not JSON.
\* Not streamed: as many retries as the backoff's integer has bits, limits of any length.
\* The command ends, so the system comes to a stop.
SPECIFICATION CommandSpec
CONSTANTS
  Messages <- MCMessages
  Hiccups = {"refused", "truncated", "broken", "noise"}
  MaxRetries = 3
  RetryAfter = {3, 5}
  NoHeader = NoHeader
  Width = 3
  Horizon = 20
  Formats = {"text", "json", "yaml", "xml"}
INVARIANTS
  CommandTypeOK
  ShownInOrder
  NextRequestIsSame
  ServedOnce
  RetriesCounted
  OutlastsLimit
  AnswerIsPrinted
PROPERTIES
  CommandExits
CHECK_DEADLOCK FALSE
