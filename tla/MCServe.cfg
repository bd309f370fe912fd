\* The daemon as main starts it.  A daemon that is not restarted has stopped.
SPECIFICATION AnimusSpec
CONSTANTS
  Children = {}
  Daemons = {d1}
  Launchers = {"animus"}
  Files = {"x"}
  Definitions <- MCDefinitions
  MaxEdits = 0
  FullLen = 4
  ShortLen = 2
  Uuids <- MCUuids
  Wide <- MCWide
  Window = 2
  Limits = {1, 3}
INVARIANTS
  ServeOverridesLogger
CHECK_DEADLOCK FALSE
