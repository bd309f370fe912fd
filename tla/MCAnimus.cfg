\* Two daemons, a directory of two files that is edited twice, faculties of
\* every shape; the engage hook may leave a child that goes on writing.
\* Four work items, two of which have the same printed id, and a window of two.
\* A focus that has its result is over, and so are the commands.
SPECIFICATION AnimusFairSpec
CONSTANTS
  Children = {"engage"}
  Daemons = {d1, d2}
  Launchers = {"animus", "embedding"}
  Files = {"x", "y"}
  Definitions <- MCDefinitions
  MaxEdits = 2
  FullLen = 4
  ShortLen = 2
  Uuids <- MCUuids
  Wide <- MCWide
  Window = 2
  Limits = {1, 3}
INVARIANTS
  AnimusTypeOK
  AllHooksSucceeded
  OutcomeIsLastWord
  BlameIsRight
  PlanesAgree
  ShowFinds
PROPERTIES
  FocusEnds
CHECK_DEADLOCK FALSE
