SPECIFICATION Spec
CONSTANTS
  Interval = 3
  Timeout = 1
  MaxTime = 20
  MaxInbox = 2
INVARIANTS TypeOK SilenceIsBounded
PROPERTY IdleClientIsKept
CHECK_DEADLOCK FALSE
