SPECIFICATION LiveSpec
CONSTANTS
  Sessions = {s1, s2}
  FailureThreshold = 2
  RecoveryTimeout = 3
  MaxRetries = 2
  MaxInvocations = 2
  Horizon = 5
INVARIANTS TypeOK CountDecidesState NoAdmissionDuringOutage
PROPERTIES LifeCycle InvocationEnds
CHECK_DEADLOCK FALSE
