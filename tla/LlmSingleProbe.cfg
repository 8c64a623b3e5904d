SPECIFICATION Spec
CONSTANTS
  Sessions = {s1, s2, s3}
  FailureThreshold = 2
  RecoveryTimeout = 2
  MaxRetries = 1
  MaxInvocations = 2
  Horizon = 4
INVARIANT SingleProbe
CHECK_DEADLOCK FALSE
