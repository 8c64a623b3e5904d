SPECIFICATION Spec
CONSTANTS
  Clients = {c1, c2}
  Requests = {r1, r2, r3, r4, r5}
  ExemptRequests = {r5}
  MaxRequests = 2
  WindowSeconds = 2
  TicksPerSecond = 2
  Horizon = 9
INVARIANTS TypeOK SlidingWindowLimit RetryAfterSuffices
PROPERTY ImplementsSlidingWindow
SYMMETRY Symmetry
CHECK_DEADLOCK FALSE
