SPECIFICATION Spec
CONSTANTS
  Beans = {m1}
  MaxOrders = 3
  MaxTimers = 1
  MaxSent = 2
  Failures = {"database", "marketdata", "send"}
INVARIANTS
  NoDuplicates
PROPERTIES
  NeverBack
\* The bounds on orders, timers and requests stop the system.
CHECK_DEADLOCK FALSE
