SPECIFICATION Spec
CONSTANTS
  Beans = {m1}
  MaxOrders = 1
  MaxTimers = 1
  MaxSent = 1
  Failures = {}
INVARIANTS
  MonitoringIsAlive
\* The bounds on orders, timers and requests stop the system.
CHECK_DEADLOCK FALSE
