SPECIFICATION Spec
CONSTANTS
  Beans = {m1}
  MaxOrders = 2
  MaxTimers = 1
  MaxSent = 3
  Failures = {}
INVARIANTS
  FillEntersItsOrder
\* The bounds on orders, timers and requests stop the system.
CHECK_DEADLOCK FALSE
