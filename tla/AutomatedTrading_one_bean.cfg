SPECIFICATION Spec
CONSTANTS
  Beans = {m1}
  MaxOrders = 3
  MaxTimers = 2
  MaxSent = 2
  Failures = {"send"}
INVARIANTS
  OneTimer
  IndexNeverTooSmall
  IndexDrift
  FirstEnteredRight
PROPERTIES
  OrdersExamined
\* The bounds on orders, timers and requests stop the system.
CHECK_DEADLOCK FALSE
