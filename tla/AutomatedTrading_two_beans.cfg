SPECIFICATION Spec
CONSTANTS
  Beans = {m1, m2}
  MaxOrders = 2
  MaxTimers = 2
  MaxSent = 2
  Failures = {"marketdata", "send"}
INVARIANTS
  TypeOK
  ListsAligned
  NoDuplicates
  EnteredHasOneTrade
  FillEntersOneOrder
PROPERTIES
  LifecycleSpec
\* The bounds on orders, timers and requests stop the system.
CHECK_DEADLOCK FALSE
