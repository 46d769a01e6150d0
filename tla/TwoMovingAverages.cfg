SPECIFICATION Spec
CONSTANTS
  Beans = {b1, b2}
  MaxTimers = 3
  MaxOrders = 3
INVARIANTS TypeOK  SignalsKillTimers TimerPerBean
PROPERTIES OrdersExamined
CHECK_DEADLOCK FALSE
