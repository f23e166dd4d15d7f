CONSTANTS
  Checks = {k1, k2}
  Prints = {p}
  Capacity = 1
  MaxPublishes = 2
  MaxExits = 1
  Stops = TRUE
SPECIFICATION Spec
CHECK_DEADLOCK FALSE
INVARIANTS OneOwnedTask ServedIsRegistered
PROPERTIES ServedNotTakenDown Reconciled ExecutorShutdown
