\* A restart after a fill that was recorded but not adopted.
SPECIFICATION Spec
CONSTANTS
  trader = trader
  operator = operator
  Procs = {trader}
  Operators = {}
  NOrders = 2
  Targets <- UpAndDown
  MaxPosition = 2
  MaxOpenOrders = 2
  InstantFill = FALSE
  MaxStarts = 2
INVARIANTS
  BookReflectsFills
CHECK_DEADLOCK FALSE
