\* One trading process on IBKR, one life, fills at any moment.
SPECIFICATION FairSpec
CONSTANTS
  trader = trader
  operator = operator
  Procs = {trader}
  Operators = {}
  NOrders = 2
  Targets <- UpAndDown
  MaxPosition = 2
  MaxOpenOrders = 2
  InstantFill = FALSE
  MaxStarts = 1
INVARIANTS
  BookReflectsFills
PROPERTIES
  PositionExplained
CHECK_DEADLOCK FALSE
