\* One trading process on a broker that fills at once.
SPECIFICATION FairSpec
CONSTANTS
  trader = trader
  operator = operator
  Procs = {trader}
  Operators = {}
  NOrders = 2
  Targets <- UpAndDown
  MaxPosition = 2
  MaxOpenOrders = 1
  InstantFill = TRUE
  MaxStarts = 1
PROPERTIES
  ReadyAgain
CHECK_DEADLOCK FALSE
