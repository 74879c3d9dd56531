\* One trading process on IBKR: is it READY again after a fill?
SPECIFICATION FairSpec
CONSTANTS
  trader = trader
  operator = operator
  Procs = {trader}
  Operators = {}
  NOrders = 1
  Targets <- UpOnly
  MaxPosition = 2
  MaxOpenOrders = 1
  InstantFill = FALSE
  MaxStarts = 1
PROPERTIES
  ReadyAgain
CHECK_DEADLOCK FALSE
