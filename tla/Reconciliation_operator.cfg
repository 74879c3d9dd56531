\* Operator commands one after the other, one open order allowed.
SPECIFICATION Spec
CONSTANTS
  trader = trader
  operator = operator
  Procs = {operator}
  Operators = {operator}
  NOrders = 3
  Targets <- UpAndDown
  MaxPosition = 2
  MaxOpenOrders = 1
  InstantFill = FALSE
  MaxStarts = 4
INVARIANTS
  TypeOK
  PositionLimit
  ReadyMeansResolved
  TrustedBook
PROPERTIES
  SendsOnce
  FillsMoveOneBook
CHECK_DEADLOCK FALSE
