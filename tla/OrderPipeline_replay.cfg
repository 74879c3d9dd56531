\* A trading process and operator commands on one database; a restart
\* forgets every past intent, so replays get as far as the idempotency key.
SPECIFICATION Spec
CONSTANTS
  trader = trader
  operator = operator
  i1 = i1
  i2 = i2
  i3 = i3
  i4 = i4
  None = None
  Procs = {trader, operator}
  Operators = {operator}
  Intents = {i1, i2}
  Handles <- SplitHandles
  Quantities = {1}
  SeedLimit = 0
  MaxOpenOrders = 2
  MaxHourlyOrders = 2
  MaxStarts = 2
INVARIANTS
  TypeOK
  AtMostOnce
  NoOrphan
PROPERTIES
  TransmittedIsForever
  TransmitOnceSpec
CHECK_DEADLOCK FALSE
