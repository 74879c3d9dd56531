\* One trading process, four intents, crashes; every recorded intent is read back.
SPECIFICATION Spec
CONSTANTS
  trader = trader
  operator = operator
  i1 = i1
  i2 = i2
  i3 = i3
  i4 = i4
  None = None
  Procs = {trader}
  Operators = {}
  Intents = {i1, i2, i3, i4}
  Handles <- OneHandles
  Quantities <- TwoSizes
  SeedLimit = 4
  MaxOpenOrders = 2
  MaxHourlyOrders = 3
  MaxStarts = 4
SYMMETRY IntentSymmetry
INVARIANTS
  OpenLimit
  HourlyLimit
  SentAsApproved
CHECK_DEADLOCK FALSE
