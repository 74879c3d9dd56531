\* Two requests, two sessions, ids small enough to meet order ids: 2 is the first order's
\* number and the open orders', 3 the second's, the first fresh id and another client's.
SPECIFICATION Spec
CONSTANTS
  MaxCalls = 2
  MaxSessions = 2
  Rows = 2
  FirstRequestId = 3
  FirstOrderIds = {2}
  OtherOrders = {3}
  Expected = "paper"
INVARIANTS
  TypeOK
  BlameCrossesSpacesOnly
  StatusIsOfTheNumber
  NobodyWaitsForTheDead
  RightAccountOnly
PROPERTIES
  AnswersSpec
CHECK_DEADLOCK FALSE
