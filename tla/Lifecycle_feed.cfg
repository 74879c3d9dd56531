\* IBKR: quotes after a reconnection.
SPECIFICATION FairSpec
CONSTANTS
  Ibkr = TRUE
  TransmitAllowed = TRUE
  ReconcileTimer = TRUE
  MaxAttempts = 0
  MaxExponent = 2
  MaxSessions = 2
  MaxStarts = 0
PROPERTIES
  FeedResumes
CHECK_DEADLOCK FALSE
