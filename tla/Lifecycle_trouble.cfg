\* IBKR: drops, restarts and failures of every kind, until they end.
SPECIFICATION FairSpec
CONSTANTS
  Ibkr = TRUE
  TransmitAllowed = TRUE
  ReconcileTimer = TRUE
  MaxAttempts = 0
  MaxExponent = 2
  MaxSessions = 3
  MaxStarts = 1
INVARIANTS
  TypeOK
  ReadyIsEarned
  TrustsThisSession
  OneLateOrder
PROPERTIES
  RecoversToReady
  HaltEndsReady
  NoReadyAfterLatch
  ServesOneSession
CHECK_DEADLOCK FALSE
