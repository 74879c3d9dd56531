\* Two .env files, two edits of the file or over it, 0 to 2 for every number.
SPECIFICATION Spec
CONSTANTS
  InitialFiles <- MCFiles
  Edited <- MCEdited
  NumberTexts <- MCNumbers
  Observations <- MCObservations
  MaxEdits = 2
  MaxLoss = 1
INVARIANTS
  TypeOK
  ExplicitConsent
  WithinLimits
  AssurancesHold
  ListsAgree
  TighterIsSafer
  PassedMeansObserved
PROPERTIES
  LiveTakesTwoEdits
CHECK_DEADLOCK FALSE
