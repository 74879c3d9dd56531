\* An armed paper account on a losing day.
SPECIFICATION Spec
CONSTANTS
  InitialFiles <- MCFiles
  NumberTexts <- MCNumbers
  Edited <- MCEdited
  Observations <- MCObservations
  MaxEdits = 0
  MaxLoss = 2
INVARIANTS
  DailyLossStops
CHECK_DEADLOCK FALSE
