SPECIFICATION HistorySpec
CONSTANTS
  Approach = 1
  Packages = {1, 2, 3, 4}
  Length = 4
  Width = 2
  Clearance = 0
  PalletLength = 8
  PalletWidth = 4
  MaxPerGrip = 2
  MultiPickAllowed = TRUE
  Steps <- SomeSteps
  Labels <- SomeLabels
  Starts <- Calculations
  MaxHistory = 2
  MaxEdits = 3
  MaxSaves = 1
INVARIANTS PreviewAnswers
