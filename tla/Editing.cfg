SPECIFICATION EditingSpec
CONSTANTS
  Approach = 1
  Packages = {1, 2, 3, 4}
  Length = 4
  Width = 2
  Clearance = 0
  PalletLength = 8
  PalletWidth = 4
  MaxPerGrip = 2
  MultiPickAllowed = TRUE
  Steps <- SomeSteps
  Labels <- SomeLabels
  Starts <- SomeStarts
  MaxHistory = 2
  MaxEdits = 2
  MaxSaves = 1
  Users = {alice, bob}
  Nobody = Nobody
  Absent = Absent
  MaxVersion = 3
  MaxContent = 3
  MaxToken = 2
  MaxRevision = 2
INVARIANTS
  EditingTypeOK
  OrderPlaceable
  NeverWorseThanOpened
  GroupingKeepsExplicitOrder
  DeltasAgree
  EditsBackedUp
PROPERTIES
  TimelineKept
  NoSilentOverwrite
  AnswersEndOnlyTheirs
CONSTRAINT Explored
SYMMETRY UserSymmetry
CHECK_DEADLOCK FALSE
