SPECIFICATION Spec
CONSTANTS
  Users = {alice, bob}
  Nobody = Nobody
  Absent = Absent
  MaxVersion = 3
  MaxContent = 3
  MaxToken = 2
  MaxRevision = 2
PROPERTIES
  SettlingRemovesOnlyDecided
CONSTRAINT Explored
SYMMETRY UserSymmetry
CHECK_DEADLOCK FALSE
