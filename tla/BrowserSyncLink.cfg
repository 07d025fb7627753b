SPECIFICATION Spec
CONSTANTS
  Tabs = {t1, t2}
  Users = {alice}
  Admins = {}
  Others = {}
  Data = {d1, d2}
  MaxLocal = 3
  MaxServer = 3
  MaxCopies = 0
  Absent = Absent
SYMMETRY Symmetric
PROPERTIES
  LinkNeverRegresses
CHECK_DEADLOCK FALSE
