SPECIFICATION PlansSpec
CONSTANTS
  Tabs = {t1, t2}
  Users = {alice}
  Admins = {}
  Others = {bob}
  Data = {d1, d2}
  MaxLocal = 3
  MaxServer = 3
  MaxCopies = 2
  Absent = Absent
  Plans = {p1}
  MaxContent = 2
  plan1 = plan1
  Order <- OnePlan
  ImportUsers = {alice, root}
  ImportAdmins = {root}
  Planners = {q1}
  Runs = {r1}
  MaxOthers = 2
CONSTRAINT Explored
SYMMETRY Symmetric
INVARIANTS
  PlansTypeOK
  LinksAreTrue
  VersionNamesRecord
  MarkedWereMade
  ReportIsTrue
PROPERTIES
  NoSilentOverwrite
  OnlyPublishedPayloadRemoved
  ImportAsksFirst
CHECK_DEADLOCK FALSE
