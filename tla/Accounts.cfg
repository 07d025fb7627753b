SPECIFICATION Spec
CONSTANTS
  root = root
  bob = bob
  bob2 = bob2
  Users = {root, bob, bob2}
  Admins = {root}
  Names = {"root", "bob"}
  NameOf <- MCNameOf
  Passwords = {p1, p2}
  Browsers = {b1, b2}
  Ttl = 1
  CleanupPause = 1
  MaxTime = 1
  MaxSalt = 2
  MaxToken = 2
  Absent = Absent
SYMMETRY Symmetric
INVARIANTS
  TypeOK
  NoSessionSurvivesReset
PROPERTIES
  OnlyResetChangesPassword
CHECK_DEADLOCK FALSE
