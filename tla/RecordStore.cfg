SPECIFICATION Spec
CONSTANTS
  Clients = {c1, c2}
  Keys = {plan, catalog}
  AdminOnly = {catalog}
  Users = {alice, root, root2}
  Admins = {root, root2}
  Data = {d1, d2}
  MaxVersion = 3
  Absent = Absent
  Nobody = Nobody
  Empty = Empty
  None = None
SYMMETRY Symmetric
CONSTRAINT OneKeyInUse
INVARIANTS
  TypeOK
  OneContentPerVersion
  AnswersTrue
PROPERTIES
  NoWriteAfterAccountDeletion
  KeepsPromise
