SPECIFICATION GuardsSpec
CONSTANTS
  Ids = {1, 2, 3}
  Admins = {1, 2}
  Deleters = {d1, d2}
  Names = {n1, n2}
  Addresses = {a1}
  NameLimit = 2
  AddressLimit = 2
  Window = 2
  MaxEntries = 2
  Attempts = {t1, t2}
  Windows = {w1}
  Photos = {p1, p2}
  UploadSlots = 1
  ModelSlots = 1
  MaxRetries = 1
  MaxTyped = 1
  None = None
INVARIANTS
  GuardsTypeOK
  AdminRemains
  AttemptsLimited
  SlotsCounted
PROPERTIES
  DeletionEnds
  KeepsPromise
  LockoutEnds
  PhotosSettle
