SPECIFICATION WorkersSpec
CONSTANTS
  MaxRuns = 3
  MaxProgress = 1
  Loops = {l1, l2}
  Shutters = {s1}
  Files = {model, wasm}
INVARIANTS
  WorkersTypeOK
  RunsKeptApart
  DetectionsServed
  DownloadedOnce
PROPERTIES
  RunsEnd
  PromisesSettle
  KeepsPromise
CHECK_DEADLOCK FALSE
