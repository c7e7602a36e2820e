SPECIFICATION Spec
CONSTANTS
  Predecessors <- CallGraph
  Inputs <- CallInputs
  Docs = {d1}
  Jobs = {j1, j2, j3}
  NoJob = NoJob
  NoDoc = NoDoc
  Workers = {w1, w2}
  Hooks = {h1}
  Reapers = {r1}
  MaxAttempts = 2
  MaxCopies = 1
  MaxLosses = 0
  MaxCrashes = 1
  MaxBacklogs = 0
  MaxDisconnects = 1
SYMMETRY Symmetry
INVARIANTS
  ReadyIsVerified
  CallsBounded
PROPERTY
  NoCallAfterSave
