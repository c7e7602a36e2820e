SPECIFICATION Spec
CONSTANTS
  Predecessors <- PREDECESSORS
  Inputs <- HandlerInputs
  Docs = {d1}
  Jobs = {j1, j2}
  NoJob = NoJob
  NoDoc = NoDoc
  Workers = {w1, w2}
  Hooks = {h1}
  Reapers = {r1}
  MaxAttempts = 2
  MaxCopies = 1
  MaxLosses = 1
  MaxCrashes = 1
  MaxBacklogs = 0
  MaxDisconnects = 0
SYMMETRY Symmetry
INVARIANTS
  TypeOK
  SingleDelivery
  SettledInSync
  ReadyIsComplete
  RetryBudget
PROPERTY
  StepsFollowLifecycle
