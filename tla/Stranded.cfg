SPECIFICATION FairSpec
CONSTANTS
  Predecessors <- PREDECESSORS
  Inputs <- HandlerInputs
  Docs = {d1}
  Jobs = {j1}
  NoJob = NoJob
  NoDoc = NoDoc
  Workers = {w1}
  Hooks = {}
  Reapers = {r1}
  MaxAttempts = 2
  MaxCopies = 1
  MaxLosses = 0
  MaxCrashes = 1
  MaxBacklogs = 0
  MaxDisconnects = 0
PROPERTY
  DocumentSettles
