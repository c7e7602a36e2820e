SPECIFICATION Spec
CONSTANTS
  Predecessors <- PREDECESSORS
  Inputs <- HandlerInputs
  Docs = {d1}
  Jobs = {j1}
  NoJob = NoJob
  NoDoc = NoDoc
  Workers = {w1, w2}
  Hooks = {}
  Reapers = {r1}
  MaxAttempts = 2
  MaxCopies = 2
  MaxLosses = 0
  MaxCrashes = 0
  MaxBacklogs = 1
  MaxDisconnects = 0
SYMMETRY Symmetry
INVARIANTS
  InputsReady
  FanInOnce
  FanInNotLost
