SPECIFICATION Spec
CONSTANTS
  Predecessors <- CallGraph
  Inputs <- CallInputs
  Docs = {d1}
  Jobs = {j1, j2}
  NoJob = NoJob
  NoDoc = NoDoc
  Workers = {w1, w2}
  Hooks = {}
  Reapers = {r1}
  MaxAttempts = 2
  MaxCopies = 1
  MaxLosses = 0
  MaxCrashes = 0
  MaxBacklogs = 1
  MaxDisconnects = 0
SYMMETRY Symmetry
INVARIANT
  NoSecondCall
