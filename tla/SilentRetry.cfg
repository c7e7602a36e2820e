SPECIFICATION StreamSpec
CONSTANTS
  Predecessors <- CallGraph
  Inputs <- CallInputs
  Docs = {d1}
  Jobs = {j1}
  NoJob = NoJob
  NoDoc = NoDoc
  Workers = {w1}
  Hooks = {}
  Reapers = {r1}
  MaxAttempts = 2
  MaxCopies = 1
  MaxLosses = 0
  MaxCrashes = 0
  MaxBacklogs = 0
  MaxDisconnects = 0
  Watchers = {c1}
  QueueSize = 1
INVARIANT
  EveryChangeReported
