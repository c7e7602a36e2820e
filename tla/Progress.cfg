SPECIFICATION FairSpec
CONSTANTS
  Predecessors <- PREDECESSORS
  Inputs <- HandlerInputs
  Docs = {d1}
  Jobs = {j1}
  NoJob = NoJob
  NoDoc = NoDoc
  Workers = {w1}
  Hooks = {h1}
  Reapers = {r1}
  MaxAttempts = 2
  MaxCopies = 1
  MaxLosses = 1
  MaxCrashes = 1
  MaxBacklogs = 0
  MaxDisconnects = 0
PROPERTIES
  SettlesUnlessCrash
  StartedStepsEnd
