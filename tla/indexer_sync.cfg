SPECIFICATION Spec
CONSTANTS
  None = None
  hook = hook
  other = other
  Chain <- SyncChain
  Token = {"xlm"}
  Treasury = "treasury"
  Topics = {"created", "approved"}
  Target = {}
  Wanted <- NoTopics
  StartLedger = 1
  MaxLedger = 3
  MaxStale = 1
  MaxFailures = 1
  MaxAttempts = 1
  BatchSize = 1
  MaxRuns = 2
  MaxInterventions = 0
  Deployment <- LiveAndCommands
INVARIANTS NothingDropped TablesExact WalkCovers
PROPERTY ImplementsFinalLog
CHECK_DEADLOCK FALSE
