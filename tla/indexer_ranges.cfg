SPECIFICATION Spec
CONSTANTS
  None = None
  hook = hook
  other = other
  Chain <- SyncChain
  Token = {"xlm"}
  Treasury = "treasury"
  Topics = {"created", "approved"}
  Target = {}
  Wanted <- NoTopics
  StartLedger = 1
  MaxLedger = 3
  MaxStale = 0
  MaxFailures = 2
  MaxAttempts = 1
  BatchSize = 1
  MaxRuns = 2
  MaxInterventions = 0
  Deployment <- TwoRanges
INVARIANT RangeCovered
CHECK_DEADLOCK FALSE
