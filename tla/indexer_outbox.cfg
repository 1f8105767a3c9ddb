SPECIFICATION Spec
CONSTANTS
  None = None
  hook = hook
  other = other
  Chain <- OutboxChain
  Token = {"xlm"}
  Treasury = "treasury"
  Topics = {"created", "approved"}
  Target = {hook}
  Wanted <- Everything
  StartLedger = 1
  MaxLedger = 1
  MaxStale = 0
  MaxFailures = 1
  MaxAttempts = 2
  BatchSize = 2
  MaxRuns = 0
  MaxInterventions = 1
  Deployment <- OutboxDeployments
INVARIANTS OutboxSound
PROPERTIES FirstSendsInOrder DeliveriesSettle
CHECK_DEADLOCK FALSE
