SPECIFICATION Spec
CONSTANTS
  Clicks = {c1, c2}
  Deployments <- AllDeployments
  TxLifetime = 2
  PollFor = 2
  CosignPollFor = 4
  MaxAttempts = 2
  MaxTime = 1
  MaxFaults = 2
  Nothing = Nothing
INVARIANTS ClicksActOnce ConsoleFits
PROPERTY CallsSettle
CHECK_DEADLOCK FALSE
