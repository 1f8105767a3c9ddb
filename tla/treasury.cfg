\* One scene with escrows, a guardian and income, one with limits and the registry.
SPECIFICATION SceneSpec
CONSTANTS
  alice = alice
  xlm = xlm
  Address = {alice}
  Kind <- Kinds
  Scenes <- BothScenes
  NoGuardian = NoGuardian
  NoLimit = NoLimit
  MaxActive = 2
  MaxOwnerWeight = 1
  MaxDuration = 3
  TimeLockDelay = 0
  Proposers = {alice}
  Durations = {3}
  MaxProposals = 3
  MaxTime = 3
  GuardianCandidates = {alice}
  Token = {xlm}
  SpendingWindow = 2
  Windows = {1}
  Deposits <- FundsOfThree
  MaxBalance = 3
  MaxBatch = 2
  Shares <- Sole
  Threshold = 1
INVARIANTS FundsAccounted FirstWindowBounded
PROPERTIES EscrowsEndOnce StopsHoldFunds
