\* A limit of 1 in windows of length 1, and several payments of 1.
SPECIFICATION SceneSpec
CONSTANTS
  alice = alice
  xlm = xlm
  Address = {alice}
  Kind <- Kinds
  Scenes <- OnlyWindows
  NoGuardian = NoGuardian
  NoLimit = NoLimit
  MaxActive = 2
  MaxOwnerWeight = 1
  MaxDuration = 3
  TimeLockDelay = 0
  Proposers = {alice}
  Durations = {3}
  MaxProposals = 4
  MaxTime = 4
  GuardianCandidates = {}
  Token = {xlm}
  SpendingWindow = 2
  Windows = {1}
  Deposits <- FundsOfThree
  MaxBalance = 0
  MaxBatch = 2
  Shares <- Sole
  Threshold = 1
INVARIANTS
  LimitBoundsEveryWindow
