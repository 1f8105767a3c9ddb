\* A schedule of each sort is made, paused, resumed, changed and cancelled while it pays.
SPECIFICATION TermsSpec
CONSTANTS
  alice = alice
  xlm = xlm
  Address = {alice}
  Kind <- RecurringMenu
  NoGuardian = NoGuardian
  NoLimit = NoLimit
  Same = Same
  Standing <- OneEach
  MaxActive = 1
  MaxOwnerWeight = 1
  MaxDuration = 9
  TimeLockDelay = 0
  Proposers = {alice}
  Durations = {9}
  MaxProposals = 2
  MaxTime = 5
  GuardianCandidates = {}
  Token = {xlm}
  SpendingWindow = 2
  Windows = {1}
  Deposits <- Funds
  MaxBalance = 0
  MaxBatch = 1
  Shares <- Sole
  Threshold = 1
  MinInterval = 2
  MaxInterval = 3
  MaxActiveRecurring = 2
INVARIANTS CountCoversActive 
