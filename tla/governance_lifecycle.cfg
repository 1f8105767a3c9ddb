\* Time passes: proposals expire, the time-lock runs, roles and the guardian change.
SPECIFICATION Spec
CONSTANTS
  alice = alice
  bob = bob
  carol = carol
  Address = {alice, bob, carol}
  Kind <- Everything
  NoGuardian = NoGuardian
  MaxActive = 2
  MaxOwnerWeight = 2
  MaxDuration = 1
  TimeLockDelay = 1
  Proposers = {alice}
  Durations = {0, 1, 2}
  MaxProposals = 2
  MaxTime = 3
  GuardianCandidates = {alice}
  MaxOwners = 3
  PctCap = 50
  Genesis <- QuorumOfTwo
  Menu <- LifecycleMenu
  Pcts = {}
INVARIANTS
  ActiveIndexExact
  ReadyHasTimer
PROPERTIES
  LifecycleMoves
  ImplementsBallots
