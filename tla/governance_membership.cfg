\* Owners alice (2) and bob (1); carol may join. Two proposals may be active, three created.
SPECIFICATION Spec
CONSTANTS
  alice = alice
  bob = bob
  carol = carol
  Address = {alice, bob, carol}
  Kind <- Everything
  NoGuardian = NoGuardian
  MaxActive = 2
  MaxOwnerWeight = 2
  MaxDuration = 2
  TimeLockDelay = 0
  Proposers = {alice}
  Durations = {0, 1}
  MaxProposals = 3
  MaxTime = 1
  GuardianCandidates = {}
  MaxOwners = 3
  PctCap = 50
  Genesis <- QuorumOfThree
  Menu <- MembershipMenu
  Pcts = {0, 40, 51}
INVARIANTS
  TypeOK
  QuorumAttainable
  NoGhostVotes
  TallyMatches
  TotalCoversOwners
  RoleIndexExact
