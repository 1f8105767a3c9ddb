\* Two proposals to admit carol, both made before either executes.
SPECIFICATION Spec
CONSTANTS
  alice = alice
  bob = bob
  carol = carol
  Address = {alice, bob, carol}
  Kind <- Everything
  NoGuardian = NoGuardian
  MaxActive = 2
  MaxOwnerWeight = 2
  MaxDuration = 2
  TimeLockDelay = 0
  Proposers = {alice}
  Durations = {1}
  MaxProposals = 2
  MaxTime = 1
  GuardianCandidates = {}
  MaxOwners = 4
  PctCap = 50
  Genesis <- QuorumOfTwo
  Menu <- AdmissionMenu
  Pcts = {}
INVARIANTS
  TotalMatchesOwners
