\* Five rows, two tables, one database error.
SPECIFICATION Spec
CONSTANTS
  alice = alice
  bob = bob
  carol = carol
  Scenes = {"api"}
  Wallets = {alice}
  None = None
  Slots <- MCSlots
  MaxVersion = 0
  Budget = 0
  Channels = {"none", "stream"}
  Address = {alice, bob, carol}
  Owners = {alice, bob}
  Threshold = 1
  Drafts <- Table
  Menus <- MCMenus
  MaxSent = 0
  DayLength = 2
  Zones <- MCZones
  MaxTime = 2
  MaxDays = 2
  MaxOwners = 3
  MaxWeight = 3
  MinInterval = 1
  MaxInterval = 2
  Rows <- MCRows
  Rules <- MCRules
  DayHours = 4
  StormWindow = 2
  Caps = {1, 9}
  PollBatch = 2
  SeenCapacity = 9
  MaxTroubles = 1
  Queries = {"a"}
  MaxEntries = 1
  MaxRequests = 1
  Book <- MCBook
  TicksPerDay = 2
  Span <- MCSpan
  Shift <- MCShift
  Members = {alice, bob, carol}
  Categories = {"Ops", "Other"}
  Lower <- MCLower
  MaxLimit = 100
  Filters <- MCFilters
  Start = 7
  RequestsPerMinute = 1
  MaxRefused = 0
  Plans <- MCPlans
  MonthTicks = 4
  Horizons = {3, 6}
  Purses = {0}
  Voters = {alice, bob, carol}
  MaxVote = 1
  Watched = 1
  Beginning <- MCBeginning
  Numbers = {1}
  Majority = 1
  Reach = 1
  PageSize = 4
  FeedSize = 1
  MaxEvents = 5
  Published <- MCPublished
  PageLimit = 3
  SnapshotEvery = 2
  Lookback = 1
  StartSettings = {None, 2}
  Hosts <- MCHosts
  MaxMade = 3
  MaxScanIds = 5
  PeekTo = 2
  MissesIdle = 1
  MissesActive = 2
  MaxTurns = 5
  Answers <- MCAnswers
  First = "indexer"
  MaxStaleness = 1
  HistoryDays = 1
  DayProbes = 2
  HeartbeatTicks = 2
  Incidents <- MCIncidents
  MaxClock = 3
  MaxJobs = 3
  MaxEdits = 1
  NoPage = NoPage
  Destinations = {"chat", "ops"}
  Before <- MCBefore
  Entries <- MCEntries
  Stored = {3}
  ByHand = {4}
  Feed <- MCFeed
  NotifyAttempts = 2
  NotifyBatch = 1
  MinSecret = 16
  MaxPuts = 1
  MaxMishaps = 1
  Nil = Nil
  Areas = {"ledger", "events", "hooks", "letters", "ends", "reconcile", "replay", "migrations",
           "columns"}
  Transfers <- MCTransfers
  Notices <- MCNotices
  Lookups <- MCLookups
  Coins <- MCCoins
  Moves <- MCMoves
  Puts <- MCPuts
  Windows <- MCWindows
  Images <- MCImages
  MaxCalls <- MCMaxCalls
  Null = Null
INVARIANTS RaisedIsRecorded
CHECK_DEADLOCK FALSE
