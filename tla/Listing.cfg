SPECIFICATION ListingSpec
CONSTANTS
  alice = alice
  bob = bob
  Members = {alice, bob}
  Hosts = {}
  MaxProposals = 2
  VoteDuration = 2
  ExecutionDelay = 1
  PassThresholdBps = 5000
  InitialTotal = 4
  MaxTotal = 0
  MinCancelDelay = 1
  MaxCancelDelay = 2
  MaxExecutableTimes = {4}
  CancelDelays = {0}
  NoData <- MCNoData
  GuardHash <- MCGuardHash
  OtherData <- MCOtherData
  Progress <- MCProgress
  Powers <- SteadyPowers
  Kinds <- MCKinds
  ZoraTimeout = 1
  SafetyTimeout = 1
  AuctionDuration = 1
  OrderDuration <- LongThenShort
  Uint40Max = 15
  Uint96Max = 200000
  DisableValues = {}
  MaxTime = 5
INVARIANTS EngineAgrees
PROPERTIES AuctionedFirst EndedListingIsSafe FollowsLifecycle PartyIsFreed
CHECK_DEADLOCK FALSE
